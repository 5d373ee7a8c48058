---------------------------- MODULE RxReorderProofs ----------------------------
(***************************************************************************)
(* Proofs about RxReorder, for any window, number space and A-MSDUs and    *)
(* for any number of lost and repeated frames, requests and sessions: the  *)
(* types, the count of the stored frames, that somebody will look at what  *)
(* is stored, and the order in which frames go up.  A loop of the code     *)
(* keeps what every turn of it hands on to the next (Looped);              *)
(* ForceReleaseIs, ReleaseIs and ReorderIs say what the three functions of *)
(* skw_rx.c make of any buffer, and ForceReleaseOrder, ReleaseOrder and    *)
(* ReorderOrder what they make of the order of the frames in it.           *)
(***************************************************************************)
EXTENDS RxReorder, TLAPS, WellFoundedInduction, FiniteSetTheorems, SequenceTheorems

LEMMA Sizes ==
  /\ WinSize \in Nat /\ WinSize > 0 /\ SnMod \in Nat /\ 4 * WinSize <= SnMod /\ FirstSn \in 0..SnMod - 1
  /\ MaxFrame \in Nat /\ MaxTrouble \in Nat
  BY ReorderAssumption

\* Numbers with the same remainder differ by a multiple.
LEMMA ModUnique ==
  ASSUME NEW m \in Nat, m > 0, NEW q \in Int, NEW r \in 0..m - 1
  PROVE  (m * q + r) % m = r
  OBVIOUS

LEMMA ModIs ==
  ASSUME NEW m \in Nat, m > 0, NEW x \in Int
  PROVE  x % m \in 0..m - 1 /\ \E q \in Int : x = m * q + (x % m)
<1>1. x = m * (x \div m) + (x % m)
  OBVIOUS
<1>2. x % m \in 0..m - 1 /\ x \div m \in Int
  OBVIOUS
<1> QED BY <1>1, <1>2

LEMMA ModShift ==
  ASSUME NEW m \in Nat, m > 0, NEW x \in Int, NEW k \in Int
  PROVE  (x + m * k) % m = x % m
<1>1. PICK q \in Int : x = m * q + (x % m)
  BY ModIs
<1>2. x % m \in 0..m - 1
  BY ModIs
<1>3. x + m * k = m * (q + k) + (x % m)
  BY <1>1, <1>2
<1> QED BY <1>2, <1>3, ModUnique

\* A remainder of a multiple of the modulus.
LEMMA ModMod ==
  ASSUME NEW m \in Nat, m > 0, NEW w \in Nat, w > 0, m % w = 0, NEW x \in Int
  PROVE  (x % m) % w = x % w
<1>1. PICK q \in Int : x = m * q + (x % m)
  BY ModIs
<1>2. PICK c \in Int : m = w * c + (m % w)
  BY ModIs
<1>3. x % m \in Int
  BY ModIs
<1>4. x = (x % m) + w * (c * q)
  BY <1>1, <1>2, <1>3
<1>5. ((x % m) + w * (c * q)) % w = (x % m) % w
  <2>1. c * q \in Int
    OBVIOUS
  <2>2. \A y \in Int, k \in Int : (y + w * k) % w = y % w
    BY ModShift
  <2> QED BY <1>3, <2>1, <2>2
<1> QED BY <1>4, <1>5
-----------------------------------------------------------------------------
(* Sequence numbers *)

\* How many slots a window that starts at a has to move to be behind b.
Left(a, b) == (b + 1 - a) % SnMod

LEMMA Next12Type == ASSUME NEW a \in Int PROVE Next12(a) \in 0..SnMod - 1
  BY Sizes, ModIs DEF Next12

LEMMA LeftType == ASSUME NEW a \in Int, NEW b \in Int PROVE Left(a, b) \in 0..SnMod - 1
<1>1. b + 1 - a \in Int
  OBVIOUS
<1> QED BY <1>1, Sizes, ModIs DEF Left

\* The comparison of the loop is the comparison with zero.
LEMMA LessIsLeft ==
  ASSUME NEW a \in Int, NEW b \in Int, Left(a, b) <= WinSize
  PROVE  Less(a, Next12(b)) <=> Left(a, b) # 0
<1> DEFINE d == Left(a, b)
<1>0. SnMod \in Nat /\ SnMod > 0 /\ WinSize \in Nat /\ 4 * WinSize <= SnMod
  BY Sizes
<1>1. d \in 0..SnMod - 1
  BY LeftType
<1>2. PICK q \in Int : b + 1 - a = SnMod * q + d
  BY <1>0, ModIs, b + 1 - a \in Int DEF Left
<1>3. PICK k \in Int : b + 1 = SnMod * k + Next12(b)
  BY <1>0, ModIs, b + 1 \in Int DEF Next12
<1>4. Next12(b) \in 0..SnMod - 1
  BY Next12Type
<1>5. a - Next12(b) = SnMod * (k - q) - d
  BY <1>0, <1>1, <1>2, <1>3, <1>4
<1> HIDE DEF d
<1>6. CASE d = 0
  <2>1. (SnMod * (k - q) + 0) % SnMod = 0
    BY <1>0, ModUnique, 0 \in 0..SnMod - 1
  <2>2. (a - Next12(b)) % SnMod = 0
    BY <1>0, <1>5, <1>6, <2>1
  <2> QED BY <1>0, <1>6, <2>2 DEF Less, d
<1>7. CASE d # 0
  <2>1. SnMod - d \in 0..SnMod - 1 /\ k - q - 1 \in Int
    BY <1>0, <1>1, <1>7
  <2>2. a - Next12(b) = SnMod * (k - q - 1) + (SnMod - d)
    BY <1>0, <1>1, <1>5
  <2>3. (a - Next12(b)) % SnMod = SnMod - d
    BY <1>0, <2>1, <2>2, ModUnique
  <2>4. SnMod - d > SnMod \div 2
    <3>1. d <= WinSize
      BY DEF d
    <3> QED BY <1>0, <1>1, <3>1
  <2> QED BY <1>7, <2>3, <2>4 DEF Less, d
<1> QED BY <1>6, <1>7

\* The window start moves on by one.
LEMMA LeftNext ==
  ASSUME NEW a \in Int, NEW b \in Int, Left(a, b) # 0
  PROVE  Left(Next12(a), b) = Left(a, b) - 1
<1> DEFINE d == Left(a, b)
<1>0. SnMod \in Nat /\ SnMod > 0
  BY Sizes
<1>1. d \in 0..SnMod - 1
  BY LeftType
<1>2. PICK q \in Int : b + 1 - a = SnMod * q + d
  BY <1>0, ModIs, b + 1 - a \in Int DEF Left
<1>3. PICK k \in Int : a + 1 = SnMod * k + Next12(a)
  BY <1>0, ModIs, a + 1 \in Int DEF Next12
<1>4. Next12(a) \in Int
  BY Next12Type
<1>5. b + 1 - Next12(a) = SnMod * (q + k) + (d - 1)
  BY <1>0, <1>1, <1>2, <1>3, <1>4
<1>6. d - 1 \in 0..SnMod - 1 /\ q + k \in Int
  <2>1. d # 0
    OBVIOUS
  <2> HIDE DEF d
  <2> QED BY <1>0, <1>1, <2>1
<1> QED
  <2> HIDE DEF d
  <2>1. (SnMod * (q + k) + (d - 1)) % SnMod = d - 1
    BY <1>0, <1>6, ModUnique
  <2> QED BY <1>5, <2>1 DEF Left, d

\* The window start is the number itself.
LEMMA LeftOne ==
  ASSUME NEW a \in Int, NEW b \in Int, Left(a, b) = 1
  PROVE  Slot(a) = Slot(b)
<1>0. SnMod \in Nat /\ SnMod > 0 /\ WinSize \in Nat /\ WinSize > 0 /\ SnMod % WinSize = 0
  BY ReorderAssumption
<1>1. (b + 1 - a) % SnMod = 1 /\ b + 1 - a \in Int
  BY DEF Left
<1>2. PICK q \in Int : b + 1 - a = SnMod * q + 1
  BY <1>0, <1>1, ModIs
<1>3. b = a + SnMod * q
  BY <1>0, <1>2
<1>4. PICK c \in Int : SnMod = WinSize * c + 0
  BY <1>0, ModIs, SnMod \in Int
<1>5. b = a + WinSize * (c * q)
  BY <1>0, <1>3, <1>4
<1>6. c * q \in Int
  OBVIOUS
<1>7. (a + WinSize * (c * q)) % WinSize = a % WinSize
  BY <1>0, <1>6, ModShift
<1> QED BY <1>5, <1>7 DEF Slot

LEMMA SlotType == ASSUME NEW a \in Int PROVE Slot(a) \in Slots
  BY Sizes, ModIs DEF Slot, Slots

\* The slots from a on.
LEMMA LeftFrom ==
  ASSUME NEW a \in Int, NEW i \in 0..2 * WinSize
  PROVE  Left(a, a + i) = i + 1
<1>0. SnMod \in Nat /\ SnMod > 0 /\ i + 1 \in 0..SnMod - 1
  BY Sizes
<1>1. (a + i) + 1 - a = SnMod * 0 + (i + 1)
  BY <1>0
<1> QED BY <1>0, <1>1, ModUnique DEF Left

\* Two numbers less than a window apart have different slots, and every slot
\* is one of them.
LEMMA SlotsFrom ==
  ASSUME NEW a \in Int
  PROVE  /\ \A i, j \in 0..WinSize - 1 : Slot(a + i) = Slot(a + j) => i = j
         /\ \A x \in Slots : \E i \in 0..WinSize - 1 : Slot(a + i) = x
<1>0. WinSize \in Nat /\ WinSize > 0
  BY Sizes
<1>1. ASSUME NEW i \in 0..WinSize - 1, NEW j \in 0..WinSize - 1, Slot(a + i) = Slot(a + j)
      PROVE  i = j
  <2>1. PICK q \in Int : a + i = WinSize * q + Slot(a + i)
    BY <1>0, ModIs, a + i \in Int DEF Slot
  <2>2. PICK k \in Int : a + j = WinSize * k + Slot(a + j)
    BY <1>0, ModIs, a + j \in Int DEF Slot
  <2>3. Slot(a + i) \in Int
    BY SlotType, a + i \in Int DEF Slots
  <2>4. i = WinSize * (q - k) + j
    BY <1>0, <1>1, <2>1, <2>2, <2>3
  <2>5. i % WinSize = j
    BY <1>0, <2>4, ModUnique, q - k \in Int
  <2>6. i = WinSize * 0 + i
    BY <1>0
  <2>7. i % WinSize = i
    BY <1>0, <2>6, ModUnique
  <2> QED BY <2>5, <2>7
<1>2. ASSUME NEW x \in Slots
      PROVE  \E i \in 0..WinSize - 1 : Slot(a + i) = x
  <2> DEFINE i == (x - a) % WinSize
  <2>1. i \in 0..WinSize - 1 /\ x \in 0..WinSize - 1
    BY <1>0, ModIs, x - a \in Int DEF Slots
  <2>2. PICK q \in Int : x - a = WinSize * q + i
    BY <1>0, ModIs, x - a \in Int DEF Slots
  <2>3. a + i = WinSize * (0 - q) + x
    BY <1>0, <2>1, <2>2
  <2>4. Slot(a + i) = x
    <3> HIDE DEF i
    <3>1. (WinSize * (0 - q) + x) % WinSize = x
      BY <1>0, <2>1, ModUnique, 0 - q \in Int
    <3> QED BY <2>3, <3>1 DEF Slot
  <2> QED
    <3> HIDE DEF i
    <3> QED BY <2>1, <2>4
<1> QED BY <1>1, <1>2
-----------------------------------------------------------------------------
(* Loops *)

\* Induction up to a bound.
LEMMA Climb ==
  ASSUME NEW N \in Nat, NEW P, 0 \in P, \A n \in 0..N : n < N /\ n \in P => n + 1 \in P
  PROVE  \A n \in 0..N : n \in P
<1> DEFINE Bad == {n \in 0..N : n \notin P}
<1> SUFFICES ASSUME Bad # {} PROVE FALSE
  OBVIOUS
<1>1. PICK m \in Bad : \A x \in Bad : ~ (<<x, m>> \in OpToRel(<, Nat))
  <2>1. Bad \subseteq Nat
    OBVIOUS
  <2> HIDE DEF Bad
  <2> QED BY <2>1, NatLessThanWellFounded, WFMin
<1>2. m \in Nat /\ m # 0 /\ m - 1 \in 0..N /\ m - 1 < N /\ m \notin P
  OBVIOUS
<1>3. m - 1 \notin P
  BY <1>2
<1>4. m - 1 \in Bad
  BY <1>2, <1>3
<1>5. ~ (<<m - 1, m>> \in {r \in Nat \X Nat : r[1] < r[2]})
  BY <1>1, <1>4 DEF OpToRel
<1> QED
  BY <1>2, <1>5

\* What every turn hands on to the next holds after the last.
LEMMA Looped ==
  ASSUME NEW n \in Nat, NEW turn, NEW q, NEW P, q \in P[0],
         \A i \in 0..n : i < n => \A r \in P[i] : turn[i][r] \in P[i + 1]
  PROVE  Loop(turn, q, n) \in P[n]
<1> DEFINE Body(f, i) == IF i = 0 THEN q ELSE turn[i - 1][f[i - 1]]
           Def(f) == [i \in 0..n |-> Body(f, i)]
           after == CHOOSE f : f = Def(f)
           Upto(f, m) == f = [i \in 0..n |-> f[i]] /\ \A i \in 0..m : f[i] = Body(f, i)
           Sol == {m \in 0..n : \E f : Upto(f, m)}
<1>1. 0 \in Sol
  <2> DEFINE f == [i \in 0..n |-> q]
  <2>1. Upto(f, 0)
    OBVIOUS
  <2> HIDE DEF f, Upto
  <2> QED BY <2>1
<1>2. ASSUME NEW m \in 0..n, m < n, m \in Sol PROVE m + 1 \in Sol
  <2>1. PICK f : Upto(f, m)
    BY <1>2
  <2> DEFINE g == [i \in 0..n |-> IF i = m + 1 THEN turn[m][f[m]] ELSE f[i]]
  <2>2. g = [i \in 0..n |-> g[i]]
    OBVIOUS
  <2>3. \A i \in 0..m : g[i] = f[i]
    OBVIOUS
  <2>4. g[m + 1] = turn[m][f[m]]
    BY <1>2
  <2>5. ASSUME NEW i \in 0..m + 1 PROVE g[i] = Body(g, i)
    <3> HIDE DEF g
    <3>1. CASE i = m + 1
      BY <2>3, <2>4, <3>1
    <3>2. CASE i # m + 1
      <4>1. i \in 0..m /\ (i # 0 => i - 1 \in 0..m)
        BY <3>2
      <4> QED BY <2>1, <2>3, <4>1
    <3> QED BY <3>1, <3>2
  <2>6. Upto(g, m + 1)
    <3> HIDE DEF g, Body
    <3> QED BY <2>2, <2>5
  <2> HIDE DEF g, Upto
  <2> QED BY <1>2, <2>6
<1>3. \A m \in 0..n : m \in Sol
  <2> HIDE DEF Sol
  <2> QED BY <1>1, <1>2, Climb
<1>4. PICK f : Upto(f, n)
  BY <1>3
<1>5. f = Def(f)
  <2> HIDE DEF Body
  <2> QED BY <1>4
<1>6. after = Def(after)
  <2> HIDE DEF Def
  <2> QED BY <1>5
<1>7. Loop(turn, q, n) = after[n]
  BY DEF Loop
<1> HIDE DEF after
<1>8. \A m \in 0..n : m \in {i \in 0..n : after[i] \in P[i]}
  <2> DEFINE C == {i \in 0..n : after[i] \in P[i]}
  <2>1. 0 \in C
    BY <1>6
  <2>2. ASSUME NEW m \in 0..n, m < n, m \in C PROVE m + 1 \in C
    <3>1. m + 1 \in 0..n /\ m + 1 # 0 /\ (m + 1) - 1 = m
      BY <2>2
    <3>2. after[m + 1] = turn[m][after[m]]
      BY <1>6, <3>1
    <3> QED BY <2>2, <3>1, <3>2
  <2> HIDE DEF C
  <2>3. \A m \in 0..n : m \in C
    BY <2>1, <2>2, Climb
  <2> QED BY <2>3 DEF C
<1> QED BY <1>7, <1>8
-----------------------------------------------------------------------------
(* What is stored is counted *)

Used(t) == {i \in Slots : t.buf[i] # <<>>}
Counted(t) == t.num = Cardinality(Used(t)) + t.slip

LEMMA UsedFinite ==
  ASSUME NEW t
  PROVE  /\ IsFiniteSet(Used(t)) /\ Cardinality(Used(t)) \in Nat
         /\ Cardinality(Used(t)) <= WinSize
         /\ Cardinality(Used(t)) = 0 <=> Used(t) = {}
<1>1. IsFiniteSet(Slots) /\ Cardinality(Slots) = WinSize
  BY Sizes, FS_Interval DEF Slots
<1>2. Used(t) \subseteq Slots
  BY DEF Used
<1> QED BY <1>1, <1>2, FS_Subset, FS_CardinalityType, FS_EmptySet

\* A slot is emptied, and no longer counted or known to be wrong.
LEMMA CountDown ==
  ASSUME NEW t \in Buffer, Counted(t), NEW u \in Buffer, NEW i \in Slots, t.buf[i] # <<>>,
         u.buf = [t.buf EXCEPT ![i] = <<>>],
         \/ u.num = t.num - 1 /\ u.slip = t.slip
         \/ u.num = t.num /\ u.slip = t.slip + 1
  PROVE  Counted(u)
<1>1. Used(u) = Used(t) \ {i} /\ i \in Used(t)
  BY DEF Used, Buffer
<1>2. Cardinality(Used(u)) = Cardinality(Used(t)) - 1
  BY <1>1, UsedFinite, FS_RemoveElement
<1>3. Cardinality(Used(t)) \in Nat
  BY UsedFinite
<1> QED BY <1>2, <1>3 DEF Counted, Buffer

\* An empty slot is filled and counted.
LEMMA CountUp ==
  ASSUME NEW t \in Buffer, Counted(t), NEW u \in Buffer, NEW i \in Slots, t.buf[i] = <<>>,
         NEW l, l # <<>>, u.buf = [t.buf EXCEPT ![i] = l],
         u.num = t.num + 1, u.slip = t.slip
  PROVE  Counted(u)
<1>1. Used(u) = Used(t) \cup {i} /\ i \notin Used(t)
  BY DEF Used, Buffer
<1>2. Cardinality(Used(u)) = Cardinality(Used(t)) + 1
  BY <1>1, UsedFinite, FS_AddElement
<1>3. Cardinality(Used(t)) \in Nat
  BY UsedFinite
<1> QED BY <1>2, <1>3 DEF Counted, Buffer

LEMMA CountSame ==
  ASSUME NEW t \in Buffer, Counted(t), NEW u \in Buffer, Used(u) = Used(t),
         u.num = t.num, u.slip = t.slip
  PROVE  Counted(u)
  BY DEF Counted

\* The release loops may stop when nothing is counted.
LEMMA NoneCounted ==
  ASSUME NEW t \in Buffer, Counted(t), t.num = 0
  PROVE  \A i \in Slots : t.buf[i] = <<>>
<1>1. Cardinality(Used(t)) \in Nat /\ t.slip \in Nat
  BY UsedFinite DEF Buffer
<1>2. Cardinality(Used(t)) = 0
  BY <1>1 DEF Counted
<1>3. Used(t) = {}
  BY <1>2, UsedFinite
<1> QED BY <1>3 DEF Used
-----------------------------------------------------------------------------
(* What the operations keep *)

\* A reorderer whose timer is its own and whose frames are counted.
Sound(s) ==
  /\ s \in Reorderer /\ s.timer.due <= s.timer.pending
  /\ s.timer.pending = 1 => s.timer.ref = s.ref
  /\ s.tid # None => Counted(s.tid)
Live(s) == Sound(s) /\ s.tid # None

\* The session goes on; the timer may have been set again.
Same(s, r) ==
  /\ r.ref = s.ref /\ r.tid.ref = s.tid.ref
  /\ r.timer.ref \in {s.timer.ref, s.ref}
  /\ r.skew = s.skew

\* Somebody will look at the frames stored.
Asked(s) == s.timer.pending = 1 \/ s.todo.active = 1
NoFrames(s) == \A i \in Slots : s.tid.buf[i] = <<>>

LEMMA BufferIs == ASSUME NEW t \in Buffer PROVE t # None
<1>1. t.start \in Nat /\ None.start = -1
  BY DEF Buffer, None
<1> QED BY <1>1

LEMMA LiveBuffer == ASSUME NEW s, Live(s) PROVE s \in Reorderer /\ s.tid \in Buffer /\ Counted(s.tid)
  BY DEF Live, Sound, Reorderer

\* The timer is deleted, for whatever reason.
LEMMA DelTimerKeeps ==
  ASSUME NEW s, Sound(s)
  PROVE  LET r == DelTimer(s)
         IN  /\ Sound(r) /\ r.timer.ref = s.timer.ref /\ r.timer.pending = 0
             /\ r.tid = s.tid /\ r.ref = s.ref /\ r.todo = s.todo /\ r.out = s.out
             /\ r.skew = s.skew /\ r.gap = s.gap /\ r.timer.sn = s.timer.sn
<1> DEFINE r == DelTimer(s)
           timer == [s.timer EXCEPT !.pending = 0, !.due = 0]
<1>1. s \in Reorderer /\ s.timer \in Timer
  BY DEF Sound, Reorderer
<1>2. r = [s EXCEPT !.timer = timer]
  BY <1>1 DEF DelTimer, Reorderer
<1>3. timer \in Timer /\ timer.pending = 0 /\ timer.due = 0 /\ timer.ref = s.timer.ref
      /\ timer.sn = s.timer.sn
  <2>1. 0 \in 0..1
    OBVIOUS
  <2> QED BY <1>1, <2>1 DEF Timer
<1> HIDE DEF r, timer
<1>4. r \in Reorderer /\ r.timer = timer /\ r.tid = s.tid /\ r.ref = s.ref /\ r.todo = s.todo
      /\ r.out = s.out /\ r.skew = s.skew /\ r.gap = s.gap
  BY <1>1, <1>2, <1>3 DEF Reorderer
<1>5. Sound(r)
  BY <1>3, <1>4 DEF Sound
<1> QED BY <1>3, <1>4, <1>5 DEF r

LEMMA DelTimerIfKeeps ==
  ASSUME NEW s, Sound(s), NEW b \in BOOLEAN
  PROVE  LET r == DelTimerIf(s, b)
         IN  /\ Sound(r) /\ r.timer.ref = s.timer.ref /\ r.timer.sn = s.timer.sn
             /\ r.tid = s.tid /\ r.ref = s.ref /\ r.todo = s.todo /\ r.out = s.out
             /\ r.skew = s.skew /\ r.gap = s.gap
             /\ r = s \/ (b /\ r.timer.pending = 0)
  BY DelTimerKeeps DEF DelTimerIf

\* The timer is set, or the RX thread is asked.
LEMMA SetTimerIs ==
  ASSUME NEW s, Live(s), NEW sn \in Nat
  PROVE  LET r == SetReorderTimer(s, sn)
         IN  /\ r.timer \in Timer /\ r.todo \in Todo
             /\ r = [s EXCEPT !.timer = r.timer, !.todo = r.todo]
             /\ r \in Reorderer
             /\ \/ r.timer = s.timer
                \/ /\ s.timer.pending # 1 /\ s.ref = s.tid.ref /\ At(s, sn) # <<>>
                   /\ r.timer = [pending |-> 1, sn |-> sn, ref |-> s.ref, due |-> 0]
             /\ \/ r.todo = s.todo
                \/ /\ s.todo.active # 1 /\ At(s, sn) # <<>>
                   /\ r.todo = [active |-> 1, seq |-> sn]
             /\ At(s, sn) # <<>> /\ s.ref = s.tid.ref => Asked(r)
<1> DEFINE timer == [pending |-> 1, sn |-> sn, ref |-> s.tid.ref, due |-> 0]
           todo == [active |-> 1, seq |-> sn]
           set == [s EXCEPT !.timer = timer]
           ask == [s EXCEPT !.todo = todo]
           r == SetReorderTimer(s, sn)
           still == s.timer.pending = 1 \/ s.ref # s.tid.ref \/ At(s, sn) = <<>>
<1>0. s \in Reorderer /\ s.tid \in Buffer /\ s.timer \in Timer /\ s.todo \in Todo
  BY LiveBuffer DEF Reorderer
<1>1. timer \in Timer /\ timer.pending = 1 /\ todo \in Todo /\ todo.active = 1
  BY <1>0 DEF Buffer, Timer, Todo
<1>2. /\ still => r = s
      /\ ~still => r = set \/ (s.todo.active = 1 /\ r = s) \/ (s.todo.active # 1 /\ r = ask)
  <2> HIDE DEF timer, todo, set, ask
  <2>1. r = IF still THEN s
            ELSE IF ~Overdue(At(s, sn)) THEN set
            ELSE IF s.todo.active = 1 THEN s ELSE ask
    BY DEF SetReorderTimer, timer, todo, set, ask
  <2> HIDE DEF still, r
  <2> QED BY <2>1
<1> HIDE DEF r, timer, todo
<1>3. /\ set \in Reorderer /\ set.timer = timer /\ set.todo = s.todo
      /\ set = [s EXCEPT !.timer = timer, !.todo = s.todo]
      /\ ask \in Reorderer /\ ask.timer = s.timer /\ ask.todo = todo
      /\ ask = [s EXCEPT !.timer = s.timer, !.todo = todo]
      /\ s = [s EXCEPT !.timer = s.timer, !.todo = s.todo]
  BY <1>0, <1>1 DEF Reorderer
<1> HIDE DEF set, ask
<1>4. CASE r = s
  <2>1. At(s, sn) # <<>> /\ s.ref = s.tid.ref => Asked(r)
    <3>1. At(s, sn) # <<>> /\ s.ref = s.tid.ref => s.timer.pending = 1 \/ ~still
      OBVIOUS
    <3>2. ~still => s.todo.active = 1 \/ r = set \/ r = ask
      BY <1>2, <1>4
    <3>3. r = set \/ r = ask => Asked(r)
      BY <1>1, <1>3 DEF Asked
    <3> HIDE DEF still
    <3> QED BY <1>4, <3>1, <3>2, <3>3 DEF Asked
  <2> QED BY <1>0, <1>3, <1>4, <2>1 DEF r
<1>5. CASE r = set /\ ~still
  BY <1>0, <1>1, <1>3, <1>5 DEF Asked, r, timer
<1>6. CASE r = ask /\ ~still /\ s.todo.active # 1
  BY <1>0, <1>1, <1>3, <1>6 DEF Asked, r, todo
<1> QED BY <1>2, <1>4, <1>5, <1>6

LEMMA SetTimerKeeps ==
  ASSUME NEW s, Live(s), NEW sn \in Nat
  PROVE  LET r == SetReorderTimer(s, sn)
         IN  /\ Live(r) /\ Same(s, r)
             /\ r.tid = s.tid /\ r.out = s.out /\ r.skew = s.skew /\ r.gap = s.gap
             /\ Asked(s) => Asked(r)
             /\ At(s, sn) # <<>> /\ s.ref = s.tid.ref => Asked(r)
<1> DEFINE r == SetReorderTimer(s, sn)
<1>1. s \in Reorderer /\ s.timer \in Timer /\ s.todo \in Todo
  BY LiveBuffer DEF Reorderer
<1>2. /\ r.timer \in Timer /\ r.todo \in Todo
      /\ r = [s EXCEPT !.timer = r.timer, !.todo = r.todo] /\ r \in Reorderer
      /\ r.timer = s.timer \/ (s.timer.pending # 1 /\ s.ref = s.tid.ref
              /\ r.timer = [pending |-> 1, sn |-> sn, ref |-> s.ref, due |-> 0])
      /\ r.todo = s.todo \/ r.todo = [active |-> 1, seq |-> sn]
      /\ At(s, sn) # <<>> /\ s.ref = s.tid.ref => Asked(r)
  BY SetTimerIs
<1> HIDE DEF r
<1>3. r.tid = s.tid /\ r.ref = s.ref /\ r.out = s.out /\ r.skew = s.skew /\ r.gap = s.gap
  BY <1>1, <1>2 DEF Reorderer
<1>4. Live(r)
  BY <1>1, <1>2, <1>3 DEF Live, Sound
<1>5. Same(s, r)
  BY <1>2, <1>3 DEF Same
<1>6. Asked(s) => Asked(r)
  BY <1>2 DEF Asked
<1> QED BY <1>2, <1>3, <1>4, <1>5, <1>6 DEF r
-----------------------------------------------------------------------------
(* The release loops *)

\* A reorderer with another buffer and other frames on their way up.
With(s, u, o) == [s EXCEPT !.tid = u, !.out = o]

LEMMA WithIs ==
  ASSUME NEW s \in Reorderer, NEW u \in Buffer, NEW o \in Seq(Frame)
  PROVE  LET r == With(s, u, o)
         IN  /\ r \in Reorderer /\ r.tid = u /\ r.out = o
             /\ r.ref = s.ref /\ r.timer = s.timer /\ r.todo = s.todo
             /\ r.skew = s.skew /\ r.gap = s.gap
             /\ (Live(s) /\ Counted(u) => Live(r))
             /\ (Live(s) /\ u.ref = s.tid.ref => Same(s, r))
             /\ \A v \in Buffer, p \in Seq(Frame) : With(r, v, p) = With(s, v, p)
<1> DEFINE r == With(s, u, o)
<1>1. /\ r \in Reorderer /\ r.tid = u /\ r.out = o
      /\ r.ref = s.ref /\ r.timer = s.timer /\ r.todo = s.todo
      /\ r.skew = s.skew /\ r.gap = s.gap
      /\ \A v \in Buffer, p \in Seq(Frame) : With(r, v, p) = With(s, v, p)
  BY DEF With, Reorderer
<1> HIDE DEF r
<1>2. u # None
  BY BufferIs
<1>3. Live(s) /\ Counted(u) => Live(r)
  BY <1>1, <1>2 DEF Live, Sound
<1>4. Live(s) /\ u.ref = s.tid.ref => Same(s, r)
  BY <1>1 DEF Same
<1> QED BY <1>1, <1>3, <1>4 DEF r

\* What is left of a buffer when slot k is emptied.
Less1(t, k) == [t.buf EXCEPT ![k] = <<>>]

Cut(t, k, n, a, d) == [t EXCEPT !.buf = Less1(t, k), !.num = n, !.start = a, !.slip = d]
IsCut(u, t, k, n, a, d) ==
  /\ u \in Buffer /\ u.ref = t.ref /\ u.buf = Less1(t, k)
  /\ u.num = n /\ u.start = a /\ u.slip = d

LEMMA EmptiedBuffer ==
  ASSUME NEW t \in Buffer, NEW k \in Slots, NEW n \in Int, NEW a \in Nat, NEW d \in Nat
  PROVE  IsCut(Cut(t, k, n, a, d), t, k, n, a, d)
<1>1. <<>> \in Seq(Frame)
  OBVIOUS
<1>2. Less1(t, k) \in [Slots -> Seq(Frame)]
  BY <1>1 DEF Less1, Buffer
<1> QED BY <1>2 DEF Buffer, Cut, IsCut

\* One slot is freed: its frames go up, or are purged, and are no longer counted.
LEMMA FreeSlotIs ==
  ASSUME NEW s, Live(s)
  PROVE  \E u \in Buffer, o \in Seq(Frame) :
           /\ FreeSlot(s) = With(s, u, o) /\ Counted(u)
           /\ u.start = Next12(s.tid.start) /\ u.ref = s.tid.ref /\ u.slip = s.tid.slip
           /\ u.buf = Less1(s.tid, Slot(s.tid.start))
           /\ o = s.out \/ o = s.out \o At(s, s.tid.start)
<1> DEFINE t == s.tid
           k == Slot(s.tid.start)
           list == At(s, s.tid.start)
           up == IF IsTainted(list) THEN <<>> ELSE list
<1>0. s \in Reorderer /\ t \in Buffer /\ Counted(t) /\ t.start \in Nat
  BY LiveBuffer DEF Buffer
<1>1. k \in Slots /\ list = t.buf[k] /\ list \in Seq(Frame) /\ s.out \in Seq(Frame)
  <2>1. k \in Slots
    BY <1>0, SlotType
  <2>2. t.buf \in [Slots -> Seq(Frame)]
    BY <1>0 DEF Buffer
  <2>3. s.out \in Seq(Frame)
    BY <1>0 DEF Reorderer
  <2>4. list = t.buf[k]
    BY DEF At
  <2> HIDE DEF k, list
  <2> QED BY <2>1, <2>2, <2>3, <2>4
<1>2. Next12(t.start) \in Nat /\ t.num \in Int /\ t.slip \in Nat
  <2>1. Next12(t.start) \in 0..SnMod - 1
    BY <1>0, Next12Type
  <2> QED BY <1>0, <2>1, Sizes DEF Buffer
<1>5. \A n \in Int : IsCut(Cut(t, k, n, Next12(t.start), t.slip), t, k, n, Next12(t.start), t.slip)
  BY <1>0, <1>1, <1>2, EmptiedBuffer
<1>3. CASE list = <<>>
  <2> DEFINE u == Cut(t, k, t.num, Next12(t.start), t.slip)
  <2>1. u \in Buffer /\ u.buf = Less1(t, k) /\ u.num = t.num /\ u.start = Next12(t.start)
        /\ u.slip = t.slip /\ u.ref = t.ref
    <3>1. t.num \in Int /\ t.num - 1 \in Int
      BY <1>2
    <3> HIDE DEF k, t
    <3>2. IsCut(u, t, k, t.num, Next12(t.start), t.slip)
      BY <1>5, <3>1
    <3> QED BY <3>2 DEF IsCut
  <2>2. Less1(t, k) = t.buf
    BY <1>0, <1>1, <1>3 DEF Less1, Buffer
  <2>3. FreeSlot(s) = With(s, u, s.out)
    <3>1. FreeSlot(s) = [s EXCEPT !.tid.start = Next12(t.start)]
      BY <1>3 DEF FreeSlot, Advance
    <3>2. u = [t EXCEPT !.start = Next12(t.start)]
      BY <1>0, <2>2 DEF Buffer, Cut
    <3> HIDE DEF u, k
    <3> QED BY <1>0, <3>1, <3>2 DEF With, Reorderer
  <2>4. Counted(u)
    BY <1>0, <2>1, <2>2, CountSame DEF Used
  <2> QED
    <3> HIDE DEF u, k
    <3> QED BY <1>1, <2>1, <2>3, <2>4 DEF k
<1>4. CASE list # <<>>
  <2> DEFINE u == Cut(t, k, t.num - 1, Next12(t.start), t.slip)
             o == s.out \o up
  <2>1. u \in Buffer /\ u.buf = Less1(t, k) /\ u.num = t.num - 1 /\ u.start = Next12(t.start)
        /\ u.slip = t.slip /\ u.ref = t.ref
    <3>1. t.num \in Int /\ t.num - 1 \in Int
      BY <1>2
    <3> HIDE DEF k, t
    <3>2. IsCut(u, t, k, t.num - 1, Next12(t.start), t.slip)
      BY <1>5, <3>1
    <3> QED BY <3>2 DEF IsCut
  <2>2. up \in Seq(Frame) /\ o \in Seq(Frame) /\ (o = s.out \/ o = s.out \o list)
    <3>1. s.out \o <<>> = s.out
      BY <1>1
    <3>2. <<>> \in Seq(Frame)
      OBVIOUS
    <3>3. up = <<>> \/ up = list
      OBVIOUS
    <3> HIDE DEF list, up
    <3>4. CASE up = <<>>
      BY <1>1, <3>1, <3>2, <3>4
    <3>5. CASE up = list
      BY <1>1, <3>5
    <3> QED BY <3>3, <3>4, <3>5
  <2>3. FreeSlot(s) = With(s, u, o)
    <3> HIDE DEF up
    <3>1. FreeSlot(s) = Advance(Count(Emptied(Delivered(s, up), t.start), -1))
      BY <1>4 DEF FreeSlot, up
    <3>2. Emptied(Delivered(s, up), t.start) = With(s, [t EXCEPT !.buf = Less1(t, k)], o)
      BY <1>0, <1>1 DEF Emptied, Delivered, With, Less1, Reorderer, Buffer
    <3>3. Count(With(s, [t EXCEPT !.buf = Less1(t, k)], o), -1)
            = With(s, [t EXCEPT !.buf = Less1(t, k), !.num = t.num - 1], o)
      BY <1>0, <1>2 DEF Count, With, Reorderer, Buffer
    <3>4. Advance(With(s, [t EXCEPT !.buf = Less1(t, k), !.num = t.num - 1], o))
            = With(s, [t EXCEPT !.buf = Less1(t, k), !.num = t.num - 1,
                                !.start = Next12(t.start)], o)
      BY <1>0, <1>2 DEF Advance, With, Reorderer, Buffer
    <3>5. [t EXCEPT !.buf = Less1(t, k), !.num = t.num - 1, !.start = Next12(t.start)] = u
      BY <1>0 DEF Buffer, Cut
    <3> QED BY <3>1, <3>2, <3>3, <3>4, <3>5
  <2>4. Counted(u)
    <3> HIDE DEF u
    <3> QED BY <1>0, <1>1, <1>4, <2>1, CountDown DEF Less1
  <2> QED
    <3> HIDE DEF u, o, k, up
    <3> QED BY <1>1, <2>1, <2>2, <2>3, <2>4 DEF k
<1> QED BY <1>3, <1>4

\* r is what is left of s when some of its slots were freed.
Freed(s, r) ==
  /\ Live(r) /\ r.ref = s.ref /\ r.tid.ref = s.tid.ref
  /\ r.timer = s.timer /\ r.todo = s.todo /\ r.skew = s.skew /\ r.gap = s.gap
  /\ r.tid.slip = s.tid.slip
  /\ \A i \in Slots : r.tid.buf[i] \in {s.tid.buf[i], <<>>}

LEMMA FreedMore ==
  ASSUME NEW s, NEW r, NEW v, Freed(s, r), Freed(r, v)
  PROVE  Freed(s, v)
  BY DEF Freed

LEMMA FreeSlotFreed ==
  ASSUME NEW s, Live(s)
  PROVE  /\ Freed(s, FreeSlot(s)) /\ FreeSlot(s).tid.start = Next12(s.tid.start)
         /\ FreeSlot(s).tid.buf[Slot(s.tid.start)] = <<>>
<1>1. PICK u \in Buffer, o \in Seq(Frame) :
        /\ FreeSlot(s) = With(s, u, o) /\ Counted(u)
        /\ u.start = Next12(s.tid.start) /\ u.ref = s.tid.ref /\ u.slip = s.tid.slip
        /\ u.buf = Less1(s.tid, Slot(s.tid.start))
  BY FreeSlotIs
<1>2. s \in Reorderer /\ s.tid \in Buffer
  BY LiveBuffer
<1> DEFINE r == With(s, u, o)
<1>3. /\ r \in Reorderer /\ r.tid = u /\ r.out = o
      /\ r.ref = s.ref /\ r.timer = s.timer /\ r.todo = s.todo
      /\ r.skew = s.skew /\ r.gap = s.gap /\ Live(r)
  BY <1>1, <1>2, WithIs
<1> HIDE DEF r
<1>4. Slot(s.tid.start) \in Slots /\ s.tid.buf \in [Slots -> Seq(Frame)]
  <2>1. s.tid.start \in Int /\ s.tid.buf \in [Slots -> Seq(Frame)]
    BY <1>2 DEF Buffer
  <2> QED BY <2>1, SlotType
<1>5. /\ \A i \in Slots : r.tid.buf[i] \in {s.tid.buf[i], <<>>}
      /\ r.tid.buf[Slot(s.tid.start)] = <<>>
  BY <1>1, <1>3, <1>4 DEF Less1
<1>6. Freed(s, r)
  BY <1>1, <1>3, <1>5 DEF Freed
<1>7. FreeSlot(s) = r
  BY <1>1 DEF r
<1> QED BY <1>1, <1>3, <1>5, <1>6, <1>7

\* skw_reorder_force_release frees slots of the buffer and, if the buffer is that
\* of the session, may delete its timer.  It frees all slots up to the number it is
\* given when that is in the window.
ForceReleased(s, r, to) ==
  /\ Live(r) /\ r.ref = s.ref /\ r.tid.ref = s.tid.ref /\ r.todo = s.todo
  /\ r.timer.ref = s.timer.ref /\ r.skew = s.skew
  /\ r.timer = s.timer \/ s.ref = s.tid.ref
  /\ \A i \in Slots : r.tid.buf[i] \in {s.tid.buf[i], <<>>}
  /\ Left(s.tid.start, to) \in 1..WinSize =>
       \/ r.tid.num = 0
       \/ Left(r.tid.start, to) = 0 /\ r.tid.buf[Slot(to)] = <<>>

LEMMA ForceReleaseIs ==
  ASSUME NEW s, Live(s), NEW to \in Nat
  PROVE  ForceReleased(s, ForceRelease(s, to), to)
<1> DEFINE cond == s.ref = s.tid.ref /\ (Less(s.timer.sn, to) \/ Less(to, s.tid.start))
           t == DelTimerIf(s, cond)
           N == SnMod \div 2
           L == Left(s.tid.start, to)
           \* what the turns keep
           Walk(m) == {q \in Turn :
              /\ Freed(t, q.s)
              /\ q.stop => q.s.tid.num = 0
              /\ L \in 1..WinSize /\ ~q.stop =>
                   /\ Left(q.s.tid.start, to) = IF m <= L THEN L - m ELSE 0
                   /\ Left(q.s.tid.start, to) = 0 => q.s.tid.buf[Slot(to)] = <<>>}
           P == [m \in 0..N |-> Walk(m)]
           q0 == [s |-> t, go |-> TRUE, stop |-> FALSE]
<1>0. SnMod \in Nat /\ WinSize \in Nat /\ WinSize > 0 /\ 4 * WinSize <= SnMod /\ N \in Nat
      /\ WinSize <= N
  BY Sizes
<1>1. /\ Sound(t) /\ t.timer.ref = s.timer.ref /\ t.tid = s.tid /\ t.ref = s.ref
      /\ t.todo = s.todo /\ t.skew = s.skew /\ t.gap = s.gap
      /\ t = s \/ s.ref = s.tid.ref
  <2>1. cond \in BOOLEAN /\ Sound(s)
    BY DEF Live, Less
  <2> QED BY <2>1, DelTimerIfKeeps
<1>2. Live(t) /\ t \in Reorderer /\ t.tid \in Buffer /\ s.tid \in Buffer
  BY <1>1, LiveBuffer DEF Live
<1> HIDE DEF t, cond
<1>3. L \in 0..SnMod - 1
  <2>1. s.tid.start \in Int /\ to \in Int
    BY <1>2 DEF Buffer
  <2> QED BY <2>1, LeftType
<1>4. q0 \in P[0]
  <2>1. q0 \in Turn
    BY <1>2 DEF Turn
  <2>2. Freed(t, t)
    BY <1>2 DEF Freed
  <2>3. 0 \in 0..N
    BY <1>0
  <2> HIDE DEF L, N
  <2> QED BY <1>1, <1>3, <2>1, <2>2, <2>3 DEF L
<1>5. ASSUME NEW m \in 0..N, m < N, NEW q \in P[m] PROVE FreeTurn(to)[m][q] \in P[m + 1]
  <2> DEFINE r == FreeTurn(to)[m][q]
  <2>0. m + 1 \in 0..N /\ m \in Nat
    BY <1>0, <1>5
  <2>1. q \in Walk(m) /\ q \in Turn
    BY <1>5
  <2>2. r = IF q.stop \/ ~Less(q.s.tid.start, Next12(to)) THEN q
            ELSE IF q.s.tid.num = 0 THEN [q EXCEPT !.s.tid.start = to, !.stop = TRUE]
            ELSE [q EXCEPT !.s = FreeSlot(q.s)]
    BY <2>0, <2>1 DEF FreeTurn
  <2>3. Live(q.s) /\ q.s \in Reorderer /\ q.s.tid \in Buffer /\ q.s.tid.start \in Nat
    <3>1. Live(q.s)
      BY <2>1 DEF Freed
    <3> QED BY <3>1, LiveBuffer DEF Buffer
  <2>4. L \in 1..WinSize /\ ~q.stop =>
          /\ Left(q.s.tid.start, to) \in 0..WinSize
          /\ Less(q.s.tid.start, Next12(to)) <=> Left(q.s.tid.start, to) # 0
    <3> SUFFICES ASSUME L \in 1..WinSize, ~q.stop
                 PROVE  /\ Left(q.s.tid.start, to) \in 0..WinSize
                        /\ Less(q.s.tid.start, Next12(to)) <=> Left(q.s.tid.start, to) # 0
      OBVIOUS
    <3>1. Left(q.s.tid.start, to) = IF m <= L THEN L - m ELSE 0
      BY <2>1
    <3> HIDE DEF L
    <3>2. Left(q.s.tid.start, to) \in 0..WinSize
      BY <1>0, <2>0, <3>1
    <3> QED BY <2>3, <3>2, LessIsLeft
  <2> HIDE DEF L, N, r
  <2> SUFFICES r \in Walk(m + 1)
    BY <2>0 DEF r
  <2>5. CASE q.stop \/ ~Less(q.s.tid.start, Next12(to))
    <3>1. r = q
      BY <2>2, <2>5
    <3>2. L \in 1..WinSize /\ ~q.stop => L <= m
      BY <1>0, <2>0, <2>1, <2>4, <2>5
    <3> QED BY <2>0, <2>1, <3>1, <3>2
  <2>6. CASE ~q.stop /\ Less(q.s.tid.start, Next12(to)) /\ q.s.tid.num = 0
    <3> DEFINE u == [q.s.tid EXCEPT !.start = to]
               v == With(q.s, u, q.s.out)
    <3>1. r = [q EXCEPT !.s = v, !.stop = TRUE]
      <4>1. r = [q EXCEPT !.s.tid.start = to, !.stop = TRUE]
        BY <2>2, <2>6
      <4>2. [q.s EXCEPT !.tid.start = to] = v
        BY <2>3 DEF With, Reorderer
      <4> HIDE DEF v
      <4> QED BY <2>1, <4>1, <4>2 DEF Turn
    <3>2. u \in Buffer /\ u.num = 0 /\ u.ref = q.s.tid.ref /\ u.buf = q.s.tid.buf
          /\ u.slip = q.s.tid.slip
      BY <2>3, <2>6 DEF Buffer
    <3>3. Counted(u)
      <4>1. Counted(q.s.tid)
        BY <2>3, LiveBuffer
      <4> HIDE DEF u
      <4> QED BY <2>3, <2>6, <3>2, <4>1, CountSame DEF Used
    <3> HIDE DEF u
    <3>4. /\ v \in Reorderer /\ v.tid = u
          /\ v.ref = q.s.ref /\ v.timer = q.s.timer /\ v.todo = q.s.todo
          /\ v.skew = q.s.skew /\ v.gap = q.s.gap /\ Live(v)
      <4>1. q.s.out \in Seq(Frame)
        BY <2>3 DEF Reorderer
      <4> QED BY <2>3, <3>2, <3>3, <4>1, WithIs
    <3> HIDE DEF v
    <3>5. Freed(q.s, v)
      BY <3>2, <3>4 DEF Freed
    <3>6. Freed(t, v)
      BY <2>1, <3>5, FreedMore
    <3>7. r \in Turn /\ r.s = v /\ r.stop = TRUE
      BY <2>1, <3>1, <3>4 DEF Turn
    <3> QED BY <3>2, <3>4, <3>6, <3>7
  <2>7. CASE ~q.stop /\ Less(q.s.tid.start, Next12(to)) /\ q.s.tid.num # 0
    <3> DEFINE v == FreeSlot(q.s)
    <3>1. r = [q EXCEPT !.s = v]
      BY <2>2, <2>7
    <3>2. /\ Freed(q.s, v) /\ v.tid.start = Next12(q.s.tid.start)
          /\ v.tid.buf[Slot(q.s.tid.start)] = <<>>
      BY <2>3, FreeSlotFreed
    <3> HIDE DEF v
    <3>3. v \in Reorderer
      BY <3>2, LiveBuffer DEF Freed
    <3>4. r \in Turn /\ r.s = v /\ r.stop = q.stop
      BY <2>1, <3>1, <3>3 DEF Turn
    <3>5. Freed(t, v)
      BY <2>1, <3>2, FreedMore
    <3>6. ASSUME L \in 1..WinSize
          PROVE  /\ Left(v.tid.start, to) = IF m + 1 <= L THEN L - (m + 1) ELSE 0
                 /\ Left(v.tid.start, to) = 0 => v.tid.buf[Slot(to)] = <<>>
      <4>1. Left(q.s.tid.start, to) # 0 /\ Left(q.s.tid.start, to) = IF m <= L THEN L - m ELSE 0
        BY <2>1, <2>4, <2>7, <3>6
      <4>2. Left(v.tid.start, to) = Left(q.s.tid.start, to) - 1
        BY <2>3, <3>2, <4>1, LeftNext
      <4>3. Left(q.s.tid.start, to) = L - m /\ m < L
        BY <1>0, <2>0, <3>6, <4>1
      <4>4. Left(v.tid.start, to) = 0 => v.tid.buf[Slot(to)] = <<>>
        <5> SUFFICES ASSUME Left(v.tid.start, to) = 0 PROVE v.tid.buf[Slot(to)] = <<>>
          OBVIOUS
        <5>1. Left(q.s.tid.start, to) = 1
          BY <1>0, <2>0, <3>6, <4>2, <4>3
        <5>2. Slot(q.s.tid.start) = Slot(to)
          BY <2>3, <5>1, LeftOne
        <5> QED BY <3>2, <5>2
      <4> QED BY <1>0, <2>0, <3>6, <4>2, <4>3, <4>4
    <3> QED BY <2>7, <3>4, <3>5, <3>6
  <2> QED BY <2>5, <2>6, <2>7
<1> DEFINE e == Loop(FreeTurn(to), q0, N)
<1>6. e \in P[N]
  <2> HIDE DEF P, q0, N
  <2> QED BY <1>0, <1>4, <1>5, Looped
<1>7. ForceRelease(s, to) = e.s
  BY DEF ForceRelease, t, cond
<1>8. e \in Walk(N)
  BY <1>0, <1>6
<1> HIDE DEF e, N, P, q0
<1>9. Freed(t, e.s) /\ (e.stop => e.s.tid.num = 0)
  BY <1>8
<1>10. L \in 1..WinSize => \/ e.s.tid.num = 0
                           \/ Left(e.s.tid.start, to) = 0 /\ e.s.tid.buf[Slot(to)] = <<>>
  <2> SUFFICES ASSUME L \in 1..WinSize, ~e.stop
               PROVE  Left(e.s.tid.start, to) = 0 /\ e.s.tid.buf[Slot(to)] = <<>>
    BY <1>9
  <2>1. /\ Left(e.s.tid.start, to) = IF N <= L THEN L - N ELSE 0
        /\ Left(e.s.tid.start, to) = 0 => e.s.tid.buf[Slot(to)] = <<>>
    BY <1>8
  <2> HIDE DEF L
  <2> QED BY <1>0, <2>1
<1> HIDE DEF L
<1> QED BY <1>1, <1>7, <1>9, <1>10 DEF ForceReleased, Freed, L

\* A slot is emptied; its frames may go up, the window may move on.
LEMMA CutCounted ==
  ASSUME NEW t \in Buffer, Counted(t), NEW k \in Slots, t.buf[k] # <<>>, NEW a \in Nat,
         NEW n \in Int, NEW d \in Nat, (n = t.num - 1 /\ d = t.slip) \/ (n = t.num /\ d = t.slip + 1)
  PROVE  /\ IsCut(Cut(t, k, n, a, d), t, k, n, a, d)
         /\ Counted(Cut(t, k, n, a, d))
<1> DEFINE u == Cut(t, k, n, a, d)
<1>1. IsCut(u, t, k, n, a, d)
  BY EmptiedBuffer
<1> HIDE DEF u
<1>2. u \in Buffer /\ u.buf = [t.buf EXCEPT ![k] = <<>>] /\ u.num = n /\ u.slip = d
  BY <1>1 DEF IsCut, Less1
<1>3. Counted(u)
  BY <1>2, CountDown
<1> QED BY <1>1, <1>3 DEF u

LEMMA GapKeeps ==
  ASSUME NEW s, Live(s), NEW g \in 0..1
  PROVE  LET r == [s EXCEPT !.gap = g]
         IN  /\ Live(r) /\ r.tid = s.tid /\ r.ref = s.ref /\ r.timer = s.timer
             /\ r.todo = s.todo /\ r.out = s.out /\ r.skew = s.skew
<1> DEFINE r == [s EXCEPT !.gap = g]
<1>1. s \in Reorderer
  BY LiveBuffer
<1>2. r \in Reorderer /\ r.tid = s.tid /\ r.ref = s.ref /\ r.timer = s.timer
      /\ r.todo = s.todo /\ r.out = s.out
  BY <1>1 DEF Reorderer
<1> HIDE DEF r
<1>3. Live(r)
  BY <1>2 DEF Live, Sound
<1> QED BY <1>2, <1>3 DEF r

\* The timer of the window start is deleted.
Untimed(s) == DelTimerIf(s, s.timer.sn = s.tid.start)

\* The frame of the window start is released, purged or waited for.
LEMMA InOrderIs ==
  ASSUME NEW q \in Turn, Live(q.s), q.s.ref = q.s.tid.ref, NEW sn \in Nat, At(q.s, sn) # <<>>,
         q.go = TRUE, q.stop = FALSE
  PROVE  LET r == InOrder(q, sn)
         IN  /\ r \in Turn /\ Live(r.s) /\ r.s.ref = q.s.ref /\ r.s.tid.ref = q.s.ref
             /\ r.s.timer.ref \in {q.s.timer.ref, q.s.ref} /\ r.s.skew = q.s.skew
             /\ r.stop => Asked(r.s) /\ r.s = SetReorderTimer(Untimed(q.s), sn)
             /\ ~r.stop => /\ r.s.tid.buf = Less1(q.s.tid, Slot(sn))
                           /\ r.s.timer = Untimed(q.s).timer /\ r.s.todo = q.s.todo
                           /\ r.go => /\ r.s.tid.start = Next12(q.s.tid.start)
                                      /\ r.s.tid.slip = q.s.tid.slip
                                      /\ r.s.out = q.s.out \o At(q.s, sn)
                           /\ ~r.go => /\ r.s.tid.start = q.s.tid.start
                                       /\ r.s.tid.slip = q.s.tid.slip + 1
                                       /\ r.s.out = q.s.out
<1> DEFINE b == q.s.tid
           list == At(q.s, sn)
           k == Slot(sn)
           t == Untimed(q.s)
           gap == IF Sn(Head(list)) = t.tid.start THEN t.gap ELSE 1
           purged == [Emptied(t, sn) EXCEPT !.tid.slip = @ + 1]
           released == [Count(Advance(Emptied(Delivered(t, list), sn)), -1) EXCEPT !.gap = gap]
           timed == SetReorderTimer(t, sn)
           r == InOrder(q, sn)
<1>1. /\ q.s \in Reorderer /\ b \in Buffer /\ Counted(b) /\ b.start \in Nat /\ b.num \in Int
      /\ b.slip \in Nat /\ k \in Slots /\ list = b.buf[k] /\ list \in Seq(Frame)
  <2>1. q.s \in Reorderer /\ b \in Buffer /\ Counted(b)
    BY LiveBuffer
  <2>2. k \in Slots /\ list = b.buf[k]
    BY SlotType DEF At
  <2> HIDE DEF k, list
  <2> QED BY <2>1, <2>2 DEF Buffer
<1>2. /\ Live(t) /\ t.tid = b /\ t.ref = q.s.ref /\ t.timer.ref = q.s.timer.ref
      /\ t.skew = q.s.skew /\ t \in Reorderer /\ t.gap \in 0..1 /\ t.out \in Seq(Frame)
      /\ t.out = q.s.out /\ t.todo = q.s.todo
  <2>1. Sound(q.s) /\ (q.s.timer.sn = b.start) \in BOOLEAN
    BY DEF Live
  <2>2. Sound(t) /\ t.tid = b /\ t.ref = q.s.ref /\ t.timer.ref = q.s.timer.ref
        /\ t.skew = q.s.skew /\ t.out = q.s.out /\ t.todo = q.s.todo
    BY <2>1, DelTimerIfKeeps DEF Untimed
  <2> HIDE DEF t
  <2>3. Live(t) /\ t \in Reorderer
    BY <1>1, <2>2 DEF Live, Sound
  <2> QED BY <2>2, <2>3 DEF Reorderer
<1>3. \/ r = [q EXCEPT !.s = purged, !.go = FALSE]
      \/ r = [q EXCEPT !.s = released]
      \/ r = [q EXCEPT !.s = timed, !.stop = TRUE]
  <2>1. purged = [Emptied(t, sn) EXCEPT !.tid.slip = Emptied(t, sn).tid.slip + 1]
    OBVIOUS
  <2>2. released = [Count(Advance(Emptied(Delivered(t, list), sn)), -1)
                      EXCEPT !.gap = IF Sn(Head(list)) = t.tid.start THEN @ ELSE 1]
    <3>1. Count(Advance(Emptied(Delivered(t, list), sn)), -1).gap = t.gap
      BY <1>2 DEF Count, Advance, Emptied, Delivered, Reorderer
    <3> QED BY <3>1
  <2>3. r = IF IsTainted(list) THEN [q EXCEPT !.s = purged, !.go = FALSE]
            ELSE IF ReleaseReady(list) \/ TimedOut(list) THEN [q EXCEPT !.s = released]
            ELSE [q EXCEPT !.s = timed, !.stop = TRUE]
    <3> HIDE DEF released
    <3> QED BY <2>2 DEF InOrder, Untimed
  <2> HIDE DEF r, purged, released, timed, list
  <2> QED BY <2>3
<1> HIDE DEF r, t
<1>4. CASE r = [q EXCEPT !.s = purged, !.go = FALSE]
  <2> DEFINE u == Cut(b, k, b.num, b.start, b.slip + 1)
             v == With(t, u, t.out)
  <2>1. IsCut(u, b, k, b.num, b.start, b.slip + 1) /\ Counted(u)
    <3>1. b.buf[k] # <<>> /\ b.slip + 1 \in Nat
      BY <1>1
    <3> HIDE DEF b, k
    <3> QED BY <1>1, <3>1, CutCounted
  <2>2. purged = v
    <3>1. Emptied(t, sn) = With(t, [b EXCEPT !.buf = Less1(b, k)], t.out)
      BY <1>1, <1>2 DEF Emptied, With, Less1, Reorderer, Buffer
    <3>2. [With(t, [b EXCEPT !.buf = Less1(b, k)], t.out) EXCEPT !.tid.slip = @ + 1]
            = With(t, [b EXCEPT !.buf = Less1(b, k), !.slip = b.slip + 1], t.out)
      BY <1>1, <1>2 DEF With, Reorderer, Buffer
    <3>3. [b EXCEPT !.buf = Less1(b, k), !.slip = b.slip + 1] = u
      BY <1>1 DEF Cut, Buffer
    <3> QED BY <3>1, <3>2, <3>3
  <2> HIDE DEF u
  <2>3. Live(v) /\ v.tid = u /\ v.ref = t.ref /\ v.timer = t.timer /\ v.skew = t.skew
        /\ v.out = t.out /\ v.todo = t.todo
    BY <1>2, <2>1, WithIs DEF IsCut
  <2> HIDE DEF v, purged
  <2>4. v \in Reorderer
    BY <2>3, LiveBuffer
  <2>5. r \in Turn /\ r.s = v /\ r.go = FALSE /\ r.stop = FALSE
    BY <1>4, <2>2, <2>4 DEF Turn
  <2> HIDE DEF k
  <2> QED BY <1>2, <2>1, <2>3, <2>5 DEF IsCut, r, k, t
<1>5. CASE r = [q EXCEPT !.s = released]
  <2> DEFINE u == Cut(b, k, b.num - 1, Next12(b.start), b.slip)
             o == t.out \o list
             v == With(t, u, o)
             w == [v EXCEPT !.gap = gap]
  <2>0. Next12(b.start) \in Nat /\ o \in Seq(Frame) /\ gap \in 0..1
    <3>1. Next12(b.start) \in 0..SnMod - 1
      <4>1. b.start \in Int
        BY <1>1
      <4> HIDE DEF b
      <4> QED BY <4>1, Next12Type
    <3>2. gap = t.gap \/ gap = 1
      OBVIOUS
    <3> HIDE DEF gap
    <3> QED BY <1>1, <1>2, <3>1, <3>2, Sizes
  <2>1. IsCut(u, b, k, b.num - 1, Next12(b.start), b.slip) /\ Counted(u)
    <3>1. b.buf[k] # <<>> /\ b.num - 1 \in Int
      BY <1>1
    <3> HIDE DEF b, k
    <3> QED BY <1>1, <2>0, <3>1, CutCounted
  <2>2. released = w
    <3> HIDE DEF gap
    <3>2. Emptied(Delivered(t, list), sn) = With(t, [b EXCEPT !.buf = Less1(b, k)], o)
      BY <1>1, <1>2 DEF Emptied, Delivered, With, Less1, Reorderer, Buffer
    <3>3. Advance(With(t, [b EXCEPT !.buf = Less1(b, k)], o))
            = With(t, [b EXCEPT !.buf = Less1(b, k), !.start = Next12(b.start)], o)
      BY <1>1, <1>2 DEF Advance, With, Reorderer, Buffer
    <3>4. Count(With(t, [b EXCEPT !.buf = Less1(b, k), !.start = Next12(b.start)], o), -1)
            = With(t, [b EXCEPT !.buf = Less1(b, k), !.start = Next12(b.start),
                                !.num = b.num - 1], o)
      BY <1>1, <1>2 DEF Count, With, Reorderer, Buffer
    <3>5. [b EXCEPT !.buf = Less1(b, k), !.start = Next12(b.start), !.num = b.num - 1] = u
      BY <1>1 DEF Buffer, Cut
    <3> QED BY <3>2, <3>3, <3>4, <3>5
  <2> HIDE DEF u
  <2> HIDE DEF o
  <2>3. Live(v) /\ v.tid = u /\ v.ref = t.ref /\ v.timer = t.timer /\ v.skew = t.skew
        /\ v.out = o /\ v.todo = t.todo
    BY <1>2, <2>0, <2>1, WithIs DEF IsCut
  <2> HIDE DEF v, released, gap
  <2>4. Live(w) /\ w.tid = u /\ w.ref = t.ref /\ w.timer = t.timer /\ w.skew = t.skew
        /\ w.out = o /\ w.todo = t.todo
    BY <2>0, <2>3, GapKeeps
  <2> HIDE DEF w
  <2>5. w \in Reorderer
    BY <2>4, LiveBuffer
  <2>6. r \in Turn /\ r.s = w /\ r.go = TRUE /\ r.stop = FALSE
    BY <1>5, <2>2, <2>5 DEF Turn
  <2> HIDE DEF k
  <2> QED BY <1>2, <2>1, <2>4, <2>6 DEF IsCut, r, k, t, o
<1>6. CASE r = [q EXCEPT !.s = timed, !.stop = TRUE]
  <2>1. At(t, sn) # <<>> /\ t.ref = t.tid.ref
    BY <1>2 DEF At
  <2>2. /\ Live(timed) /\ Same(t, timed) /\ timed.tid = t.tid
        /\ Asked(timed)
    BY <1>2, <2>1, SetTimerKeeps
  <2> HIDE DEF timed
  <2>3. timed \in Reorderer
    BY <2>2, LiveBuffer
  <2>4. r \in Turn /\ r.s = timed /\ r.stop = TRUE
    BY <1>6, <2>3 DEF Turn
  <2>5. timed = SetReorderTimer(Untimed(q.s), sn)
    BY DEF timed, t
  <2> QED BY <1>2, <2>1, <2>2, <2>4, <2>5 DEF Same, r
<1> QED BY <1>3, <1>4, <1>5, <1>6

LEMMA LeftStep ==
  ASSUME NEW a \in Int, NEW b \in Int, Left(a, b) <= WinSize
  PROVE  Left(a, b + 1) = Left(a, b) + 1
<1> DEFINE d == Left(a, b)
<1>0. SnMod \in Nat /\ SnMod > 0 /\ WinSize \in Nat /\ WinSize > 0 /\ 4 * WinSize <= SnMod
  BY Sizes
<1>1. d \in 0..SnMod - 1
  BY LeftType
<1>2. PICK q \in Int : b + 1 - a = SnMod * q + d
  BY <1>0, ModIs, b + 1 - a \in Int DEF Left
<1>3. d <= WinSize
  OBVIOUS
<1> HIDE DEF d
<1>4. d + 1 \in 0..SnMod - 1 /\ (b + 1) + 1 - a = SnMod * q + (d + 1)
  BY <1>0, <1>1, <1>2, <1>3
<1>5. (SnMod * q + (d + 1)) % SnMod = d + 1
  BY <1>0, <1>4, ModUnique
<1> QED BY <1>4, <1>5 DEF Left, d

\* skw_reorder_release leaves frames behind only when somebody will look at them.
LEMMA ReleaseIs ==
  ASSUME NEW s, Live(s), s.ref = s.tid.ref
  PROVE  LET r == Release(s)
         IN  Live(r) /\ Same(s, r) /\ (Asked(r) \/ NoFrames(r))
<1> DEFINE first == s.tid.start
           ref == s.timer.ref
           \* what the turns keep: the slots before the i-th are empty, and the
           \* window starts in or, while frames are released, at that slot
           Passed(i) == {q \in Turn :
             /\ Live(q.s) /\ q.s.ref = s.ref /\ q.s.tid.ref = s.ref
             /\ q.s.timer.ref \in {ref, s.ref} /\ q.s.skew = s.skew
             /\ q.stop => Asked(q.s) \/ NoFrames(q.s)
             /\ ~q.stop =>
                  /\ \A j \in 0..i - 1 : q.s.tid.buf[Slot(first + j)] = <<>>
                  /\ \/ q.s.tid.num = 0
                     \/ /\ Left(q.s.tid.start, first + i) \in 1..i + 1
                        /\ q.go => Left(q.s.tid.start, first + i) = 1}
           P == [i \in 0..WinSize |-> Passed(i)]
           q0 == [s |-> s, go |-> TRUE, stop |-> FALSE]
<1>0. SnMod \in Nat /\ WinSize \in Nat /\ WinSize > 0 /\ 4 * WinSize <= SnMod
  BY Sizes
<1>1. s \in Reorderer /\ s.tid \in Buffer /\ first \in Nat /\ s.tid # None /\ ref \in Nat
      /\ s.ref \in Nat
  <2>1. s \in Reorderer /\ s.tid \in Buffer
    BY LiveBuffer
  <2> QED BY <2>1, BufferIs DEF Reorderer, Timer, Buffer
<1>2. q0 \in P[0]
  <2>1. q0 \in Turn
    BY <1>1 DEF Turn
  <2>2. Left(s.tid.start, first + 0) = 0 + 1
    <3>1. 0 \in 0..2 * WinSize /\ first \in Int
      BY <1>0, <1>1
    <3> HIDE DEF first
    <3>2. Left(first, first + 0) = 0 + 1
      BY <3>1, LeftFrom
    <3> QED BY <3>2 DEF first
  <2>3. q0 \in Passed(0)
    BY <2>1, <2>2
  <2> QED BY <1>0, <2>3
<1>3. ASSUME NEW i \in 0..WinSize, i < WinSize, NEW q \in P[i]
      PROVE  ReleaseTurn(first)[i][q] \in P[i + 1]
  <2> DEFINE r == ReleaseTurn(first)[i][q]
             sn == first + i
             list == At(q.s, sn)
  <2>0. i + 1 \in 0..WinSize /\ i \in Nat /\ sn \in Nat /\ sn \in Int /\ i \in 0..WinSize - 1
    BY <1>0, <1>1, <1>3
  <2>1. /\ q \in Turn /\ Live(q.s) /\ q.s.ref = s.ref /\ q.s.tid.ref = s.ref
        /\ q.s.timer.ref \in {ref, s.ref} /\ q.s.skew = s.skew
        /\ q.stop => Asked(q.s) \/ NoFrames(q.s)
        /\ ~q.stop =>
             /\ \A j \in 0..i - 1 : q.s.tid.buf[Slot(first + j)] = <<>>
             /\ \/ q.s.tid.num = 0
                \/ /\ Left(q.s.tid.start, first + i) \in 1..i + 1
                   /\ q.go => Left(q.s.tid.start, first + i) = 1
    <3>1. q \in Passed(i)
      BY <1>3
    <3> HIDE DEF first, ref
    <3> QED BY <3>1
  <2>2. r = IF q.stop THEN q
            ELSE IF q.s.tid.num = 0 THEN [q EXCEPT !.s = DelTimer(q.s), !.stop = TRUE]
            ELSE IF list = <<>>
            THEN IF q.s.timer.pending = 1 THEN [q EXCEPT !.stop = TRUE] ELSE [q EXCEPT !.go = FALSE]
            ELSE IF q.go THEN InOrder(q, sn) ELSE GapBefore(q, sn)
    BY <2>0, <2>1 DEF ReleaseTurn
  <2>3. Live(q.s) /\ q.s \in Reorderer /\ q.s.tid \in Buffer /\ q.s.tid.start \in Nat
        /\ q.s.tid.buf \in [Slots -> Seq(Frame)] /\ Counted(q.s.tid)
    <3>1. Live(q.s)
      BY <2>1
    <3> QED BY <3>1, LiveBuffer DEF Buffer
  <2> HIDE DEF r, first, list, sn
  <2>4. /\ Slot(sn) \in Slots /\ list = q.s.tid.buf[Slot(sn)]
        /\ \A j \in 0..i - 1 : Slot(first + j) \in Slots /\ first + j \in Int
        /\ \A j \in 0..i - 1 : Slot(first + j) # Slot(sn)
    <3>1. first \in Int
      BY <1>1 DEF first
    <3>2. \A j \in 0..i - 1 : j \in 0..WinSize - 1 /\ first + j \in Int /\ j # i
      BY <1>0, <2>0, <3>1
    <3>3. \A j \in 0..i - 1 : Slot(first + j) \in Slots
      BY <3>2, SlotType
    <3>4. \A j \in 0..i - 1 : Slot(first + j) # Slot(sn)
      BY <2>0, <3>1, <3>2, SlotsFrom DEF sn
    <3> QED BY <2>0, <3>2, <3>3, <3>4, SlotType DEF list, At
  <2>5. \A a \in Nat : Left(a, sn) \in 0..WinSize => Left(a, first + (i + 1)) = Left(a, sn) + 1
    <3>1. sn \in Int /\ first + (i + 1) = sn + 1
      BY <1>1, <2>0 DEF sn, first
    <3>2. \A a \in Int : Left(a, sn) <= WinSize => Left(a, sn + 1) = Left(a, sn) + 1
      BY <2>0, LeftStep
    <3> QED BY <1>0, <3>1, <3>2
  \* a turn that ends the loop, and one that goes on
  <2>6. ASSUME NEW v \in Turn, Live(v.s), v.s.ref = s.ref, v.s.tid.ref = s.ref,
               v.s.timer.ref \in {ref, s.ref}, v.s.skew = s.skew, v.stop, Asked(v.s) \/ NoFrames(v.s)
        PROVE  v \in Passed(i + 1)
    BY <2>6
  <2>7. ASSUME NEW v \in Turn, Live(v.s), v.s.ref = s.ref, v.s.tid.ref = s.ref,
               v.s.timer.ref \in {ref, s.ref}, v.s.skew = s.skew, ~v.stop,
               \A j \in 0..i - 1 : v.s.tid.buf[Slot(first + j)] = <<>>,
               v.s.tid.buf[Slot(sn)] = <<>>,
               \/ v.s.tid.num = 0
               \/ /\ Left(v.s.tid.start, sn) \in 0..i + 1
                  /\ v.go => Left(v.s.tid.start, sn) = 0
        PROVE  v \in Passed(i + 1)
    <3>1. v.s.tid.start \in Nat
      BY <2>7, LiveBuffer DEF Buffer
    <3>2. \A j \in 0..(i + 1) - 1 : v.s.tid.buf[Slot(first + j)] = <<>>
      <4>1. \A j \in 0..(i + 1) - 1 : j = i \/ j \in 0..i - 1
        BY <2>0
      <4> QED BY <2>7, <4>1 DEF sn
    <3>3. Left(v.s.tid.start, sn) \in 0..i + 1 =>
            Left(v.s.tid.start, first + (i + 1)) = Left(v.s.tid.start, sn) + 1
      BY <1>0, <2>0, <2>5, <3>1, <1>3
    <3>4. Left(v.s.tid.start, sn) \in 0..i + 1 =>
            Left(v.s.tid.start, first + (i + 1)) \in 1..(i + 1) + 1
      BY <2>0, <3>3
    <3> QED BY <2>7, <3>2, <3>3, <3>4
  <2> HIDE DEF Passed
  <2> SUFFICES r \in Passed(i + 1)
    BY <2>0 DEF r
  <2>8. q.stop => r = q
    BY <2>2
  <2>9. CASE q.stop
    BY <2>1, <2>6, <2>8, <2>9, <2>3
  <2>10. CASE ~q.stop /\ q.s.tid.num = 0
    <3>1. r = [q EXCEPT !.s = DelTimer(q.s), !.stop = TRUE]
      BY <2>2, <2>10
    <3> DEFINE d == DelTimer(q.s)
    <3>2. Sound(d) /\ d.timer.ref = q.s.timer.ref /\ d.tid = q.s.tid /\ d.ref = q.s.ref
          /\ d.skew = q.s.skew
      BY <2>3, DelTimerKeeps DEF Live
    <3> HIDE DEF d
    <3>3. Live(d) /\ d \in Reorderer
      BY <2>3, <3>2, BufferIs DEF Live, Sound
    <3>4. r \in Turn /\ r.s = d /\ r.stop
      BY <2>1, <3>1, <3>3 DEF Turn, d
    <3>5. NoFrames(d)
      BY <2>3, <2>10, <3>2, NoneCounted DEF NoFrames
    <3> QED BY <2>1, <2>6, <3>2, <3>3, <3>4, <3>5
  <2>11. CASE ~q.stop /\ q.s.tid.num # 0 /\ list = <<>> /\ q.s.timer.pending = 1
    <3>1. r = [q EXCEPT !.stop = TRUE]
      BY <2>2, <2>11
    <3>2. r \in Turn /\ r.s = q.s /\ r.stop
      BY <2>1, <3>1 DEF Turn
    <3>3. Asked(r.s)
      BY <2>11, <3>2 DEF Asked
    <3> QED BY <2>1, <2>3, <2>6, <3>2, <3>3
  <2>12. CASE ~q.stop /\ q.s.tid.num # 0 /\ list = <<>> /\ q.s.timer.pending # 1
    <3>1. r = [q EXCEPT !.go = FALSE]
      BY <2>2, <2>12
    <3>2. r \in Turn /\ r.s = q.s /\ ~r.stop /\ ~r.go
      BY <2>1, <2>12, <3>1 DEF Turn
    <3>3. Left(q.s.tid.start, sn) \in 1..i + 1
      BY <2>1, <2>12 DEF sn
    <3>4. Left(q.s.tid.start, sn) \in 0..i + 1
      BY <2>0, <3>3
    <3> QED BY <2>1, <2>3, <2>4, <2>7, <2>12, <3>2, <3>4
  <2>13. CASE ~q.stop /\ q.s.tid.num # 0 /\ list # <<>> /\ q.go
    <3>1. r = InOrder(q, sn)
      BY <2>2, <2>13
    <3>2. /\ r \in Turn /\ Live(r.s) /\ r.s.ref = q.s.ref /\ r.s.tid.ref = q.s.ref
          /\ r.s.timer.ref \in {q.s.timer.ref, q.s.ref} /\ r.s.skew = q.s.skew
          /\ r.stop => Asked(r.s)
          /\ ~r.stop => /\ r.s.tid.buf = Less1(q.s.tid, Slot(sn))
                        /\ r.go => r.s.tid.start = Next12(q.s.tid.start)
                        /\ ~r.go => r.s.tid.start = q.s.tid.start
      <4>1. q.go = TRUE /\ q.stop = FALSE /\ At(q.s, sn) # <<>> /\ q.s.ref = q.s.tid.ref
        BY <2>1, <2>13 DEF Turn, list
      <4> QED BY <2>0, <2>1, <2>3, <3>1, <4>1, InOrderIs
    <3>3. r.s.timer.ref \in {ref, s.ref} /\ r.s.ref = s.ref /\ r.s.tid.ref = s.ref
          /\ r.s.skew = s.skew
      BY <2>1, <3>2
    <3>4. CASE r.stop
      BY <2>6, <3>2, <3>3, <3>4
    <3>5. CASE ~r.stop
      <4>1. /\ \A j \in 0..i - 1 : r.s.tid.buf[Slot(first + j)] = <<>>
            /\ r.s.tid.buf[Slot(sn)] = <<>>
        <5>1. r.s.tid.buf = [q.s.tid.buf EXCEPT ![Slot(sn)] = <<>>]
          BY <3>2, <3>5 DEF Less1
        <5>2. \A j \in 0..i - 1 : q.s.tid.buf[Slot(first + j)] = <<>>
          BY <2>1, <2>13
        <5> QED BY <2>3, <2>4, <5>1, <5>2
      <4>2. Left(q.s.tid.start, sn) = 1
        BY <2>1, <2>13 DEF sn
      <4>3. r.go => Left(r.s.tid.start, sn) = 0
        BY <2>0, <2>3, <3>2, <3>5, <4>2, LeftNext
      <4>4. Left(r.s.tid.start, sn) \in 0..i + 1
        BY <2>0, <3>2, <3>5, <4>2, <4>3
      <4> QED BY <2>7, <3>2, <3>3, <3>5, <4>1, <4>3, <4>4
    <3> QED BY <3>4, <3>5
  <2>14. CASE ~q.stop /\ q.s.tid.num # 0 /\ list # <<>> /\ ~q.go
    <3>1. r = GapBefore(q, sn)
      BY <2>2, <2>14
    <3>2. CASE r = [q EXCEPT !.s = ForceRelease(q.s, sn), !.go = TRUE]
      <4> DEFINE d == ForceRelease(q.s, sn)
      <4>1. ForceReleased(q.s, d, sn)
        BY <2>0, <2>3, ForceReleaseIs
      <4> HIDE DEF d
      <4>2. d \in Reorderer /\ Live(d)
        BY <4>1, LiveBuffer DEF ForceReleased
      <4>3. r \in Turn /\ r.s = d /\ ~r.stop
        BY <2>1, <2>14, <3>2, <4>2 DEF Turn, d
      <4>4. Left(q.s.tid.start, sn) \in 1..WinSize
        <5>1. Left(q.s.tid.start, sn) \in 1..i + 1
          BY <2>1, <2>14 DEF sn
        <5> QED BY <1>0, <2>0, <5>1
      <4>5. \A j \in 0..i - 1 : d.tid.buf[Slot(first + j)] = <<>>
        <5>1. \A j \in 0..i - 1 : q.s.tid.buf[Slot(first + j)] = <<>>
          BY <2>1, <2>14
        <5> QED BY <2>4, <4>1, <5>1 DEF ForceReleased
      <4>6. d.tid.num = 0 => d.tid.buf[Slot(sn)] = <<>>
        BY <2>4, <4>2, LiveBuffer, NoneCounted
      <4>7. d.tid.num = 0 \/ (Left(d.tid.start, sn) = 0 /\ d.tid.buf[Slot(sn)] = <<>>)
        BY <4>1, <4>4 DEF ForceReleased
      <4>8. 0 \in 0..i + 1
        BY <2>0
      <4>9. d.ref = s.ref /\ d.tid.ref = s.ref /\ d.timer.ref \in {ref, s.ref} /\ d.skew = s.skew
        BY <2>1, <4>1 DEF ForceReleased
      <4> QED BY <2>7, <4>2, <4>3, <4>5, <4>6, <4>7, <4>8, <4>9
    <3>3. CASE r = [q EXCEPT !.s = SetReorderTimer(q.s, sn), !.stop = TRUE]
      <4> DEFINE d == SetReorderTimer(q.s, sn)
      <4>1. At(q.s, sn) # <<>> /\ q.s.ref = q.s.tid.ref
        BY <2>1, <2>14 DEF list
      <4>2. Live(d) /\ Same(q.s, d) /\ Asked(d)
        BY <2>0, <2>3, <4>1, SetTimerKeeps
      <4> HIDE DEF d
      <4>3. d \in Reorderer
        BY <4>2, LiveBuffer
      <4>4. r \in Turn /\ r.s = d /\ r.stop
        BY <2>1, <3>3, <4>3 DEF Turn, d
      <4>5. d.ref = s.ref /\ d.tid.ref = s.ref /\ d.timer.ref \in {ref, s.ref} /\ d.skew = s.skew
        BY <2>1, <4>2 DEF Same
      <4> QED BY <2>6, <4>2, <4>4, <4>5
    <3> QED BY <3>1, <3>2, <3>3 DEF GapBefore
  <2> QED BY <2>9, <2>10, <2>11, <2>12, <2>13, <2>14
<1> DEFINE e == Loop(ReleaseTurn(first), q0, WinSize)
<1>4. e \in P[WinSize]
  <2> HIDE DEF P, q0, first
  <2> QED BY <1>0, <1>2, <1>3, Looped
<1>5. Release(s) = e.s
  BY <1>1 DEF Release
<1>6. e \in Passed(WinSize)
  <2> HIDE DEF Passed, e
  <2>1. WinSize \in 0..WinSize
    BY <1>0
  <2> QED BY <1>4, <2>1
<1> HIDE DEF e, P, q0, first
<1>7. ~e.stop => NoFrames(e.s)
  <2> SUFFICES ASSUME ~e.stop, NEW x \in Slots PROVE e.s.tid.buf[x] = <<>>
    BY DEF NoFrames
  <2>1. PICK j \in 0..WinSize - 1 : Slot(first + j) = x
    BY <1>1, SlotsFrom, first \in Int
  <2> QED BY <1>6, <2>1
<1> QED BY <1>5, <1>6, <1>7 DEF Same
-----------------------------------------------------------------------------
(* A frame is reordered *)

\* The buffer is that of the session.
Own(s) == Sound(s) /\ (s.tid # None => s.tid.ref = s.ref)

\* Nothing is stored that nobody will look at.
Waits(s) == s.tid = None \/ NoFrames(s) \/ Asked(s)

\* What the thread makes of s; ok: it has to see to it that somebody will look.
Handled(s, r, ok) ==
  /\ Own(r) /\ r.ref = s.ref /\ (r.tid = None <=> s.tid = None)
  /\ r.timer.ref \in {s.timer.ref, s.ref} /\ (s.skew = 1 => r.skew = 1)
  /\ ok => Waits(r)

LEMMA HandledMore ==
  ASSUME NEW s, NEW r, NEW v, NEW a \in BOOLEAN, NEW b \in BOOLEAN,
         Handled(s, r, a), Handled(r, v, b)
  PROVE  Handled(s, v, b)
  BY DEF Handled

LEMMA LiveOwn ==
  ASSUME NEW s, NEW r, s.tid # None, s.ref = s.tid.ref, Live(r), Same(s, r), NEW ok \in BOOLEAN,
         ok => Asked(r) \/ NoFrames(r)
  PROVE  Handled(s, r, ok)
  BY DEF Handled, Live, Own, Same, Waits

LEMMA SettleIs ==
  ASSUME NEW s, Live(s), s.ref = s.tid.ref, NEW sn \in Nat, NEW b \in BOOLEAN
  PROVE  Handled(s, Settle(s, sn, b), b \/ At(s, sn) # <<>> \/ Asked(s) \/ NoFrames(s))
<1> DEFINE ok == b \/ At(s, sn) # <<>> \/ Asked(s) \/ NoFrames(s)
<1>1. s \in Reorderer /\ s.tid \in Buffer /\ Counted(s.tid) /\ s.tid # None
  BY LiveBuffer DEF Live
<1>2. CASE s.tid.num = 0
  <2> DEFINE r == DelTimer(s)
  <2>1. Sound(r) /\ r.timer.ref = s.timer.ref /\ r.tid = s.tid /\ r.ref = s.ref /\ r.skew = s.skew
    BY DelTimerKeeps DEF Live
  <2>2. Settle(s, sn, b) = r
    BY <1>2 DEF Settle
  <2> HIDE DEF r
  <2>3. NoFrames(r)
    BY <1>1, <1>2, <2>1, NoneCounted DEF NoFrames
  <2> QED BY <1>1, <2>1, <2>2, <2>3, LiveOwn DEF Live, Same
<1>3. CASE s.tid.num # 0 /\ b
  BY <1>1, <1>3, ReleaseIs, LiveOwn DEF Settle
<1>4. CASE s.tid.num # 0 /\ ~b
  <2> DEFINE r == SetReorderTimer(s, sn)
  <2>1. Live(r) /\ Same(s, r) /\ r.tid = s.tid /\ (Asked(s) => Asked(r))
        /\ (At(s, sn) # <<>> => Asked(r))
    BY SetTimerKeeps
  <2>2. Settle(s, sn, b) = r
    BY <1>4 DEF Settle
  <2> HIDE DEF r
  <2>3. ok => Asked(r) \/ NoFrames(r)
    BY <1>4, <2>1 DEF NoFrames
  <2> QED BY <1>1, <2>1, <2>2, <2>3, LiveOwn
<1> QED BY <1>2, <1>3, <1>4

\* The slot of sn holds a frame that is not counted yet.
Filled(s, sn) ==
  /\ s \in Reorderer /\ s.timer.due <= s.timer.pending
  /\ s.timer.pending = 1 => s.timer.ref = s.ref
  /\ s.tid \in Buffer /\ s.tid.ref = s.ref
  /\ s.tid.buf[Slot(sn)] # <<>>
  /\ s.tid.num + 1 = Cardinality(Used(s.tid)) + s.tid.slip

LEMMA FilledWith ==
  ASSUME NEW s, NEW sn \in Nat, Filled(s, sn), NEW u \in Buffer, Counted(u), u.ref = s.tid.ref,
         NEW o \in Seq(Frame)
  PROVE  LET r == With(s, u, o)
         IN  /\ Live(r) /\ r.tid = u /\ r.out = o /\ r.ref = s.ref /\ r.timer = s.timer
             /\ r.todo = s.todo /\ Same(s, r)
<1> DEFINE r == With(s, u, o)
<1>1. /\ r \in Reorderer /\ r.tid = u /\ r.out = o
      /\ r.ref = s.ref /\ r.timer = s.timer /\ r.todo = s.todo /\ r.skew = s.skew
  BY WithIs DEF Filled
<1> HIDE DEF r
<1>2. Live(r)
  BY <1>1, BufferIs DEF Live, Sound, Filled
<1> QED BY <1>1, <1>2 DEF Same, r

\* It leaves the slot again ...
LEMMA FilledCut ==
  ASSUME NEW s, NEW sn \in Nat, Filled(s, sn), NEW a \in Nat
  PROVE  LET t == s.tid
             k == Slot(sn)
             u == Cut(t, k, t.num, a, t.slip)
         IN  IsCut(u, t, k, t.num, a, t.slip) /\ Counted(u)
<1> DEFINE t == s.tid
           k == Slot(sn)
           u == Cut(t, k, t.num, a, t.slip)
<1>1. t \in Buffer /\ t.num \in Int /\ t.slip \in Nat /\ t.buf[k] # <<>> /\ k \in Slots
  BY SlotType DEF Filled, Buffer
<1>2. IsCut(u, t, k, t.num, a, t.slip)
  <2> HIDE DEF t, k
  <2> QED BY <1>1, EmptiedBuffer
<1>3. t.num + 1 = Cardinality(Used(t)) + t.slip
  BY DEF Filled
<1> HIDE DEF u, t, k
<1>4. Used(u) = Used(t) \ {k} /\ k \in Used(t)
  BY <1>1, <1>2 DEF Used, IsCut, Less1, Buffer
<1>5. Cardinality(Used(u)) = Cardinality(Used(t)) - 1 /\ Cardinality(Used(t)) \in Nat
  BY <1>4, UsedFinite, FS_RemoveElement
<1>6. Counted(u)
  BY <1>1, <1>2, <1>3, <1>5 DEF Counted, IsCut
<1> QED BY <1>2, <1>6 DEF u, t, k

\* ... or it is counted.
LEMMA FilledCount ==
  ASSUME NEW s, NEW sn \in Nat, Filled(s, sn)
  PROVE  LET r == Count(s, 1)
         IN  /\ Live(r) /\ Same(s, r) /\ r.ref = r.tid.ref /\ At(r, sn) # <<>>
             /\ r.tid.start = s.tid.start /\ r.tid.buf = s.tid.buf /\ r.tid.slip = s.tid.slip
             /\ r.out = s.out /\ r.timer = s.timer /\ r.todo = s.todo
<1> DEFINE t == s.tid
           u == [t EXCEPT !.num = t.num + 1]
<1>1. t \in Buffer /\ t.num \in Int /\ t.num + 1 = Cardinality(Used(t)) + t.slip
      /\ s \in Reorderer /\ s.out \in Seq(Frame) /\ t.ref = s.ref
  BY DEF Filled, Buffer, Reorderer
<1>2. u \in Buffer /\ u.ref = t.ref /\ u.buf = t.buf /\ u.num = t.num + 1 /\ u.slip = t.slip
      /\ u.start = t.start
  BY <1>1 DEF Buffer
<1>3. Count(s, 1) = With(s, u, s.out)
  BY <1>1 DEF Count, With, Reorderer
<1> HIDE DEF u
<1>4. Counted(u)
  BY <1>1, <1>2 DEF Counted, Used
<1> DEFINE r == With(s, u, s.out)
<1>5. Live(r) /\ r.tid = u /\ r.ref = s.ref /\ Same(s, r) /\ r.out = s.out
      /\ r.timer = s.timer /\ r.todo = s.todo
  BY <1>1, <1>2, <1>4, FilledWith
<1> HIDE DEF r
<1>6. At(r, sn) # <<>>
  BY <1>2, <1>5 DEF At, Filled
<1> QED BY <1>1, <1>2, <1>3, <1>5, <1>6 DEF r

\* The frame of the window start goes up and the window moves on.
HandOver(s, sn) ==
  LET t == Emptied(Delivered(s, At(s, sn)), sn)
  IN  Advance(DelTimerIf(t, t.timer.sn = sn))

LEMMA HandOverIs ==
  ASSUME NEW s, NEW sn \in Nat, Filled(s, sn)
  PROVE  LET r == HandOver(s, sn)
         IN  /\ Live(r) /\ Same(s, r) /\ r.ref = r.tid.ref
             /\ r.tid.start = Next12(s.tid.start) /\ r.tid.slip = s.tid.slip
             /\ r.tid.buf = Less1(s.tid, Slot(sn)) /\ r.out = s.out \o At(s, sn)
             /\ r.timer.sn = s.timer.sn /\ (r.timer.pending = 1 => s.timer.pending = 1)
             /\ r.todo = s.todo
<1> DEFINE t == s.tid
           k == Slot(sn)
           list == At(s, sn)
           u == Cut(t, k, t.num, t.start, t.slip)
           o == s.out \o list
           v == With(s, u, o)
           d == DelTimerIf(v, v.timer.sn = sn)
           w == [u EXCEPT !.start = Next12(u.start)]
           r == With(d, w, d.out)
<1>1. t \in Buffer /\ t.num \in Int /\ t.start \in Nat /\ t.slip \in Nat /\ s \in Reorderer
      /\ s.out \in Seq(Frame) /\ t.ref = s.ref /\ t # None
  BY BufferIs DEF Filled, Buffer, Reorderer
<1>2. list \in Seq(Frame) /\ o \in Seq(Frame) /\ list = t.buf[k] /\ k \in Slots
  <2>1. k \in Slots /\ list = t.buf[k]
    BY SlotType DEF At
  <2> HIDE DEF k, list
  <2> QED BY <1>1, <2>1 DEF Buffer
<1>3. IsCut(u, t, k, t.num, t.start, t.slip) /\ Counted(u)
  BY <1>1, FilledCut
<1>4. Emptied(Delivered(s, list), sn) = v
  <2>1. Emptied(Delivered(s, list), sn) = With(s, [t EXCEPT !.buf = Less1(t, k)], o)
    BY <1>1, <1>2 DEF Emptied, Delivered, With, Less1, Reorderer, Buffer
  <2>2. u = [t EXCEPT !.buf = Less1(t, k)]
    BY <1>1 DEF Buffer, Cut
  <2> QED BY <2>1, <2>2
<1> HIDE DEF u, o
<1>5. Live(v) /\ v.tid = u /\ v.ref = s.ref /\ Same(s, v) /\ v.out = o /\ v.timer = s.timer
      /\ v.todo = s.todo
  BY <1>1, <1>2, <1>3, FilledWith DEF IsCut
<1> HIDE DEF v
<1>6. /\ Sound(d) /\ d.timer.ref = v.timer.ref /\ d.tid = u /\ d.ref = v.ref /\ d.skew = v.skew
      /\ d.out = o /\ d.timer.sn = s.timer.sn /\ d.todo = s.todo
      /\ d = v \/ d.timer.pending = 0
  <2>1. Sound(v) /\ (v.timer.sn = sn) \in BOOLEAN
    BY <1>5 DEF Live
  <2> QED BY <1>5, <2>1, DelTimerIfKeeps
<1> HIDE DEF d
<1>7. Live(d) /\ d \in Reorderer /\ d.out \in Seq(Frame) /\ u \in Buffer /\ u.start \in Nat
  <2>1. Live(d)
    BY <1>5, <1>6 DEF Live
  <2> QED BY <1>3, <2>1, LiveBuffer DEF IsCut, Reorderer, Buffer
<1>8. w \in Buffer /\ w.ref = u.ref /\ Used(w) = Used(u) /\ w.num = u.num /\ w.slip = u.slip
      /\ w.buf = u.buf /\ w.start = Next12(u.start)
  <2>1. u.start \in Int
    BY <1>7
  <2>2. Next12(u.start) \in Nat
    BY <2>1, Next12Type, Sizes
  <2> QED BY <1>7, <2>2 DEF Buffer, Used
<1>9. Counted(w)
  <2> HIDE DEF w
  <2> QED BY <1>3, <1>7, <1>8, CountSame
<1>10. HandOver(s, sn) = r
  <2>1. Advance(d) = r
    BY <1>6, <1>7 DEF Advance, With, Reorderer, Buffer
  <2> HIDE DEF r
  <2> QED BY <1>4, <2>1 DEF HandOver, d
<1> HIDE DEF w
<1>11. Live(r) /\ Same(d, r) /\ r.tid = w /\ r.ref = d.ref /\ r.out = d.out /\ r.timer = d.timer
       /\ r.todo = d.todo
  BY <1>6, <1>7, <1>8, <1>9, WithIs
<1> HIDE DEF r
<1>12. /\ r.tid.start = Next12(s.tid.start) /\ r.tid.slip = s.tid.slip
       /\ r.tid.buf = Less1(s.tid, Slot(sn)) /\ r.out = s.out \o At(s, sn)
  BY <1>3, <1>6, <1>8, <1>11 DEF IsCut, o
<1>13. Same(s, r) /\ r.ref = r.tid.ref
  BY <1>1, <1>3, <1>5, <1>6, <1>8, <1>11 DEF Same, IsCut
<1>14. r.timer.sn = s.timer.sn /\ (r.timer.pending = 1 => s.timer.pending = 1) /\ r.todo = s.todo
  BY <1>5, <1>6, <1>11
<1> QED BY <1>10, <1>11, <1>12, <1>13, <1>14

LEMMA PlaceSplit ==
  ASSUME NEW s, NEW sn, NEW b
  PROVE  Place(s, sn, b) = IF sn = s.tid.start THEN Settle(HandOver(s, sn), sn, TRUE)
                           ELSE Settle(Count(s, 1), sn, b)
  BY DEF Place, HandOver

LEMMA PlaceIs ==
  ASSUME NEW s, NEW sn \in Nat, Filled(s, sn), NEW b \in BOOLEAN
  PROVE  Handled(s, Place(s, sn, b), TRUE)
<1>1. s.tid # None
  BY BufferIs DEF Filled
<1>2. CASE sn = s.tid.start
  <2> DEFINE r == HandOver(s, sn)
  <2>1. Live(r) /\ Same(s, r) /\ r.ref = r.tid.ref
    BY HandOverIs
  <2>2. Place(s, sn, b) = Settle(r, sn, TRUE)
    BY <1>2, PlaceSplit
  <2> HIDE DEF r
  <2>3. Handled(r, Settle(r, sn, TRUE), TRUE \/ At(r, sn) # <<>> \/ Asked(r) \/ NoFrames(r))
    BY <2>1, SettleIs
  <2> QED BY <1>1, <2>1, <2>2, <2>3 DEF Handled, Same, Live
<1>3. CASE sn # s.tid.start
  <2> DEFINE c == Count(s, 1)
  <2>1. Live(c) /\ Same(s, c) /\ c.ref = c.tid.ref /\ At(c, sn) # <<>>
    BY FilledCount
  <2>2. Place(s, sn, b) = Settle(c, sn, b)
    BY <1>3, PlaceSplit
  <2> HIDE DEF c
  <2>3. Handled(c, Settle(c, sn, b), TRUE)
    <3>1. Handled(c, Settle(c, sn, b), b \/ At(c, sn) # <<>> \/ Asked(c) \/ NoFrames(c))
      BY <2>1, SettleIs
    <3> QED BY <2>1, <3>1 DEF Handled
  <2> QED BY <1>1, <2>1, <2>2, <2>3 DEF Handled, Same, Live
<1> QED BY <1>2, <1>3

LEMMA OwnLive == ASSUME NEW s, Own(s), s.tid # None PROVE Live(s) /\ s.ref = s.tid.ref
  BY DEF Own, Live

\* A frame is put into its slot.
LEMMA AppendIs ==
  ASSUME NEW t, Live(t), t.ref = t.tid.ref, NEW sn \in Nat, NEW f \in Frame
  PROVE  LET list == At(t, sn)
             u == [t EXCEPT !.tid.buf[Slot(sn)] = Append(@, f)]
         IN  /\ At(u, sn) # <<>> /\ u.ref = t.ref /\ u.tid # None
             /\ u.timer = t.timer /\ u.todo = t.todo /\ u.skew = t.skew
             /\ u.tid.start = t.tid.start
             /\ \A i \in Slots \ {Slot(sn)} : u.tid.buf[i] = t.tid.buf[i]
             /\ list = <<>> => Filled(u, sn)
             /\ list # <<>> => /\ Live(u) /\ Same(t, u) /\ u.ref = u.tid.ref
                               /\ Filled(Count(u, -1), sn)
                               /\ Count(u, -1).ref = t.ref /\ Count(u, -1).timer = t.timer
                               /\ Count(u, -1).todo = t.todo /\ Count(u, -1).skew = t.skew
                               /\ Count(u, -1).tid.start = t.tid.start
                               /\ Count(u, -1).tid.buf = u.tid.buf
<1> DEFINE b == t.tid
           k == Slot(sn)
           list == At(t, sn)
           more == Append(list, f)
           x == [b EXCEPT !.buf = [b.buf EXCEPT ![k] = more]]
           y == [x EXCEPT !.num = x.num - 1]
           u == [t EXCEPT !.tid.buf[Slot(sn)] = Append(@, f)]
<1>1. /\ t \in Reorderer /\ b \in Buffer /\ Counted(b) /\ b.ref = t.ref /\ k \in Slots
      /\ list = b.buf[k] /\ list \in Seq(Frame) /\ t.out \in Seq(Frame) /\ b.num \in Int
      /\ t.timer.due <= t.timer.pending /\ (t.timer.pending = 1 => t.timer.ref = t.ref)
      /\ b.slip \in Nat
  <2>1. t \in Reorderer /\ b \in Buffer /\ Counted(b)
    BY LiveBuffer
  <2>2. k \in Slots /\ list = b.buf[k]
    BY SlotType DEF At
  <2>3. t.timer.due <= t.timer.pending /\ (t.timer.pending = 1 => t.timer.ref = t.ref)
    BY DEF Live, Sound
  <2> HIDE DEF k, list
  <2> QED BY <2>1, <2>2, <2>3 DEF Buffer, Reorderer
<1>2. more \in Seq(Frame) /\ more # <<>>
  <2> HIDE DEF list
  <2> QED BY <1>1
<1>3. x \in Buffer /\ x.buf = [b.buf EXCEPT ![k] = more] /\ x.num = b.num /\ x.ref = b.ref
      /\ x.start = b.start /\ x.slip = b.slip
  <2> HIDE DEF k, more
  <2> QED BY <1>1, <1>2 DEF Buffer
<1>4. u = With(t, x, t.out)
  BY <1>1 DEF With, At, Reorderer, Buffer
<1>5. /\ u \in Reorderer /\ u.tid = x /\ u.ref = t.ref /\ u.timer = t.timer /\ u.todo = t.todo
      /\ u.skew = t.skew
  <2> HIDE DEF u, x
  <2> QED BY <1>1, <1>3, <1>4, WithIs
<1> HIDE DEF u, x
<1>6. x.buf[k] = more /\ \A i \in Slots \ {k} : x.buf[i] = b.buf[i]
  BY <1>1, <1>3 DEF Buffer
<1>7. x # None
  BY <1>3, BufferIs
<1>8. list = <<>> => Filled(u, sn)
  <2> SUFFICES ASSUME list = <<>> PROVE Filled(u, sn)
    OBVIOUS
  <2> HIDE DEF list, more, k
  <2>1. Used(x) = Used(b) \cup {k} /\ k \notin Used(b)
    BY <1>1, <1>2, <1>6 DEF Used
  <2>2. Cardinality(Used(x)) = Cardinality(Used(b)) + 1 /\ Cardinality(Used(b)) \in Nat
    BY <2>1, UsedFinite, FS_AddElement
  <2>3. x.num + 1 = Cardinality(Used(x)) + x.slip
    BY <1>1, <1>3, <2>2 DEF Counted
  <2> QED BY <1>1, <1>2, <1>3, <1>5, <1>6, <2>3 DEF Filled, k
<1>9. list # <<>> => Live(u) /\ Filled(Count(u, -1), sn) /\ Count(u, -1).ref = t.ref
                     /\ Count(u, -1).timer = t.timer /\ Count(u, -1).tid.buf = x.buf
                     /\ Count(u, -1).todo = t.todo /\ Count(u, -1).tid.start = x.start
                     /\ Count(u, -1).skew = t.skew
  <2> SUFFICES ASSUME list # <<>>
               PROVE  Live(u) /\ Filled(Count(u, -1), sn) /\ Count(u, -1).ref = t.ref
                      /\ Count(u, -1).timer = t.timer /\ Count(u, -1).tid.buf = x.buf
                      /\ Count(u, -1).todo = t.todo /\ Count(u, -1).tid.start = x.start
                     /\ Count(u, -1).skew = t.skew
    OBVIOUS
  <2> HIDE DEF list, more, k
  <2>1. Used(x) = Used(b)
    BY <1>1, <1>2, <1>6 DEF Used
  <2>2. Counted(x)
    BY <1>1, <1>3, <2>1, CountSame
  <2>3. Live(u)
    BY <1>1, <1>5, <1>7, <2>2 DEF Live, Sound
  <2>4. y \in Buffer /\ y.buf = x.buf /\ y.num = x.num - 1 /\ y.ref = x.ref /\ y.start = x.start
        /\ y.slip = x.slip
    <3>1. x \in Buffer /\ x.num - 1 \in Int
      BY <1>1, <1>3
    <3> QED BY <3>1 DEF Buffer
  <2>5. Count(u, -1) = With(u, y, u.out) /\ u.out \in Seq(Frame)
    BY <1>1, <1>3, <1>5 DEF Count, With, Reorderer
  <2> DEFINE v == With(u, y, u.out)
  <2>6. v \in Reorderer /\ v.tid = y /\ v.ref = u.ref /\ v.timer = u.timer /\ v.todo = u.todo
        /\ v.skew = u.skew
    <3> HIDE DEF y
    <3> QED BY <1>5, <2>4, <2>5, WithIs
  <2> HIDE DEF v, y
  <2>7. Used(y) = Used(x)
    BY <2>4 DEF Used
  <2>8. y.num + 1 = Cardinality(Used(y)) + y.slip
    <3>1. Cardinality(Used(x)) \in Nat
      BY UsedFinite
    <3> QED BY <1>1, <1>3, <2>2, <2>4, <2>7, <3>1 DEF Counted
  <2>9. Filled(v, sn)
    BY <1>1, <1>2, <1>3, <1>5, <1>6, <2>4, <2>6, <2>8 DEF Filled, k
  <2> QED BY <1>5, <2>3, <2>4, <2>5, <2>6, <2>9 DEF v
<1> QED
  <2> HIDE DEF more
  <2> QED BY <1>1, <1>2, <1>3, <1>5, <1>6, <1>7, <1>8, <1>9 DEF At, Same, u

\* A tainted A-MSDU is freed and the window moves on.
Purged(v, sn, g) == [Advance(Emptied(v, sn)) EXCEPT !.skew = g]

LEMMA PurgeIs ==
  ASSUME NEW v, NEW sn \in Nat, Filled(v, sn), NEW g \in 0..1
  PROVE  LET r == Purged(v, sn, g)
         IN  /\ Live(r) /\ r.ref = v.ref /\ r.tid.ref = v.ref /\ r.timer = v.timer
             /\ r.todo = v.todo /\ r.tid.buf = Less1(v.tid, Slot(sn)) /\ r.skew = g
             /\ r.out = v.out /\ r.tid.start = Next12(v.tid.start)
             /\ r.tid.slip = v.tid.slip
<1> DEFINE t == v.tid
           k == Slot(sn)
           a == Next12(t.start)
           u == Cut(t, k, t.num, a, t.slip)
           w == With(v, u, v.out)
           r == Purged(v, sn, g)
<1>1. t \in Buffer /\ t.num \in Int /\ t.start \in Nat /\ t.slip \in Nat /\ v \in Reorderer
      /\ v.out \in Seq(Frame) /\ t.ref = v.ref
  BY DEF Filled, Buffer, Reorderer
<1>2. a \in Nat
  <2>1. a \in 0..SnMod - 1
    <3>1. t.start \in Int
      BY <1>1
    <3> HIDE DEF t
    <3> QED BY <3>1, Next12Type
  <2> HIDE DEF a
  <2> QED BY <2>1, Sizes
<1> HIDE DEF a
<1>3. IsCut(u, t, k, t.num, a, t.slip) /\ Counted(u)
  BY <1>2, FilledCut
<1>4. Advance(Emptied(v, sn)) = w
  <2>1. Emptied(v, sn) = With(v, [t EXCEPT !.buf = Less1(t, k)], v.out)
    BY <1>1 DEF Emptied, With, Less1, Reorderer, Buffer
  <2>2. Advance(With(v, [t EXCEPT !.buf = Less1(t, k)], v.out))
          = With(v, [t EXCEPT !.buf = Less1(t, k), !.start = a], v.out)
    BY <1>1 DEF Advance, With, Reorderer, Buffer, a
  <2>3. [t EXCEPT !.buf = Less1(t, k), !.start = a] = u
    BY <1>1 DEF Cut, Buffer
  <2> QED BY <2>1, <2>2, <2>3
<1> HIDE DEF u
<1>5. Live(w) /\ w.tid = u /\ w.ref = v.ref /\ w.timer = v.timer /\ w.todo = v.todo
      /\ w.out = v.out
  BY <1>1, <1>3, FilledWith DEF IsCut
<1>6. r = [w EXCEPT !.skew = g]
  BY <1>4 DEF Purged
<1> HIDE DEF w, r
<1>9. w \in Reorderer
  BY <1>5, LiveBuffer
<1>7. r \in Reorderer /\ r.tid = u /\ r.ref = v.ref /\ r.timer = v.timer /\ r.todo = v.todo
      /\ r.skew = g /\ r.out = v.out
  BY <1>5, <1>6, <1>9 DEF Reorderer
<1>8. Live(r)
  BY <1>5, <1>7 DEF Live, Sound
<1> QED BY <1>1, <1>3, <1>7, <1>8 DEF IsCut, r, a

LEMMA SnType ==
  ASSUME NEW f \in Frame
  PROVE  Sn(f) \in Nat /\ (Sn(f) - WinSize) % SnMod \in Nat
<1>0. SnMod \in Nat /\ SnMod > 0 /\ WinSize \in Nat /\ FirstSn \in Nat
  BY Sizes
<1>1. f.n \in Nat
  BY Sizes DEF Frame
<1>2. Sn(f) \in 0..SnMod - 1
  BY <1>0, <1>1, ModIs, f.n + FirstSn \in Int DEF Sn, SnOf
<1>3. Sn(f) \in Nat
  BY <1>0, <1>2
<1>4. (Sn(f) - WinSize) % SnMod \in 0..SnMod - 1
  BY <1>0, <1>3, ModIs, Sn(f) - WinSize \in Int
<1> QED BY <1>0, <1>3, <1>4

\* skw_ampdu_reorder: a frame that is stored is waited for.
LEMMA ReorderIs ==
  ASSUME NEW s, Own(s), NEW f \in Frame
  PROVE  Handled(s, Reorder(s, f), Waits(s))
<1> DEFINE sn == Sn(f)
           beyond == ~Less(sn, s.tid.start + WinSize)
           t == IF beyond THEN ForceRelease(s, (sn - WinSize) % SnMod) ELSE s
           list == At(t, sn)
           u == [t EXCEPT !.tid.buf[Slot(sn)] = Append(@, f)]
           v == Count(u, IF list = <<>> THEN 0 ELSE -1)
           gone == [Advance(Emptied(v, sn)) EXCEPT !.skew = IF sn = t.tid.start THEN @ ELSE 1]
           r == Reorder(s, f)
<1>0. sn \in Nat /\ (sn - WinSize) % SnMod \in Nat /\ beyond \in BOOLEAN
  BY SnType DEF Less
<1>1. CASE s.tid = None
  <2> DEFINE o == s.out \o <<f>>
             d == [s EXCEPT !.out = o]
  <2>1. s \in Reorderer /\ o \in Seq(Frame)
    BY DEF Own, Sound, Reorderer
  <2>2. r = d
    BY <1>1 DEF Reorder, Delivered
  <2> HIDE DEF o, r
  <2>3. d \in Reorderer /\ d.tid = s.tid /\ d.timer = s.timer /\ d.ref = s.ref /\ d.skew = s.skew
    BY <2>1 DEF Reorderer
  <2> HIDE DEF d
  <2> QED BY <1>1, <2>2, <2>3 DEF Handled, Own, Sound, Waits, r
<1>2. CASE s.tid # None
  <2>1. Live(s) /\ s.ref = s.tid.ref
    BY <1>2, OwnLive
  <2>2. /\ Live(t) /\ t.ref = s.ref /\ t.tid.ref = t.ref /\ t.timer.ref = s.timer.ref
        /\ t.skew = s.skew
        /\ ~beyond => t = s
    <3>1. CASE beyond
      <4> DEFINE d == ForceRelease(s, (sn - WinSize) % SnMod)
      <4>1. ForceReleased(s, d, (sn - WinSize) % SnMod)
        BY <1>0, <2>1, ForceReleaseIs
      <4>2. t = d
        BY <3>1
      <4> HIDE DEF d, t
      <4> QED BY <2>1, <3>1, <4>1, <4>2 DEF ForceReleased
    <3>2. CASE ~beyond
      <4>1. t = s
        BY <3>2
      <4> HIDE DEF t
      <4> QED BY <2>1, <4>1
    <3> QED BY <3>1, <3>2
  <2>3. r = IF TooOld(s, sn) THEN Settle(s, sn, FALSE)
            ELSE IF f.part = 0
            THEN IF list # <<>> THEN Settle(t, sn, beyond) ELSE Place(u, sn, beyond)
            ELSE IF f.part \in Parts(list) THEN Settle(t, sn, beyond)
            ELSE IF ~ReleaseReady(Append(list, f))
            THEN Settle(Count(u, IF list = <<>> THEN 1 ELSE 0), sn, beyond)
            ELSE IF IsTainted(Append(list, f)) THEN Settle(gone, sn, beyond)
            ELSE Place(v, sn, beyond)
    BY <1>2, Zenon DEF Reorder
  <2> HIDE DEF r, beyond, t
  <2> SUFFICES Handled(s, r, Waits(s))
    BY DEF r
  <2>4. /\ At(u, sn) # <<>> /\ u.ref = t.ref /\ u.tid # None
        /\ u.timer = t.timer /\ u.todo = t.todo /\ u.skew = t.skew /\ u.tid.start = t.tid.start
        /\ \A i \in Slots \ {Slot(sn)} : u.tid.buf[i] = t.tid.buf[i]
        /\ list = <<>> => Filled(u, sn)
        /\ list # <<>> => /\ Live(u) /\ Same(t, u) /\ u.ref = u.tid.ref
                          /\ Filled(Count(u, -1), sn)
                          /\ Count(u, -1).ref = t.ref /\ Count(u, -1).timer = t.timer
                          /\ Count(u, -1).todo = t.todo /\ Count(u, -1).skew = t.skew
                          /\ Count(u, -1).tid.start = t.tid.start
                          /\ Count(u, -1).tid.buf = u.tid.buf
    BY <1>0, <2>2, AppendIs, ZenonT(60)
  <2> HIDE DEF u
  \* what is kept from t on is kept from s on
  <2>5. ASSUME NEW w, w.ref = t.ref, w.timer = t.timer, w.tid # None, t.skew = 1 => w.skew = 1,
               NEW b \in BOOLEAN, Handled(w, r, b)
        PROVE  Handled(s, r, b)
    BY <1>2, <2>2, <2>5 DEF Handled
  <2>6. ASSUME NEW w, Live(w), w.ref = w.tid.ref, w.ref = t.ref, w.timer = t.timer,
               t.skew = 1 => w.skew = 1,
               r = Settle(w, sn, beyond),
               Waits(s) => beyond \/ At(w, sn) # <<>> \/ Asked(w) \/ NoFrames(w)
        PROVE  Handled(s, r, Waits(s))
    <3> DEFINE b == beyond \/ At(w, sn) # <<>> \/ Asked(w) \/ NoFrames(w)
    <3>1. Handled(w, r, b)
      BY <1>0, <2>6, SettleIs
    <3>2. w.tid # None
      BY <2>6 DEF Live
    <3> HIDE DEF b
    <3>3. b \in BOOLEAN
      BY DEF b
    <3>4. Handled(s, r, b)
      BY <2>5, <2>6, <3>1, <3>2, <3>3
    <3> QED BY <2>6, <3>4 DEF Handled, b
  <2>7. CASE TooOld(s, sn)
    <3>1. r = Settle(s, sn, FALSE)
      BY <2>3, <2>7
    <3>2. Handled(s, r, FALSE \/ At(s, sn) # <<>> \/ Asked(s) \/ NoFrames(s))
      BY <1>0, <2>1, <3>1, SettleIs
    <3> QED BY <1>2, <3>2 DEF Handled, Waits
  <2>8. CASE ~TooOld(s, sn) /\ list # <<>> /\ (f.part = 0 \/ f.part \in Parts(list))
    <3>1. r = Settle(t, sn, beyond)
      BY <2>3, <2>8
    <3> QED BY <2>2, <2>6, <2>8, <3>1
  <2>9. CASE ~TooOld(s, sn) /\ list = <<>> /\ f.part = 0
    <3>1. r = Place(u, sn, beyond)
      BY <2>3, <2>9
    <3>2. Handled(u, r, TRUE)
      BY <1>0, <2>4, <2>9, <3>1, PlaceIs
    <3>3. Handled(s, r, TRUE)
      BY <2>4, <2>5, <3>2
    <3> QED BY <3>3 DEF Handled
  <2>10. CASE ~TooOld(s, sn) /\ f.part # 0 /\ f.part \notin Parts(list) /\ ~ReleaseReady(Append(list, f))
    <3>1. r = Settle(Count(u, IF list = <<>> THEN 1 ELSE 0), sn, beyond)
      BY <2>3, <2>10
    <3>2. CASE list = <<>>
      <4> DEFINE w == Count(u, 1)
      <4>1. r = Settle(w, sn, beyond)
        BY <3>1, <3>2
      <4>2. Live(w) /\ Same(u, w) /\ w.ref = w.tid.ref /\ At(w, sn) # <<>>
        BY <1>0, <2>4, <3>2, FilledCount
      <4>3. w.timer = u.timer
        <5>1. u \in Reorderer
          BY <2>4, <3>2 DEF Filled
        <5> QED BY <5>1 DEF Count, Reorderer
      <4> HIDE DEF w
      <4> QED BY <2>4, <2>6, <4>1, <4>2, <4>3 DEF Same
    <3>3. CASE list # <<>>
      <4>1. Count(u, 0) = u
        <5>1. u \in Reorderer /\ u.tid \in Buffer
          BY <2>4, <3>3, LiveBuffer
        <5>2. u.tid.num + 0 = u.tid.num
          BY <5>1 DEF Buffer
        <5> QED BY <5>1, <5>2 DEF Count, Reorderer, Buffer
      <4>2. r = Settle(u, sn, beyond)
        BY <3>1, <3>3, <4>1
      <4> QED BY <2>4, <2>6, <3>3, <4>2
    <3> QED BY <3>2, <3>3
  <2>11. CASE ~TooOld(s, sn) /\ f.part # 0 /\ f.part \notin Parts(list) /\ ReleaseReady(Append(list, f))
    <3>1. r = IF IsTainted(Append(list, f)) THEN Settle(gone, sn, beyond)
              ELSE Place(v, sn, beyond)
      BY <2>3, <2>11
    <3>2. Filled(v, sn) /\ v.ref = t.ref /\ v.timer = t.timer /\ v.todo = t.todo
          /\ v.tid.buf = u.tid.buf /\ v.tid # None /\ v.skew = t.skew
      <4>1. CASE list = <<>>
        <5>1. u \in Reorderer /\ u.tid \in Buffer
          BY <2>4, <4>1 DEF Filled
        <5>2. Count(u, 0) = u
          <6>1. u.tid.num + 0 = u.tid.num
            BY <5>1 DEF Buffer
          <6> QED BY <5>1, <6>1 DEF Count, Reorderer, Buffer
        <5>3. v = u
          BY <4>1, <5>2
        <5> QED BY <2>4, <4>1, <5>3
      <4>2. CASE list # <<>>
        <5>1. v = Count(u, -1)
          BY <4>2
        <5> HIDE DEF v
        <5>2. v.tid # None
          BY <2>4, <4>2, <5>1, BufferIs DEF Filled
        <5> QED BY <2>4, <4>2, <5>1, <5>2
      <4> QED BY <4>1, <4>2
    <3> HIDE DEF v, list
    <3>3. CASE IsTainted(Append(list, f))
      <4> DEFINE g == IF sn = t.tid.start THEN Advance(Emptied(v, sn)).skew ELSE 1
      <4>1. gone = [Advance(Emptied(v, sn)) EXCEPT !.skew = g]
        OBVIOUS
      <4>2. g \in 0..1 /\ (v.skew = 1 => g = 1)
        <5>1. v \in Reorderer
          BY <3>2 DEF Filled
        <5>2. Advance(Emptied(v, sn)).skew = v.skew /\ v.skew \in 0..1
          BY <5>1 DEF Advance, Emptied, Reorderer
        <5> QED BY <5>2
      <4> HIDE DEF g, gone
      <4>3. /\ Live(gone) /\ gone.ref = v.ref /\ gone.tid.ref = v.ref /\ gone.timer = v.timer
            /\ gone.todo = v.todo /\ gone.tid.buf = Less1(v.tid, Slot(sn))
            /\ gone.skew = g
        <5>1. gone = Purged(v, sn, g)
          BY <4>1 DEF Purged
        <5> HIDE DEF sn
        <5>2. Filled(v, sn) /\ sn \in Nat /\ g \in 0..1
          BY <1>0, <3>2, <4>2
        <5> DEFINE w == Purged(v, sn, g)
        <5>3. /\ Live(w) /\ w.ref = v.ref /\ w.tid.ref = v.ref /\ w.timer = v.timer
              /\ w.todo = v.todo /\ w.tid.buf = Less1(v.tid, Slot(sn)) /\ w.skew = g
          BY <5>2, PurgeIs
        <5> HIDE DEF w
        <5> QED BY <5>1, <5>3 DEF w
      <4>4. Waits(s) => beyond \/ Asked(gone) \/ NoFrames(gone)
        <5>1. Waits(s) /\ ~beyond => Asked(t) \/ NoFrames(t)
          BY <1>2, <2>2 DEF Waits
        <5>2. Asked(t) => Asked(gone)
          BY <3>2, <4>3 DEF Asked
        <5>3. NoFrames(t) => NoFrames(gone)
          <6> SUFFICES ASSUME NoFrames(t), NEW i \in Slots PROVE gone.tid.buf[i] = <<>>
            BY DEF NoFrames
          <6>1. v.tid.buf \in [Slots -> Seq(Frame)]
            BY <3>2 DEF Filled, Buffer
          <6>2. CASE i = Slot(sn)
            BY <4>3, <6>1, <6>2 DEF Less1
          <6>3. CASE i # Slot(sn)
            <7>1. gone.tid.buf[i] = v.tid.buf[i]
              BY <4>3, <6>1, <6>3 DEF Less1
            <7> QED BY <7>1, <2>4, <3>2, <6>3 DEF NoFrames
          <6> QED BY <6>2, <6>3
        <5> QED BY <5>1, <5>2, <5>3
      <4>5. r = Settle(gone, sn, beyond)
        BY <3>1, <3>3
      <4> QED BY <2>6, <3>2, <4>3, <4>4, <4>5, <4>2
    <3>4. CASE ~IsTainted(Append(list, f))
      <4>1. r = Place(v, sn, beyond)
        BY <3>1, <3>4
      <4>2. Handled(v, r, TRUE)
        BY <1>0, <3>2, <4>1, PlaceIs
      <4>3. Handled(s, r, TRUE)
        BY <2>5, <3>2, <4>2
      <4> QED BY <4>3 DEF Handled
    <3> QED BY <3>3, <3>4
  <2>12. Parts(<<>>) = {}
    BY DEF Parts
  <2> HIDE DEF list
  <2>13. list # <<>> \/ f.part \notin Parts(list)
    BY <2>12
  <2> QED BY <2>7, <2>8, <2>9, <2>10, <2>11, <2>13
<1> QED BY <1>1, <1>2

\* skw_rx_todo: the request is served, and what stays behind is waited for.
LEMMA RunTodoIs ==
  ASSUME NEW s, Own(s)
  PROVE  Handled(s, RunTodo(s), Waits(s))
<1>1. s \in Reorderer /\ s.todo \in Todo
  BY DEF Own, Sound, Reorderer
<1>2. CASE s.todo.active = 0
  <2>1. RunTodo(s) = s
    BY <1>2 DEF RunTodo
  <2> QED BY <2>1 DEF Handled
<1> DEFINE t == IF s.tid = None THEN s ELSE ForceRelease(s, s.todo.seq)
           todo == [t.todo EXCEPT !.active = 0]
           u == [t EXCEPT !.todo.active = 0]
<1>3. CASE s.todo.active # 0
  <2>1. t \in Reorderer /\ Own(t) /\ t.todo = s.todo /\ t.ref = s.ref /\ (t.tid = None <=> s.tid = None)
        /\ t.timer.ref = s.timer.ref /\ t.skew = s.skew
    <3>1. CASE s.tid = None
      <4>1. t = s
        BY <3>1
      <4> HIDE DEF t
      <4> QED BY <1>1, <4>1
    <3>2. CASE s.tid # None
      <4>1. t = ForceRelease(s, s.todo.seq)
        BY <3>2
      <4>2. Live(s) /\ s.ref = s.tid.ref /\ s.todo.seq \in Nat
        BY <1>1, <3>2, OwnLive DEF Todo
      <4> HIDE DEF t
      <4>3. ForceReleased(s, t, s.todo.seq)
        BY <4>1, <4>2, ForceReleaseIs
      <4> QED BY <3>2, <4>2, <4>3, LiveBuffer DEF ForceReleased, Own, Live
    <3> QED BY <3>1, <3>2
  <2>2. RunTodo(s) = Release(u)
    BY <1>3 DEF RunTodo
  <2> HIDE DEF t
  <2>3. todo \in Todo /\ u = [t EXCEPT !.todo = todo]
    BY <1>1, <2>1 DEF Todo, Reorderer
  <2> HIDE DEF todo
  <2>4. u \in Reorderer /\ u.tid = t.tid /\ u.ref = t.ref /\ u.timer = t.timer /\ u.skew = t.skew
    <3> HIDE DEF u
    <3> QED BY <2>1, <2>3 DEF Reorderer
  <2> HIDE DEF u
  <2>5. Own(u)
    BY <2>1, <2>4 DEF Own, Sound
  <2>6. Handled(u, Release(u), TRUE)
    <3>1. CASE u.tid = None
      <4>1. Release(u) = u
        BY <3>1 DEF Release
      <4> QED BY <2>5, <3>1, <4>1 DEF Handled, Waits
    <3>2. CASE u.tid # None
      BY <2>5, <3>2, OwnLive, ReleaseIs, LiveOwn
    <3> QED BY <3>1, <3>2
  <2> QED BY <2>1, <2>2, <2>4, <2>6 DEF Handled
<1> QED BY <1>1, <1>2, <1>3 DEF Todo

LEMMA HandleIs ==
  ASSUME NEW s, Own(s), NEW f \in Frame
  PROVE  Handled(s, RunTodo(Reorder(s, f)), Waits(s))
<1> DEFINE r == Reorder(s, f)
<1>1. Handled(s, r, Waits(s))
  BY ReorderIs
<1> HIDE DEF r
<1>2. Handled(r, RunTodo(r), Waits(r))
  BY <1>1, RunTodoIs DEF Handled
<1>3. Handled(s, RunTodo(r), Waits(s))
  BY <1>1, <1>2 DEF Handled
<1> QED BY <1>3 DEF r
-----------------------------------------------------------------------------
(* The invariant *)

Inv ==
  /\ Own(rx) /\ rx.out = <<>> /\ rx.ref = sessions
  /\ firing \in 0..1 /\ (firing = 1 => rx.timer.ref = rx.ref)
  /\ Waits(rx) \/ firing = 1
  /\ old # None => old \in Buffer /\ Counted(old) /\ old.ref < rx.ref
  /\ aged \subseteq Stored(rx.tid) /\ stale \subseteq aged
  /\ base \in 0..MaxFrame + 1
  /\ lost \in Nat /\ dups \in Nat /\ jumps \in Nat /\ bars \in Nat
  /\ lost + dups + jumps + bars + sessions <= MaxTrouble

\* The invariant as it is checked follows.
LEMMA StoredFrames == ASSUME NEW s, Own(s), Waits(s) PROVE Stored(s.tid) = {} \/ Asked(s)
<1>1. CASE s.tid = None
  BY <1>1 DEF Stored, Frames
<1>2. CASE NoFrames(s) /\ s.tid # None
  <2>1. \A i \in Slots : DOMAIN s.tid.buf[i] = {}
    BY <1>2 DEF NoFrames
  <2> QED BY <1>2, <2>1 DEF Stored, Frames
<1> QED BY <1>1, <1>2 DEF Waits

LEMMA InvTypes == Inv => TypeOK /\ FramesAreKept
<1> SUFFICES ASSUME Inv PROVE TypeOK /\ FramesAreKept
  OBVIOUS
<1>0. MaxTrouble \in Nat /\ WinSize \in Nat
  BY Sizes
<1>1. rx \in Reorderer /\ rx.ref \in Nat /\ rx.timer.due <= rx.timer.pending
  BY DEF Inv, Own, Sound, Reorderer
<1>2. \A t \in {rx.tid, old} \ {None} : t \in Buffer /\ Counted(t) /\ t.ref <= sessions
  <2>1. rx.tid # None => rx.tid \in Buffer /\ Counted(rx.tid) /\ rx.tid.ref = rx.ref
    BY <1>1 DEF Inv, Own, Sound, Reorderer
  <2>2. old # None => old \in Buffer /\ Counted(old) /\ old.ref < rx.ref /\ old.ref \in Nat
    BY DEF Inv, Buffer
  <2> QED BY <1>1, <2>1, <2>2 DEF Inv
<1>3. ASSUME NEW t \in {rx.tid, old} \ {None} PROVE t.num \in t.slip..t.slip + WinSize
  <2>1. Cardinality(Used(t)) \in Nat /\ Cardinality(Used(t)) <= WinSize
    BY UsedFinite
  <2>2. t.num = Cardinality(Used(t)) + t.slip /\ t.slip \in Nat
    BY <1>2 DEF Counted, Buffer
  <2> QED BY <1>0, <2>1, <2>2
<1>4. lost + dups + jumps + bars + sessions \in 0..MaxTrouble
  BY <1>0, <1>1 DEF Inv
<1>5. old \in Buffer \cup {None}
  BY DEF Inv
<1>6. TypeOK
  BY <1>1, <1>2, <1>3, <1>4, <1>5 DEF Inv, TypeOK
<1>7. StoredCounted
  BY <1>2 DEF StoredCounted, Counted, Used
<1>8. StoredIsTimed
  BY StoredFrames DEF StoredIsTimed, Inv, Asked
<1> QED BY <1>6, <1>7, <1>8 DEF FramesAreKept

LEMMA FirstState == Init => Inv
<1> SUFFICES ASSUME Init PROVE Inv
  OBVIOUS
<1>0. SnMod \in Nat /\ FirstSn \in Nat /\ MaxFrame \in Nat /\ MaxTrouble \in Nat
  BY Sizes
<1> DEFINE t == NewTid(FirstSn, 0)
<1>1. /\ rx = [tid |-> t, ref |-> 0, timer |-> NoTimer, todo |-> [active |-> 0, seq |-> 0],
               out |-> <<>>, gap |-> 0, skew |-> 0]
      /\ old = None /\ firing = 0 /\ aged = {} /\ stale = {} /\ base = 0
      /\ lost = 0 /\ dups = 0 /\ jumps = 0 /\ bars = 0 /\ sessions = 0
  BY DEF Init
<1>2. t \in Buffer /\ t.num = 0 /\ t.ref = 0 /\ t.slip = 0 /\ \A i \in Slots : t.buf[i] = <<>>
  BY <1>0 DEF NewTid, Buffer
<1>3. Counted(t)
  <2> HIDE DEF t
  <2>1. Used(t) = {}
    BY <1>2 DEF Used
  <2> QED BY <1>2, <2>1, FS_EmptySet DEF Counted
<1>4. NoTimer \in Timer /\ NoTimer.pending = 0 /\ NoTimer.due = 0
      /\ [active |-> 0, seq |-> 0] \in Todo /\ <<>> \in Seq(Frame)
  BY DEF NoTimer, Timer, Todo
<1> HIDE DEF t
<1>5. rx \in Reorderer /\ rx.tid = t /\ rx.timer = NoTimer /\ rx.ref = 0 /\ rx.out = <<>>
  BY <1>1, <1>2, <1>4 DEF Reorderer
<1>6. Own(rx)
  BY <1>2, <1>3, <1>4, <1>5 DEF Own, Sound
<1>7. Waits(rx)
  BY <1>2, <1>5 DEF Waits, NoFrames
<1> QED BY <1>0, <1>1, <1>5, <1>6, <1>7 DEF Inv

\* What the RX thread does keeps the invariant of the buffer, the timer and the list.
LEMMA BecomesIs ==
  ASSUME Inv, NEW r, Handled(rx, r, Waits(rx)), Becomes(r)
  PROVE  /\ Own(rx)' /\ (rx.out = <<>>)' /\ rx'.ref = rx.ref
         /\ rx'.timer.ref \in {rx.timer.ref, rx.ref}
         /\ Waits(rx) => Waits(rx)'
         /\ aged' \subseteq Stored(rx'.tid) /\ stale' \subseteq aged'
<1> DEFINE s == [r EXCEPT !.out = <<>>]
<1>1. Own(r) /\ r.ref = rx.ref /\ r.timer.ref \in {rx.timer.ref, rx.ref}
      /\ (Waits(rx) => Waits(r)) /\ r \in Reorderer
  BY DEF Handled, Own, Sound
<1>2. rx' = s /\ aged' = aged \cap Stored(r.tid) /\ stale' = stale \cap Stored(r.tid)
  BY DEF Becomes
<1>3. s \in Reorderer /\ s.tid = r.tid /\ s.ref = r.ref /\ s.timer = r.timer /\ s.todo = r.todo
      /\ s.out = <<>>
  <2>1. <<>> \in Seq(Frame)
    OBVIOUS
  <2> QED BY <1>1, <2>1 DEF Reorderer
<1> HIDE DEF s
<1>4. Own(s) /\ (Waits(r) => Waits(s))
  BY <1>1, <1>3 DEF Own, Sound, Waits, NoFrames, Asked
<1>5. stale \subseteq aged
  BY DEF Inv
<1>6. Own(rx') /\ rx'.out = <<>> /\ (Waits(rx) => Waits(rx'))
  BY <1>1, <1>2, <1>3, <1>4
<1> QED BY <1>1, <1>2, <1>3, <1>5, <1>6 DEF Own, Sound, Counted, Used, Waits, NoFrames, Asked

\* The window of the sender is a set of frames.
LEMMA WindowIs == ASSUME Inv, NEW n \in Window PROVE n \in 0..MaxFrame
<1>1. base \in Nat /\ MaxFrame \in Nat /\ WinSize \in Nat
  BY Sizes DEF Inv
<1> QED BY <1>1 DEF Window

LEMMA HandleKeeps ==
  ASSUME Inv, NEW n \in Window, NEW p \in PartsOf(n), NEW m \in BOOLEAN,
         Handle([n |-> n, part |-> p, made |-> m])
  PROVE  /\ Own(rx)' /\ (rx.out = <<>>)' /\ rx'.ref = rx.ref
         /\ rx'.timer.ref \in {rx.timer.ref, rx.ref}
         /\ Waits(rx) => Waits(rx)'
         /\ aged' \subseteq Stored(rx'.tid) /\ stale' \subseteq aged'
<1> DEFINE f == [n |-> n, part |-> p, made |-> m]
           r == RunTodo(Reorder(rx, f))
<1>1. f \in Frame
  <2>1. n \in 0..MaxFrame /\ p \in 0..2
    BY WindowIs DEF PartsOf
  <2> QED BY <2>1 DEF Frame
<1> HIDE DEF f
<1>2. Handled(rx, r, Waits(rx))
  BY <1>1, HandleIs DEF Inv
<1>3. Becomes(r)
  BY DEF Handle, f
<1> HIDE DEF r
<1> QED BY <1>2, <1>3, BecomesIs

LEMMA ReceiveKeeps == Inv /\ Receive => Inv'
<1> SUFFICES ASSUME Inv, Receive PROVE Inv'
  OBVIOUS
<1>0. PICK n \in Window : \E p \in PartsOf(n) :
        Arrive(n, p) \/ ArriveAgain(n, p) \/ ReportDropped(n, p)
  BY DEF Receive
<1>1. PICK p \in PartsOf(n) : Arrive(n, p) \/ ArriveAgain(n, p) \/ ReportDropped(n, p)
  BY <1>0
<1>2. \E m \in BOOLEAN : Handle([n |-> n, part |-> p, made |-> m])
  BY <1>1 DEF Arrive, ArriveAgain, ReportDropped
<1>3. /\ Own(rx)' /\ (rx.out = <<>>)' /\ rx'.ref = rx.ref
      /\ rx'.timer.ref \in {rx.timer.ref, rx.ref}
      /\ Waits(rx) => Waits(rx)'
      /\ aged' \subseteq Stored(rx'.tid) /\ stale' \subseteq aged'
  BY <1>2, HandleKeeps
<1>4. /\ UNCHANGED <<old, firing, base, jumps, bars, sessions>>
      /\ lost' \in Nat /\ dups' \in Nat
      /\ lost' + dups' + jumps' + bars' + sessions' <= MaxTrouble
  <2>1. MaxTrouble \in Nat /\ sessions \in Nat
    BY Sizes DEF Inv, Own, Sound, Reorderer
  <2> QED BY <1>1, <2>1 DEF Arrive, ArriveAgain, ReportDropped, Calm, Inv
<1> QED BY <1>3, <1>4 DEF Inv, Counted, Used

LEMMA WorkTodoKeeps == Inv /\ WorkTodo => Inv'
<1> SUFFICES ASSUME Inv, WorkTodo PROVE Inv'
  OBVIOUS
<1> DEFINE r == RunTodo(rx)
<1>1. Handled(rx, r, Waits(rx))
  BY RunTodoIs DEF Inv
<1>2. Becomes(r) /\ UNCHANGED <<old, firing, sender>>
  BY DEF WorkTodo
<1> HIDE DEF r
<1>3. /\ Own(rx)' /\ (rx.out = <<>>)' /\ rx'.ref = rx.ref
      /\ rx'.timer.ref \in {rx.timer.ref, rx.ref}
      /\ Waits(rx) => Waits(rx)'
      /\ aged' \subseteq Stored(rx'.tid) /\ stale' \subseteq aged'
  BY <1>1, <1>2, BecomesIs
<1> QED BY <1>2, <1>3 DEF Inv, Counted, Used, sender

\* A buffer that is not that of the session is emptied: its timer is left alone.
LEMMA FreeTidKeeps == Inv /\ FreeTid => Inv'
<1> SUFFICES ASSUME Inv, FreeTid PROVE Inv'
  OBVIOUS
<1> DEFINE last == (old.start + WinSize - 1) % SnMod
           s == [rx EXCEPT !.tid = old]
           d == ForceRelease(s, last)
           r == [d EXCEPT !.tid = rx.tid]
<1>1. /\ old # None /\ old' = None /\ Becomes(r) /\ UNCHANGED <<firing, sender>>
  BY DEF FreeTid
<1>2. rx \in Reorderer /\ rx.timer.due <= rx.timer.pending /\ (rx.timer.pending = 1 => rx.timer.ref = rx.ref)
      /\ old \in Buffer /\ Counted(old) /\ old.ref # rx.ref
  BY <1>1 DEF Inv, Own, Sound, Buffer, Reorderer
<1>3. last \in Nat
  <2>1. old.start + WinSize - 1 \in Int /\ SnMod \in Nat /\ SnMod > 0
    BY <1>2, Sizes DEF Buffer
  <2>2. last \in 0..SnMod - 1
    BY <2>1, ModIs
  <2> HIDE DEF last
  <2> QED BY <2>1, <2>2
<1>4. s \in Reorderer /\ s.tid = old /\ s.ref = rx.ref /\ s.timer = rx.timer /\ s.todo = rx.todo
      /\ s.skew = rx.skew
  BY <1>2 DEF Reorderer
<1> HIDE DEF s, last
<1>5. Live(s)
  BY <1>1, <1>2, <1>4 DEF Live, Sound
<1>6. ForceReleased(s, d, last)
  BY <1>3, <1>5, ForceReleaseIs
<1> HIDE DEF d
<1>7. d \in Reorderer /\ d.ref = rx.ref /\ d.todo = rx.todo /\ d.timer = rx.timer /\ d.skew = rx.skew
  BY <1>2, <1>4, <1>6, LiveBuffer DEF ForceReleased
<1>8. r \in Reorderer /\ r.tid = rx.tid /\ r.ref = rx.ref /\ r.todo = rx.todo /\ r.timer = rx.timer
      /\ r.skew = rx.skew
  BY <1>2, <1>7 DEF Reorderer
<1> HIDE DEF r
<1>9. Handled(rx, r, Waits(rx))
  BY <1>8 DEF Handled, Inv, Own, Sound, Waits, NoFrames, Asked
<1>10. /\ Own(rx)' /\ (rx.out = <<>>)' /\ rx'.ref = rx.ref
       /\ rx'.timer.ref \in {rx.timer.ref, rx.ref}
       /\ Waits(rx) => Waits(rx)'
       /\ aged' \subseteq Stored(rx'.tid) /\ stale' \subseteq aged'
  BY <1>1, <1>9, BecomesIs
<1> QED BY <1>1, <1>10 DEF Inv, Counted, Used, sender

\* The timer, the list and the session: everything that leaves the stored frames alone.
LEMMA RxIs ==
  ASSUME Inv
  PROVE  /\ rx \in Reorderer /\ rx.timer \in Timer /\ rx.todo \in Todo /\ rx.ref \in Nat
         /\ rx.timer.due <= rx.timer.pending
         /\ rx.timer.pending = 1 => rx.timer.ref = rx.ref
         /\ rx.tid # None => rx.tid \in Buffer /\ Counted(rx.tid) /\ rx.tid.ref = rx.ref
         /\ MaxTrouble \in Nat
  BY Sizes DEF Inv, Own, Sound, Reorderer

\* The reorderer with another timer and another request.
LEMMA TimedIs ==
  ASSUME Inv, NEW m \in Timer, NEW o \in Todo, m.due <= m.pending, m.pending = 1 => m.ref = rx.ref
  PROVE  LET s == [rx EXCEPT !.timer = m, !.todo = o]
         IN  /\ Own(s) /\ s.tid = rx.tid /\ s.ref = rx.ref /\ s.timer = m /\ s.todo = o
             /\ s.out = rx.out
<1> DEFINE s == [rx EXCEPT !.timer = m, !.todo = o]
<1>1. s \in Reorderer /\ s.tid = rx.tid /\ s.ref = rx.ref /\ s.timer = m /\ s.todo = o
      /\ s.out = rx.out
  BY RxIs DEF Reorderer
<1> HIDE DEF s
<1>2. Own(s)
  BY <1>1, RxIs DEF Own, Sound
<1> QED BY <1>1, <1>2 DEF s

LEMMA TickKeeps == Inv /\ Tick => Inv'
<1> SUFFICES ASSUME Inv, Tick PROVE Inv'
  OBVIOUS
<1> DEFINE m == [rx.timer EXCEPT !.due = rx.timer.pending]
           s == [rx EXCEPT !.timer = m, !.todo = rx.todo]
<1>1. m \in Timer /\ m.due = m.pending /\ m.pending = rx.timer.pending /\ m.ref = rx.timer.ref
  BY RxIs DEF Timer
<1>2. rx' = s
  BY RxIs DEF Tick, Reorderer
<1>3. m.due <= m.pending /\ rx.todo \in Todo
  BY <1>1, RxIs DEF Timer
<1> HIDE DEF m
<1>4. Own(s) /\ s.tid = rx.tid /\ s.ref = rx.ref /\ s.timer = m /\ s.todo = rx.todo
      /\ s.out = rx.out
  BY <1>1, <1>3, RxIs, TimedIs
<1> HIDE DEF s
<1>5. Waits(rx) => Waits(s)
  BY <1>1, <1>4 DEF Waits, NoFrames, Asked
<1>6. aged' = Stored(s.tid) /\ UNCHANGED <<stack, old, firing, stale, sender>>
  BY <1>4 DEF Tick
<1>7. stale \subseteq Stored(s.tid)
  BY <1>4 DEF Inv
<1> QED BY <1>1, <1>2, <1>4, <1>5, <1>6, <1>7 DEF Inv, Own, Sound, Counted, Used, sender, Waits, NoFrames, Asked

LEMMA ExpireKeeps == Inv /\ Expire => Inv'
<1> SUFFICES ASSUME Inv, Expire PROVE Inv'
  OBVIOUS
<1> DEFINE s == DelTimer(rx)
<1>1. rx' = s /\ rx.timer.due = 1 /\ firing = 0 /\ firing' = 1
      /\ UNCHANGED <<old, aged, stale, sender>>
  BY DEF Expire
<1>2. Sound(s) /\ s.timer.ref = rx.timer.ref /\ s.tid = rx.tid /\ s.ref = rx.ref /\ s.out = rx.out
  BY DelTimerKeeps DEF Inv, Own
<1>3. rx.timer.ref = rx.ref
  BY <1>1, RxIs DEF Timer
<1> HIDE DEF s
<1>4. Own(s)
  BY <1>2 DEF Own, Inv
<1> QED BY <1>1, <1>2, <1>3, <1>4 DEF Inv, Own, Sound, Counted, Used, sender

LEMMA ReorderTimeoutKeeps == Inv /\ ReorderTimeout => Inv'
<1> SUFFICES ASSUME Inv, ReorderTimeout PROVE Inv'
  OBVIOUS
<1> DEFINE o == IF rx.todo.active = 1 THEN rx.todo ELSE [active |-> 1, seq |-> rx.timer.sn]
           s == [rx EXCEPT !.timer = rx.timer, !.todo = o]
<1>1. o \in Todo /\ o.active = 1
  <2>1. [active |-> 1, seq |-> rx.timer.sn] \in Todo
    BY RxIs DEF Timer, Todo
  <2> QED BY <2>1, RxIs
<1>2. /\ rx' = IF rx.ref = rx.timer.ref THEN AskFor(rx.timer.sn) ELSE rx
      /\ firing = 1 /\ firing' = 0 /\ UNCHANGED <<old, aged, stale, sender>>
  BY DEF ReorderTimeout
<1>3. rx' = s
  <2>1. AskFor(rx.timer.sn) = [rx EXCEPT !.todo = o]
    BY DEF AskFor
  <2>2. rx.ref = rx.timer.ref
    BY <1>2 DEF Inv
  <2> HIDE DEF o
  <2> QED BY <1>2, <2>1, <2>2, RxIs DEF Reorderer
<1> HIDE DEF o
<1>4. Own(s) /\ s.tid = rx.tid /\ s.ref = rx.ref /\ s.timer = rx.timer /\ s.todo = o
      /\ s.out = rx.out
  BY <1>1, RxIs, TimedIs
<1> HIDE DEF s
<1>5. Waits(s)
  BY <1>1, <1>4 DEF Waits, Asked
<1>6. Own(rx)' /\ Waits(rx)' /\ rx'.tid = rx.tid /\ rx'.ref = rx.ref /\ rx'.out = rx.out
  BY <1>3, <1>4, <1>5 DEF Own, Sound, Counted, Used, Waits, NoFrames, Asked
<1> QED BY <1>2, <1>6 DEF Inv, Counted, Used, sender

LEMMA UpdateTidKeeps == Inv /\ UpdateTid => Inv'
<1> SUFFICES ASSUME Inv, UpdateTid PROVE Inv'
  OBVIOUS
<1> DEFINE o == [active |-> 1, seq |-> SnOf(base)]
           s == [rx EXCEPT !.timer = rx.timer, !.todo = o]
<1>1. o \in Todo
  <2>1. base + FirstSn \in Int /\ SnMod \in Nat /\ SnMod > 0
    BY Sizes DEF Inv
  <2>2. SnOf(base) \in 0..SnMod - 1
    BY <2>1, ModIs DEF SnOf
  <2> QED BY <2>1, <2>2 DEF Todo
<1>2. rx' = s
  BY RxIs DEF UpdateTid, Reorderer
<1> HIDE DEF o
<1>3. Own(s) /\ s.tid = rx.tid /\ s.ref = rx.ref /\ s.timer = rx.timer /\ s.todo = o
      /\ s.out = rx.out
  BY <1>1, RxIs, TimedIs
<1> HIDE DEF s
<1>4. Waits(s)
  BY <1>3 DEF Waits, Asked, o
<1>5. /\ UNCHANGED <<old, firing, aged, stale, base, lost, dups, jumps, sessions>>
      /\ bars' \in Nat /\ lost + dups + jumps + bars' + sessions <= MaxTrouble
  <2>1. sessions \in Nat
    BY RxIs DEF Inv
  <2> QED BY <2>1, RxIs DEF UpdateTid, Calm, Inv
<1> QED BY <1>2, <1>3, <1>4, <1>5 DEF Inv, Own, Sound, Counted, Used, Waits, NoFrames, Asked

LEMMA DelTidKeeps == Inv /\ DelTid => Inv'
<1> SUFFICES ASSUME Inv, DelTid PROVE Inv'
  OBVIOUS
<1> DEFINE s == [rx EXCEPT !.tid = None, !.ref = @ + 1]
           d == DelTimer(s)
<1>1. s \in Reorderer /\ s.tid = None /\ s.ref = rx.ref + 1 /\ s.timer = rx.timer /\ s.out = rx.out
  <2>1. rx \in Reorderer /\ rx.ref + 1 \in Nat /\ None \in Buffer \cup {None}
    BY RxIs
  <2> QED BY <2>1 DEF Reorderer
<1>2. d = [s EXCEPT !.timer = [s.timer EXCEPT !.pending = 0, !.due = 0]]
  BY <1>1 DEF DelTimer, Reorderer
<1> DEFINE m == [s.timer EXCEPT !.pending = 0, !.due = 0]
<1>3. m \in Timer /\ m.pending = 0 /\ m.due = 0
  <2>1. s.timer \in Timer /\ 0 \in 0..1
    BY <1>1, RxIs
  <2> HIDE DEF s
  <2> QED BY <2>1 DEF Timer
<1> HIDE DEF s, m
<1>4. d \in Reorderer /\ d.tid = None /\ d.ref = rx.ref + 1 /\ d.timer = m /\ d.out = rx.out
  BY <1>1, <1>2, <1>3 DEF Reorderer, m
<1>5. /\ rx' = d /\ old' = rx.tid /\ firing = 0 /\ aged' = {} /\ stale' = {} /\ rx.tid # None
      /\ UNCHANGED <<firing, base, lost, dups, jumps, bars>>
      /\ sessions' = sessions + 1 /\ Calm
  BY DEF DelTid, s
<1> HIDE DEF d
<1>6. Own(d) /\ Waits(d)
  BY <1>3, <1>4 DEF Own, Sound, Waits
<1>7. lost + dups + jumps + bars + sessions' <= MaxTrouble
  <2>1. sessions \in Nat
    BY RxIs DEF Inv
  <2> QED BY <1>5, <2>1, RxIs DEF Calm, Inv
<1>8. old' \in Buffer /\ Counted(old') /\ old'.ref < rx'.ref /\ rx'.ref = sessions'
  BY <1>4, <1>5, RxIs DEF Inv
<1> QED BY <1>4, <1>5, <1>6, <1>7, <1>8 DEF Inv, Own, Sound, Counted, Used, Waits

LEMMA AddTidKeeps == Inv /\ AddTid => Inv'
<1> SUFFICES ASSUME Inv, AddTid PROVE Inv'
  OBVIOUS
<1> DEFINE t == NewTid(SnOf(base), rx.ref)
           o == [rx.todo EXCEPT !.seq = 0]
           s == [rx EXCEPT !.tid = t, !.todo = o]
<1>1. SnOf(base) \in Nat
  <2>1. base + FirstSn \in Int /\ SnMod \in Nat /\ SnMod > 0
    BY Sizes DEF Inv
  <2>2. SnOf(base) \in 0..SnMod - 1
    BY <2>1, ModIs DEF SnOf
  <2> QED BY <2>1, <2>2
<1>2. t \in Buffer /\ t.num = 0 /\ t.ref = rx.ref /\ t.slip = 0 /\ \A i \in Slots : t.buf[i] = <<>>
  BY <1>1, RxIs DEF NewTid, Buffer
<1> HIDE DEF t
<1>3. Counted(t)
  <2>1. Used(t) = {}
    BY <1>2 DEF Used
  <2> QED BY <1>2, <2>1, FS_EmptySet DEF Counted
<1>4. rx' = s /\ rx.tid = None /\ UNCHANGED <<old, firing, aged, stale, sender>>
  <2>1. rx' = [rx EXCEPT !.tid = t, !.todo.seq = 0]
    BY DEF AddTid, t
  <2> QED BY <2>1, RxIs DEF AddTid, Reorderer
<1>5. o \in Todo
  BY RxIs DEF Todo
<1> HIDE DEF o
<1>6. s \in Reorderer /\ s.tid = t /\ s.ref = rx.ref /\ s.timer = rx.timer /\ s.out = rx.out
  BY <1>2, <1>5, RxIs DEF Reorderer
<1> HIDE DEF s
<1>7. Own(s) /\ Waits(s)
  BY <1>2, <1>3, <1>6, RxIs DEF Own, Sound, Waits, NoFrames
<1>8. aged = {}
  BY <1>4 DEF Inv, Stored, Frames
<1> QED BY <1>4, <1>6, <1>7, <1>8 DEF Inv, Own, Sound, Counted, Used, sender, Waits, NoFrames, Asked

LEMMA InvStep == Inv /\ [Next]_vars => Inv'
<1> SUFFICES ASSUME Inv, [Next]_vars PROVE Inv'
  OBVIOUS
<1>1. CASE LongTick
  BY <1>1 DEF LongTick, Inv, Own, Sound, Counted, Used, sender, Waits, NoFrames, Asked
<1>2. CASE SlideOn
  <2>1. /\ UNCHANGED <<rx, old, firing, aged, stale, dups, jumps, bars, sessions>>
        /\ base' \in 0..MaxFrame + 1 /\ lost' \in Nat
        /\ lost' + dups + jumps + bars + sessions <= MaxTrouble
    <3>1. sessions \in Nat /\ MaxFrame \in Nat
      BY RxIs, Sizes DEF Inv
    <3>2. /\ UNCHANGED <<rx, old, firing, aged, stale, dups, jumps, bars, sessions>>
          /\ base <= MaxFrame /\ base' = base + 1
          /\ lost' = lost \/ (Calm /\ lost' = lost + 1)
      BY <1>2 DEF SlideOn
    <3>3. base' \in 0..MaxFrame + 1
      BY <3>1, <3>2 DEF Inv
    <3>4. lost' \in Nat /\ lost' + dups + jumps + bars + sessions <= MaxTrouble
      BY <3>1, <3>2, RxIs DEF Calm, Inv
    <3> QED BY <3>2, <3>3, <3>4
  <2> QED BY <2>1 DEF Inv, Own, Sound, Counted, Used, Waits, NoFrames, Asked
<1>3. CASE Jump
  <2>1. /\ UNCHANGED <<rx, old, firing, aged, stale, lost, dups, bars, sessions>>
        /\ base' \in 0..MaxFrame + 1 /\ jumps' \in Nat
        /\ lost + dups + jumps' + bars + sessions <= MaxTrouble
    <3>1. sessions \in Nat /\ MaxFrame \in Nat /\ WinSize \in Nat
      BY RxIs, Sizes DEF Inv
    <3> QED BY <1>3, <3>1, RxIs DEF Jump, Calm, Inv
  <2> QED BY <2>1 DEF Inv, Own, Sound, Counted, Used, Waits, NoFrames, Asked
<1>4. CASE UNCHANGED vars
  BY <1>4 DEF vars, Inv, Own, Sound, Counted, Used, Waits, NoFrames, Asked
<1> QED
  BY <1>1, <1>2, <1>3, <1>4, ReceiveKeeps, WorkTodoKeeps, FreeTidKeeps, TickKeeps, ExpireKeeps,
     ReorderTimeoutKeeps, UpdateTidKeeps, DelTidKeeps, AddTidKeeps DEF Next, Idle

LEMMA SpecInv == Spec => []Inv
<1> QED BY FirstState, InvStep, PTL DEF Spec

\* Every variable of the reorder buffer has its type, stored_num stays in its
\* range, and only stored frames have an age.
THEOREM TypeCorrect == Spec => []TypeOK
<1>1. Inv => TypeOK
  BY InvTypes
<1> QED BY <1>1, SpecInv, PTL

\* No frame is forgotten: stored_num is the number of slots in use and, while one is
\* in use, the reorder timer runs or the RX thread has been asked to release.
THEOREM FramesKept == Spec => []FramesAreKept
<1>1. Inv => FramesAreKept
  BY InvTypes
<1> QED BY <1>1, SpecInv, PTL
-----------------------------------------------------------------------------
(* The place of the window *)

\* The driver's number x stands for frame number a.
Is(x, a) == \E k \in Int : x = a + FirstSn + SnMod * k

\* Fewer frames are sent than half the numbers there are.
Short == MaxFrame + 2 < SnMod \div 2

LEMMA IsSn == ASSUME NEW n \in Int PROVE Is(SnOf(n), n) /\ SnOf(n) \in Nat
<1>0. SnMod \in Nat /\ SnMod > 0 /\ FirstSn \in Int
  BY Sizes
<1>1. PICK q \in Int : n + FirstSn = SnMod * q + SnOf(n)
  BY <1>0, ModIs, n + FirstSn \in Int DEF SnOf
<1>2. SnOf(n) \in 0..SnMod - 1
  BY <1>0, ModIs, n + FirstSn \in Int DEF SnOf
<1>3. SnOf(n) = n + FirstSn + SnMod * (0 - q) /\ 0 - q \in Int
  BY <1>0, <1>1, <1>2
<1> QED BY <1>0, <1>2, <1>3 DEF Is

LEMMA IsPlus ==
  ASSUME NEW x \in Int, NEW a \in Int, Is(x, a), NEW d \in Int
  PROVE  Is(x + d, a + d) /\ Is((x + d) % SnMod, a + d)
<1>0. SnMod \in Nat /\ SnMod > 0 /\ FirstSn \in Int
  BY Sizes
<1>1. PICK k \in Int : x = a + FirstSn + SnMod * k
  BY DEF Is
<1>2. x + d = (a + d) + FirstSn + SnMod * k
  BY <1>0, <1>1
<1>3. PICK q \in Int : x + d = SnMod * q + ((x + d) % SnMod)
  BY <1>0, ModIs, x + d \in Int
<1>4. (x + d) % SnMod \in Int
  BY <1>0, ModIs, x + d \in Int
<1>5. (x + d) % SnMod = (a + d) + FirstSn + SnMod * (k - q) /\ k - q \in Int
  BY <1>0, <1>2, <1>3, <1>4
<1> QED BY <1>2, <1>5 DEF Is

LEMMA IsNext == ASSUME NEW x \in Int, NEW a \in Int, Is(x, a) PROVE Is(Next12(x), a + 1)
  BY IsPlus DEF Next12

\* Numbers less than half the number space apart are compared rightly.
LEMMA IsLess ==
  ASSUME NEW x \in Int, NEW y \in Int, NEW a \in Int, NEW b \in Int, Is(x, a), Is(y, b),
         a - b < SnMod \div 2, b - a < SnMod \div 2
  PROVE  Less(x, y) <=> a < b
<1>0. SnMod \in Nat /\ SnMod > 0 /\ FirstSn \in Int /\ SnMod \div 2 \in Nat
      /\ 2 * (SnMod \div 2) <= SnMod
  BY Sizes
<1>1. PICK k \in Int : x = a + FirstSn + SnMod * k
  BY DEF Is
<1>2. PICK l \in Int : y = b + FirstSn + SnMod * l
  BY DEF Is
<1>3. x - y = SnMod * (k - l) + (a - b)
  BY <1>0, <1>1, <1>2
<1>4. CASE a < b
  <2>1. SnMod + (a - b) \in 0..SnMod - 1 /\ k - l - 1 \in Int
    BY <1>0, <1>4
  <2>2. x - y = SnMod * (k - l - 1) + (SnMod + (a - b))
    BY <1>0, <1>3
  <2>3. (x - y) % SnMod = SnMod + (a - b)
    BY <1>0, <2>1, <2>2, ModUnique
  <2> QED BY <1>0, <1>4, <2>3 DEF Less
<1>5. CASE ~(a < b)
  <2>1. a - b \in 0..SnMod - 1 /\ k - l \in Int
    BY <1>0, <1>5
  <2>2. (x - y) % SnMod = a - b
    BY <1>0, <1>3, <2>1, ModUnique
  <2> QED BY <1>0, <1>5, <2>2 DEF Less
<1> QED BY <1>4, <1>5

\* A number stands for one frame only.
LEMMA IsOne ==
  ASSUME NEW x \in Int, NEW a \in Int, NEW b \in Int, Is(x, a), Is(x, b),
         a - b < SnMod \div 2, b - a < SnMod \div 2
  PROVE  a = b
<1>0. SnMod \in Nat /\ SnMod > 0 /\ FirstSn \in Int /\ SnMod \div 2 \in Nat
  BY Sizes
<1>1. Less(x, x) <=> a < b
  BY IsLess
<1>2. Less(x, x) <=> b < a
  BY IsLess
<1>3. (x - x) % SnMod = 0
  <2>1. x - x = SnMod * 0 + 0 /\ 0 \in 0..SnMod - 1
    BY <1>0
  <2> QED BY <1>0, <2>1, ModUnique
<1>4. ~Less(x, x)
  BY <1>0, <1>3 DEF Less
<1> QED BY <1>1, <1>2, <1>4

\* The slot of a number is that of the frame.
SlotOf(n) == Slot(n + FirstSn)

LEMMA IsSlot == ASSUME NEW x \in Int, NEW a \in Int, Is(x, a) PROVE Slot(x) = SlotOf(a)
<1>0. SnMod \in Nat /\ SnMod > 0 /\ WinSize \in Nat /\ WinSize > 0 /\ SnMod % WinSize = 0
      /\ FirstSn \in Int
  BY ReorderAssumption
<1>1. PICK k \in Int : x = a + FirstSn + SnMod * k
  BY DEF Is
<1>2. PICK c \in Int : SnMod = WinSize * c + 0
  BY <1>0, ModIs, SnMod \in Int
<1>3. x = (a + FirstSn) + WinSize * (c * k)
  BY <1>0, <1>1, <1>2
<1>4. c * k \in Int /\ a + FirstSn \in Int
  BY <1>0
<1>5. \A y \in Int, j \in Int : (y + WinSize * j) % WinSize = y % WinSize
  BY <1>0, ModShift
<1> QED BY <1>3, <1>4, <1>5 DEF Slot, SlotOf

LEMMA SlotOne ==
  ASSUME NEW s \in Int, NEW a \in Int, NEW b \in Int,
         s <= a, a < s + WinSize, s <= b, b < s + WinSize, SlotOf(a) = SlotOf(b)
  PROVE  a = b
<1>0. WinSize \in Nat /\ FirstSn \in Int /\ s + FirstSn \in Int
  BY Sizes
<1>1. a - s \in 0..WinSize - 1 /\ b - s \in 0..WinSize - 1
  BY <1>0
<1>2. (s + FirstSn) + (a - s) = a + FirstSn /\ (s + FirstSn) + (b - s) = b + FirstSn
  BY <1>0
<1>3. a - s = b - s
  <2> DEFINE c == s + FirstSn
  <2>1. \A i, j \in 0..WinSize - 1 : Slot(c + i) = Slot(c + j) => i = j
    BY <1>0, SlotsFrom
  <2>2. Slot(c + (a - s)) = Slot(c + (b - s))
    BY <1>2 DEF SlotOf
  <2> HIDE DEF c
  <2> QED BY <1>1, <2>1, <2>2
<1> QED BY <1>3
-----------------------------------------------------------------------------
(* What is in the window *)

\* Every frame has its slot, has arrived, and is there once; ever is what arrived.
Placed(buf, ever, at) ==
  \A i \in Slots : \A k \in DOMAIN buf[i] :
    LET f == buf[i][k]
    IN  /\ at <= f.n /\ f.n < at + WinSize /\ SlotOf(f.n) = i
        /\ <<f.n, f.part>> \in ever
        /\ \A l \in DOMAIN buf[i] : l # k => buf[i][l].part # f.part

Holds(buf, e) ==
  \E i \in Slots : \E k \in DOMAIN buf[i] : buf[i][k].n = e[1] /\ buf[i][k].part = e[2]

\* The window starts at frame number at; unless a slot was purged, what has
\* arrived from there on is in it.
InWindow(t, ever, at) ==
  /\ at \in 0..MaxFrame + 2 /\ Is(t.start, at)
  /\ Placed(t.buf, ever, at)
  /\ t.slip = 0 => \A e \in ever : e[1] >= at => Holds(t.buf, e)

Parcels == Nat \X (0..2)

\* The frames in the slot of the window start are those of the start.
LEMMA SlotHolds ==
  ASSUME NEW t \in Buffer, NEW ever, NEW at, InWindow(t, ever, at), NEW x \in Int, NEW n \in Int,
         Is(x, n), at <= n, n < at + WinSize
  PROVE  /\ Slot(x) \in Slots
         /\ \A k \in DOMAIN t.buf[Slot(x)] : t.buf[Slot(x)][k].n = n
<1>1. Slot(x) \in Slots /\ Slot(x) = SlotOf(n)
  BY SlotType, IsSlot
<1>2. at \in Int /\ MaxFrame \in Nat
  BY Sizes DEF InWindow
<1>3. ASSUME NEW k \in DOMAIN t.buf[Slot(x)] PROVE t.buf[Slot(x)][k].n = n
  <2> DEFINE m == t.buf[Slot(x)][k].n
  <2>1. at <= m /\ m < at + WinSize /\ SlotOf(m) = Slot(x)
    BY <1>1, <1>3 DEF InWindow, Placed
  <2>2. m \in Int
    <3>1. t.buf[Slot(x)] \in Seq(Frame)
      BY <1>1 DEF Buffer
    <3>2. t.buf[Slot(x)][k] \in Frame
      BY <1>3, <3>1
    <3> QED BY <1>2, <3>2 DEF Frame
  <2> HIDE DEF m
  <2>3. m = n
    BY <1>1, <1>2, <2>1, <2>2, SlotOne
  <2> QED BY <2>3 DEF m
<1> QED BY <1>1, <1>3

\* The slot of the window start is emptied and the window moves on.
LEMMA WindowNext ==
  ASSUME NEW t \in Buffer, NEW ever \in SUBSET Parcels, NEW at, InWindow(t, ever, at), at <= MaxFrame + 1,
         NEW u \in Buffer, u.start = Next12(t.start), u.slip = t.slip,
         NEW x \in Int, Is(x, at), u.buf = Less1(t, Slot(x))
  PROVE  InWindow(u, ever, at + 1)
<1> DEFINE k == Slot(x)
<1>0. at \in Nat /\ MaxFrame \in Nat /\ WinSize \in Nat /\ WinSize > 0 /\ t.start \in Int
  BY Sizes DEF InWindow, Buffer
<1>1. at + 1 \in 0..MaxFrame + 2
  BY <1>0
<1>2. Is(u.start, at + 1)
  BY <1>0, IsNext DEF InWindow
<1>3. k \in Slots /\ \A j \in DOMAIN t.buf[k] : t.buf[k][j].n = at
  BY <1>0, SlotHolds
<1> HIDE DEF k
<1>4. u.buf[k] = <<>> /\ \A i \in Slots : i # k => u.buf[i] = t.buf[i]
  BY <1>3 DEF Less1, Buffer, k
<1>5. SlotOf(at) = k
  BY <1>0, IsSlot DEF k
<1>6. ASSUME NEW i \in Slots, NEW j \in DOMAIN u.buf[i]
      PROVE  LET f == u.buf[i][j]
             IN  /\ at + 1 <= f.n /\ f.n < (at + 1) + WinSize /\ SlotOf(f.n) = i
                 /\ <<f.n, f.part>> \in ever
                 /\ \A l \in DOMAIN u.buf[i] : l # j => u.buf[i][l].part # f.part
  <2>1. i # k /\ u.buf[i] = t.buf[i]
    BY <1>4, <1>6
  <2> DEFINE f == t.buf[i][j]
  <2>2. /\ at <= f.n /\ f.n < at + WinSize /\ SlotOf(f.n) = i
        /\ <<f.n, f.part>> \in ever
        /\ \A l \in DOMAIN t.buf[i] : l # j => t.buf[i][l].part # f.part
    BY <1>6, <2>1 DEF InWindow, Placed
  <2>3. f.n \in Nat
    BY <2>2 DEF Parcels
  <2>4. f.n # at
    BY <1>5, <2>1, <2>2
  <2> HIDE DEF f
  <2>5. at + 1 <= f.n /\ f.n < (at + 1) + WinSize
    BY <1>0, <2>2, <2>3, <2>4
  <2> QED BY <2>1, <2>2, <2>5 DEF f
<1>7. ASSUME u.slip = 0, NEW e \in ever, e[1] >= at + 1 PROVE Holds(u.buf, e)
  <2>1. e[1] \in Nat /\ e[1] >= at /\ e[1] # at
    BY <1>0, <1>7 DEF Parcels
  <2>2. PICK i \in Slots : \E j \in DOMAIN t.buf[i] : t.buf[i][j].n = e[1] /\ t.buf[i][j].part = e[2]
    BY <1>7, <2>1 DEF InWindow, Holds
  <2>3. i # k
    BY <1>3, <2>1, <2>2
  <2> QED BY <1>4, <2>2, <2>3 DEF Holds
<1> QED BY <1>1, <1>2, <1>6, <1>7 DEF InWindow, Placed

\* An empty window is put elsewhere.
LEMMA WindowPut ==
  ASSUME NEW t \in Buffer, NEW ever \in SUBSET Parcels, NEW at, InWindow(t, ever, at),
         \A i \in Slots : t.buf[i] = <<>>, NEW to \in at..MaxFrame + 2,
         NEW u, u.buf = t.buf, u.slip = t.slip, Is(u.start, to)
  PROVE  InWindow(u, ever, to)
<1>0. at \in Nat /\ MaxFrame \in Nat
  BY Sizes DEF InWindow
<1>1. to \in 0..MaxFrame + 2 /\ to >= at
  BY <1>0
<1>2. Placed(u.buf, ever, to)
  BY DEF Placed
<1>3. ASSUME u.slip = 0, NEW e \in ever, e[1] >= to PROVE Holds(u.buf, e)
  <2>1. e[1] \in Nat /\ e[1] >= at
    BY <1>0, <1>1, <1>3 DEF Parcels
  <2> QED BY <1>3, <2>1 DEF InWindow
<1> QED BY <1>1, <1>2, <1>3 DEF InWindow

\* A slot is purged.
LEMMA WindowSlip ==
  ASSUME NEW t \in Buffer, NEW ever, NEW at, InWindow(t, ever, at),
         NEW u \in Buffer, u.start = t.start, u.slip = t.slip + 1, NEW k \in Slots, u.buf = Less1(t, k)
  PROVE  InWindow(u, ever, at)
<1>1. u.slip # 0
  BY DEF Buffer
<1>2. \A i \in Slots : u.buf[i] = t.buf[i] \/ u.buf[i] = <<>>
  BY DEF Less1, Buffer
<1>3. Placed(u.buf, ever, at)
  <2>1. Placed(t.buf, ever, at)
    BY DEF InWindow
  <2>2. ASSUME NEW i \in Slots, NEW j \in DOMAIN u.buf[i] PROVE u.buf[i] = t.buf[i]
    BY <1>2, <2>2
  <2> QED BY <2>1, <2>2 DEF Placed
<1> QED BY <1>1, <1>3 DEF InWindow

\* A part of a frame is stored.
LEMMA WindowFill ==
  ASSUME NEW t \in Buffer, NEW ever \in SUBSET Parcels, NEW at, InWindow(t, ever, at),
         NEW f \in Frame, at <= f.n, f.n < at + WinSize, NEW x \in Int, Is(x, f.n),
         \A k \in DOMAIN t.buf[Slot(x)] : t.buf[Slot(x)][k].part # f.part,
         NEW u, u.start = t.start, u.slip = t.slip,
         u.buf = [t.buf EXCEPT ![Slot(x)] = Append(t.buf[Slot(x)], f)]
  PROVE  InWindow(u, ever \cup {<<f.n, f.part>>}, at)
<1> DEFINE k == Slot(x)
           more == Append(t.buf[k], f)
           late2 == ever \cup {<<f.n, f.part>>}
<1>0. f.n \in Int /\ f.n \in Nat
  BY Sizes DEF Frame
<1>1. k \in Slots /\ k = SlotOf(f.n) /\ t.buf[k] \in Seq(Frame)
  <2>1. k \in Slots /\ k = SlotOf(f.n)
    BY <1>0, SlotType, IsSlot
  <2> HIDE DEF k
  <2> QED BY <2>1 DEF Buffer
<1> HIDE DEF k
<1>2. u.buf[k] = more /\ \A i \in Slots : i # k => u.buf[i] = t.buf[i]
  BY <1>1 DEF Buffer, k
<1>3. /\ DOMAIN more = 1..Len(t.buf[k]) + 1 /\ DOMAIN t.buf[k] = 1..Len(t.buf[k])
      /\ Len(t.buf[k]) \in Nat /\ more[Len(t.buf[k]) + 1] = f
      /\ \A j \in DOMAIN t.buf[k] : more[j] = t.buf[k][j]
  BY <1>1
<1> HIDE DEF more
<1>4. \A j \in DOMAIN more : j \in DOMAIN t.buf[k] \/ j = Len(t.buf[k]) + 1
  BY <1>3
<1>5. \A j \in DOMAIN t.buf[k] : t.buf[k][j].part # f.part
  BY DEF k
<1>6. Placed(t.buf, ever, at)
  BY DEF InWindow
<1>7. Placed(u.buf, late2, at)
  <2> SUFFICES ASSUME NEW i \in Slots, NEW j \in DOMAIN u.buf[i]
               PROVE  LET g == u.buf[i][j]
                      IN  /\ at <= g.n /\ g.n < at + WinSize /\ SlotOf(g.n) = i
                          /\ <<g.n, g.part>> \in late2
                          /\ \A l \in DOMAIN u.buf[i] : l # j => u.buf[i][l].part # g.part
    BY DEF Placed
  <2>1. CASE i # k
    <3> DEFINE g == t.buf[i][j]
    <3>1. u.buf[i] = t.buf[i]
      BY <1>2, <2>1
    <3>2. /\ at <= g.n /\ g.n < at + WinSize /\ SlotOf(g.n) = i
          /\ <<g.n, g.part>> \in ever
          /\ \A l \in DOMAIN t.buf[i] : l # j => t.buf[i][l].part # g.part
      BY <1>6, <3>1 DEF Placed
    <3> HIDE DEF g
    <3> QED BY <3>1, <3>2 DEF g
  <2>2. CASE i = k /\ j = Len(t.buf[k]) + 1
    <3>1. u.buf[i][j] = f
      BY <1>2, <1>3, <2>2
    <3>2. \A l \in DOMAIN u.buf[i] : l # j => u.buf[i][l].part # f.part
      BY <1>2, <1>3, <1>4, <1>5, <2>2
    <3> QED BY <1>1, <2>2, <3>1, <3>2
  <2>3. CASE i = k /\ j \in DOMAIN t.buf[k]
    <3> DEFINE g == t.buf[k][j]
    <3>1. u.buf[i][j] = g /\ u.buf[i] = more
      BY <1>2, <1>3, <2>3
    <3>2. /\ at <= g.n /\ g.n < at + WinSize /\ SlotOf(g.n) = k
          /\ <<g.n, g.part>> \in ever
          /\ \A l \in DOMAIN t.buf[k] : l # j => t.buf[k][l].part # g.part
      BY <1>1, <1>6, <2>3 DEF Placed
    <3>3. g.part # f.part
      BY <1>5, <2>3
    <3> HIDE DEF g
    <3>4. ASSUME NEW l \in DOMAIN u.buf[i], l # j PROVE u.buf[i][l].part # g.part
      <4>1. CASE l \in DOMAIN t.buf[k]
        BY <1>3, <3>1, <3>2, <3>4, <4>1
      <4>2. CASE l = Len(t.buf[k]) + 1
        BY <1>3, <3>1, <3>3, <4>2
      <4> QED BY <1>4, <3>1, <4>1, <4>2
    <3> QED BY <2>3, <3>1, <3>2, <3>4
  <2> QED BY <1>2, <1>4, <2>1, <2>2, <2>3
<1>8. ASSUME u.slip = 0, NEW e \in late2, e[1] >= at PROVE Holds(u.buf, e)
  <2>1. CASE e \in ever
    <3>1. PICK i \in Slots : \E j \in DOMAIN t.buf[i] : t.buf[i][j].n = e[1] /\ t.buf[i][j].part = e[2]
      BY <1>8, <2>1 DEF InWindow, Holds
    <3>2. PICK j \in DOMAIN t.buf[i] : t.buf[i][j].n = e[1] /\ t.buf[i][j].part = e[2]
      BY <3>1
    <3>3. j \in DOMAIN u.buf[i] /\ u.buf[i][j] = t.buf[i][j]
      BY <1>2, <1>3, <3>2
    <3> QED BY <3>2, <3>3 DEF Holds
  <2>2. CASE e = <<f.n, f.part>>
    <3>1. Len(t.buf[k]) + 1 \in DOMAIN u.buf[k] /\ u.buf[k][Len(t.buf[k]) + 1] = f
      BY <1>2, <1>3
    <3> QED BY <1>1, <2>2, <3>1 DEF Holds
  <2> QED BY <2>1, <2>2
<1> QED BY <1>7, <1>8 DEF InWindow

\* What has arrived already, or comes behind the window, changes nothing.
LEMMA WindowKnows ==
  ASSUME NEW t \in Buffer, NEW ever \in SUBSET Parcels, NEW at, InWindow(t, ever, at),
         NEW e \in Parcels, e[1] < at \/ Holds(t.buf, e)
  PROVE  InWindow(t, ever \cup {e}, at)
<1>0. at \in Nat
  BY Sizes DEF InWindow
<1>1. Placed(t.buf, ever \cup {e}, at)
  BY DEF InWindow, Placed
<1>2. ASSUME t.slip = 0, NEW d \in ever \cup {e}, d[1] >= at PROVE Holds(t.buf, d)
  <2>1. e[1] \in Nat
    BY DEF Parcels
  <2> QED BY <1>0, <1>2, <2>1 DEF InWindow
<1> QED BY <1>1, <1>2 DEF InWindow
-----------------------------------------------------------------------------
(* What goes up, and which numbers are kept *)

\* Frames in the order of their numbers, none twice.
Sorted(o, from, to) ==
  \A i \in DOMAIN o :
    /\ from <= o[i].n /\ o[i].n < to
    /\ \A j \in DOMAIN o :
         j < i => o[j].n < o[i].n \/ (o[j].n = o[i].n /\ o[j].part # o[i].part)

\* No part of a frame twice.
Distinct(l) == \A k, j \in DOMAIN l : k # j => l[k].part # l[j].part

LEMMA FramesIn ==
  ASSUME NEW o \in Seq(Frame)
  PROVE  \A i \in DOMAIN o : o[i].n \in Nat /\ o[i].n <= MaxFrame /\ o[i].part \in 0..2
<1>1. \A i \in DOMAIN o : o[i] \in Frame
  OBVIOUS
<1>2. \A f \in Frame : f.n \in 0..MaxFrame /\ f.part \in 0..2
  BY DEF Frame
<1> QED BY <1>1, <1>2, Sizes

LEMMA SortedMore ==
  ASSUME NEW o \in Seq(Frame), NEW from \in Nat, NEW to \in Nat, NEW more \in Nat, to <= more,
         Sorted(o, from, to)
  PROVE  Sorted(o, from, more)
<1>1. \A i \in DOMAIN o : o[i].n \in Nat
  BY FramesIn
<1> QED BY <1>1 DEF Sorted

LEMMA SortedAppend ==
  ASSUME NEW o \in Seq(Frame), NEW l \in Seq(Frame), NEW from \in Nat, NEW to \in Nat, from <= to,
         Sorted(o, from, to), \A k \in DOMAIN l : l[k].n = to,
         Distinct(l)
  PROVE  Sorted(o \o l, from, to + 1)
<1> DEFINE p == o \o l
<1>1. /\ DOMAIN p = 1..Len(o) + Len(l) /\ DOMAIN o = 1..Len(o) /\ DOMAIN l = 1..Len(l)
      /\ Len(o) \in Nat /\ Len(l) \in Nat
      /\ \A i \in DOMAIN o : p[i] = o[i]
      /\ \A i \in DOMAIN l : p[Len(o) + i] = l[i]
  OBVIOUS
<1>2. \A i \in DOMAIN o : o[i].n \in Nat
  BY FramesIn
<1> HIDE DEF p
<1>3. \A i \in DOMAIN p : i \in DOMAIN o \/ (i > Len(o) /\ i - Len(o) \in DOMAIN l /\ p[i] = l[i - Len(o)])
  <2> TAKE i \in DOMAIN p
  <2>1. i \in Int /\ (i \in DOMAIN o \/ i - Len(o) \in DOMAIN l)
    BY <1>1
  <2>2. i - Len(o) \in DOMAIN l => p[Len(o) + (i - Len(o))] = l[i - Len(o)]
    BY <1>1
  <2>3. Len(o) + (i - Len(o)) = i
    BY <1>1, <2>1
  <2>4. i \in DOMAIN o \/ i > Len(o)
    BY <1>1, <2>1
  <2> QED BY <2>1, <2>2, <2>3, <2>4
<1>4. ASSUME NEW i \in DOMAIN p
      PROVE  /\ from <= p[i].n /\ p[i].n < to + 1
             /\ \A j \in DOMAIN p :
                  j < i => p[j].n < p[i].n \/ (p[j].n = p[i].n /\ p[j].part # p[i].part)
  <2>1. CASE i \in DOMAIN o
    <3>1. from <= o[i].n /\ o[i].n < to + 1
      BY <1>2, <2>1 DEF Sorted
    <3>2. ASSUME NEW j \in DOMAIN p, j < i
          PROVE  p[j].n < p[i].n \/ (p[j].n = p[i].n /\ p[j].part # p[i].part)
      <4>1. j \in DOMAIN o
        BY <1>1, <2>1, <3>2
      <4> QED BY <1>1, <2>1, <3>2, <4>1 DEF Sorted
    <3> QED BY <1>1, <2>1, <3>1, <3>2
  <2>2. CASE i \notin DOMAIN o
    <3>1. i > Len(o) /\ i - Len(o) \in DOMAIN l /\ p[i] = l[i - Len(o)] /\ i \in Int
      BY <1>1, <1>3, <2>2
    <3>2. p[i].n = to
      BY <3>1
    <3>3. ASSUME NEW j \in DOMAIN p, j < i
          PROVE  p[j].n < p[i].n \/ (p[j].n = p[i].n /\ p[j].part # p[i].part)
      <4>1. CASE j \in DOMAIN o
        BY <1>1, <3>2, <4>1 DEF Sorted
      <4>2. CASE j \notin DOMAIN o
        <5>1. j - Len(o) \in DOMAIN l /\ p[j] = l[j - Len(o)] /\ j \in Int
          BY <1>1, <1>3, <4>2
        <5>2. j - Len(o) # i - Len(o)
          BY <1>1, <3>1, <3>3, <5>1
        <5> QED BY <3>1, <5>1, <5>2 DEF Distinct
      <4> QED BY <4>1, <4>2
    <3> QED BY <3>2, <3>3
  <2> QED BY <2>1, <2>2
<1> QED BY <1>4 DEF Sorted, p

\* A number somebody has kept is that of a frame or of the next one.
Some(x) == \E n \in 0..MaxFrame + 1 : Is(x, n)

Numbers(s) ==
  /\ s.timer.pending = 1 \/ firing = 1 => Some(s.timer.sn)
  /\ s.todo.active = 1 => Some(s.todo.seq)

\* The buffer of s and the frames on their way up are in order; the latter start
\* at frame number from, the window at at.
Ordered(s, ever, from, at) ==
  /\ at \in from..MaxFrame + 2
  /\ InWindow(s.tid, ever, at) /\ Sorted(s.out, from, at) /\ Numbers(s)

LEMMA DelTimerOrder ==
  ASSUME NEW s, Sound(s), Numbers(s), NEW b \in BOOLEAN
  PROVE  Numbers(DelTimer(s)) /\ Numbers(DelTimerIf(s, b))
<1> DEFINE r == DelTimer(s)
<1>1. r.timer.pending = 0 /\ r.todo = s.todo /\ r.timer.sn = s.timer.sn
  BY DelTimerKeeps
<1> HIDE DEF r
<1>2. Numbers(r)
  BY <1>1 DEF Numbers
<1> QED BY <1>2 DEF DelTimerIf, r

LEMMA SetTimerOrder ==
  ASSUME NEW s, Live(s), Numbers(s), NEW sn \in Nat, Some(sn)
  PROVE  Numbers(SetReorderTimer(s, sn))
<1> DEFINE r == SetReorderTimer(s, sn)
<1>1. /\ r.timer = s.timer \/ r.timer = [pending |-> 1, sn |-> sn, ref |-> s.ref, due |-> 0]
      /\ r.todo = s.todo \/ r.todo = [active |-> 1, seq |-> sn]
  BY SetTimerIs
<1> HIDE DEF r
<1>2. r.timer = s.timer \/ r.timer.sn = sn
  BY <1>1
<1>3. r.todo = s.todo \/ r.todo.seq = sn
  BY <1>1
<1> QED BY <1>2, <1>3 DEF Numbers, r

\* Bounds and types of what is in order.
LEMMA OrderedType ==
  ASSUME NEW s, Live(s), NEW ever, NEW from \in Nat, NEW at, Ordered(s, ever, from, at)
  PROVE  /\ at \in Nat /\ from <= at /\ at <= MaxFrame + 2 /\ s \in Reorderer /\ s.tid \in Buffer
         /\ s.tid.start \in Nat /\ s.out \in Seq(Frame) /\ Is(s.tid.start, at)
<1>1. at \in Nat /\ from <= at /\ at <= MaxFrame + 2
  BY Sizes DEF Ordered
<1> QED BY <1>1, LiveBuffer DEF Ordered, InWindow, Reorderer, Buffer

\* The list holds parts of frame n.
PartsOnly(l, n) ==
  /\ l \in Seq(Frame) /\ Distinct(l) /\ \A k \in DOMAIN l : l[k].n = n
  /\ l # <<>> => n \in 0..MaxFrame

\* The frames of a slot are parts of one frame.
LEMMA SlotOrder ==
  ASSUME NEW s, Live(s), NEW ever, NEW from \in Nat, NEW at, Ordered(s, ever, from, at),
         NEW x \in Nat, NEW n \in Nat, Is(x, n), at <= n, n < at + WinSize
  PROVE  PartsOnly(At(s, x), n)
<1> DEFINE l == s.tid.buf[Slot(x)]
<1>0. s.tid \in Buffer /\ InWindow(s.tid, ever, at)
  BY OrderedType DEF Ordered
<1>1. Slot(x) \in Slots /\ \A k \in DOMAIN l : l[k].n = n
  BY <1>0, SlotHolds
<1>2. l \in Seq(Frame)
  BY <1>0, <1>1 DEF Buffer
<1>3. Distinct(l)
  BY <1>0, <1>1 DEF InWindow, Placed, Distinct
<1>4. At(s, x) = l
  BY DEF At
<1> HIDE DEF l
<1>5. l # <<>> => n \in 0..MaxFrame
  <2> SUFFICES ASSUME l # <<>> PROVE n \in 0..MaxFrame
    OBVIOUS
  <2>1. 1 \in DOMAIN l /\ l[1] \in Frame
    BY <1>2
  <2> QED BY <1>1, <2>1 DEF Frame
<1>6. At(s, x) = l
  BY <1>4 DEF l
<1> QED BY <1>1, <1>2, <1>3, <1>5, <1>6 DEF PartsOnly

LEMMA FreeSlotOrder ==
  ASSUME NEW s, Live(s), NEW ever \in SUBSET Parcels, NEW from \in Nat, NEW at,
         Ordered(s, ever, from, at), at <= MaxFrame + 1
  PROVE  Ordered(FreeSlot(s), ever, from, at + 1)
<1> DEFINE r == FreeSlot(s)
           x == s.tid.start
<1>0. /\ at \in Nat /\ from <= at /\ at <= MaxFrame + 2 /\ s \in Reorderer /\ s.tid \in Buffer
      /\ x \in Nat /\ s.out \in Seq(Frame) /\ Is(x, at)
      /\ MaxFrame \in Nat /\ WinSize \in Nat /\ WinSize > 0
  BY OrderedType, Sizes
<1>1. PICK u \in Buffer, o \in Seq(Frame) :
        /\ FreeSlot(s) = With(s, u, o)
        /\ u.start = Next12(s.tid.start) /\ u.slip = s.tid.slip
        /\ u.buf = Less1(s.tid, Slot(s.tid.start))
        /\ o = s.out \/ o = s.out \o At(s, s.tid.start)
  BY FreeSlotIs
<1>2. r.tid = u /\ r.out = o /\ r.timer = s.timer /\ r.todo = s.todo
  BY <1>0, <1>1, WithIs
<1> HIDE DEF r
<1>3. InWindow(u, ever, at + 1)
  <2>1. InWindow(s.tid, ever, at)
    BY DEF Ordered
  <2>2. x \in Int /\ s.tid \in Buffer /\ u.start = Next12(s.tid.start) /\ u.slip = s.tid.slip
        /\ u.buf = Less1(s.tid, Slot(x)) /\ Is(x, at)
    BY <1>0, <1>1
  <2> HIDE DEF x
  <2> QED BY <2>1, <2>2, WindowNext
<1>4. Sorted(o, from, at + 1)
  <2>1. Sorted(s.out, from, at)
    BY DEF Ordered
  <2>2. CASE o = s.out
    BY <1>0, <2>1, <2>2, SortedMore
  <2>3. CASE o = s.out \o At(s, x)
    <3> DEFINE l == At(s, x)
    <3>1. l \in Seq(Frame) /\ Distinct(l) /\ \A k \in DOMAIN l : l[k].n = at
      <4>1. at <= at /\ at < at + WinSize /\ x \in Nat /\ at \in Nat /\ Is(x, at)
        BY <1>0
      <4> HIDE DEF x
      <4> QED BY <4>1, SlotOrder DEF PartsOnly
    <3> HIDE DEF l
    <3>2. Sorted(s.out \o l, from, at + 1)
      BY <1>0, <2>1, <3>1, SortedAppend
    <3> QED BY <2>3, <3>2 DEF l
  <2> QED BY <1>1, <2>2, <2>3
<1>5. Numbers(r)
  BY <1>2 DEF Ordered, Numbers
<1>6. at + 1 \in from..MaxFrame + 2
  BY <1>0
<1> QED BY <1>2, <1>3, <1>4, <1>5, <1>6 DEF Ordered, r
-----------------------------------------------------------------------------
(* The loops keep the order *)

\* The empty window is put elsewhere.
LEMMA PutIs ==
  ASSUME NEW s, Live(s), s.tid.num = 0, NEW to \in Nat
  PROVE  LET r == [s EXCEPT !.tid.start = to]
         IN  /\ Live(r) /\ r.tid.start = to /\ r.tid.buf = s.tid.buf /\ r.tid.slip = s.tid.slip
             /\ r.tid.num = 0 /\ r.out = s.out /\ r.timer = s.timer /\ r.todo = s.todo
             /\ \A i \in Slots : s.tid.buf[i] = <<>>
<1> DEFINE u == [s.tid EXCEPT !.start = to]
           r == With(s, u, s.out)
<1>1. s \in Reorderer /\ s.tid \in Buffer /\ Counted(s.tid) /\ s.out \in Seq(Frame)
  BY LiveBuffer DEF Reorderer
<1>2. [s EXCEPT !.tid.start = to] = r
  BY <1>1 DEF With, Reorderer
<1>3. u \in Buffer /\ u.num = 0 /\ u.buf = s.tid.buf /\ u.slip = s.tid.slip /\ u.start = to
  BY <1>1 DEF Buffer
<1> HIDE DEF u
<1>4. Counted(u)
  BY <1>1, <1>3, CountSame DEF Used
<1>5. Live(r) /\ r.tid = u /\ r.out = s.out /\ r.timer = s.timer /\ r.todo = s.todo
  BY <1>1, <1>3, <1>4, WithIs
<1> HIDE DEF r
<1>6. \A i \in Slots : s.tid.buf[i] = <<>>
  BY <1>1, NoneCounted
<1> QED BY <1>2, <1>3, <1>5, <1>6

\* skw_reorder_force_release moves the window behind the frame it is given, or, when
\* the buffer is empty, to that frame; a number behind the window moves nothing.
LEMMA ForceReleaseOrder ==
  ASSUME NEW s, Live(s), NEW ever \in SUBSET Parcels, NEW from \in Nat, NEW at,
         Ordered(s, ever, from, at), Short, NEW to \in Nat, NEW n \in 0..MaxFrame + 1, Is(to, n)
  PROVE  LET r == ForceRelease(s, to)
         IN  /\ n < at => Ordered(r, ever, from, at)
             /\ at <= n => \/ Ordered(r, ever, from, n + 1)
                           \/ Ordered(r, ever, from, n) /\ r.tid.num = 0
<1> DEFINE cond == s.ref = s.tid.ref /\ (Less(s.timer.sn, to) \/ Less(to, s.tid.start))
           t == DelTimerIf(s, cond)
           N == SnMod \div 2
           Reach(m) == IF n < at THEN at ELSE IF at + m <= n + 1 THEN at + m ELSE n + 1
           Walk(m) == {q \in Turn :
              /\ Live(q.s)
              /\ q.stop => at <= n /\ Ordered(q.s, ever, from, n) /\ q.s.tid.num = 0
              /\ ~q.stop => Ordered(q.s, ever, from, Reach(m))}
           P == [m \in 0..N |-> Walk(m)]
           q0 == [s |-> t, go |-> TRUE, stop |-> FALSE]
<1>0. /\ N \in Nat /\ MaxFrame \in Nat /\ MaxFrame + 2 < N /\ n \in Nat /\ n <= MaxFrame + 1
      /\ at \in Nat /\ from <= at /\ at <= MaxFrame + 2
  BY Sizes, OrderedType DEF Short
<1>1. Live(t) /\ t \in Reorderer /\ Ordered(t, ever, from, at)
  <2>1. cond \in BOOLEAN /\ Sound(s)
    BY DEF Live, Less
  <2>2. Sound(t) /\ t.tid = s.tid /\ t.out = s.out
    BY <2>1, DelTimerIfKeeps
  <2>3. Numbers(t)
    BY <2>1, DelTimerOrder DEF Ordered
  <2> HIDE DEF t
  <2> QED BY <2>2, <2>3, LiveBuffer DEF Live, Ordered
<1> HIDE DEF t, cond
<1>2. q0 \in P[0]
  <2>1. q0 \in Turn
    BY <1>1 DEF Turn
  <2>2. Reach(0) = at
    BY <1>0
  <2>3. 0 \in 0..N
    BY <1>0
  <2> HIDE DEF N, Reach
  <2> QED BY <1>1, <2>1, <2>2, <2>3
<1>3. ASSUME NEW m \in 0..N, m < N, NEW q \in P[m] PROVE FreeTurn(to)[m][q] \in P[m + 1]
  <2> DEFINE r == FreeTurn(to)[m][q]
             a == Reach(m)
             x == q.s.tid.start
  <2>0. m + 1 \in 0..N /\ m \in Nat
    BY <1>0, <1>3
  <2>1. q \in Walk(m) /\ q \in Turn /\ Live(q.s)
    BY <1>3
  <2>2. r = IF q.stop \/ ~Less(x, Next12(to)) THEN q
            ELSE IF q.s.tid.num = 0 THEN [q EXCEPT !.s.tid.start = to, !.stop = TRUE]
            ELSE [q EXCEPT !.s = FreeSlot(q.s)]
    BY <2>0, <2>1 DEF FreeTurn
  <2>3. /\ at <= a /\ a <= MaxFrame + 2 /\ a \in Nat
        /\ a < n + 1 => Reach(m + 1) = a + 1 /\ at <= n
        /\ ~(a < n + 1) => Reach(m + 1) = a
    BY <1>0, <2>0
  <2>4. ~q.stop => Ordered(q.s, ever, from, a) /\ (Less(x, Next12(to)) <=> a < n + 1)
    <3> SUFFICES ASSUME ~q.stop
                 PROVE  Ordered(q.s, ever, from, a) /\ (Less(x, Next12(to)) <=> a < n + 1)
      OBVIOUS
    <3>1. Ordered(q.s, ever, from, a)
      BY <2>1
    <3> HIDE DEF a, Walk
    <3>2. x \in Int /\ Is(x, a)
      BY <2>1, <3>1, OrderedType
    <3>3. to \in Int /\ n \in Int /\ n + 1 \in Int
      BY <1>0
    <3>4. Is(Next12(to), n + 1) /\ Next12(to) \in Int
      BY <3>3, IsNext, Next12Type
    <3>5. a \in Int /\ a - (n + 1) < SnMod \div 2 /\ (n + 1) - a < SnMod \div 2
      BY <1>0, <2>3
    <3> HIDE DEF x
    <3>6. Less(x, Next12(to)) <=> a < n + 1
      BY <3>2, <3>3, <3>4, <3>5, IsLess
    <3> QED BY <3>1, <3>6
  <2>5. q.stop => at <= n /\ Ordered(q.s, ever, from, n) /\ q.s.tid.num = 0
    BY <2>1
  <2> HIDE DEF N, r, a, Reach
  <2> SUFFICES r \in Walk(m + 1)
    BY <2>0 DEF r
  <2>6. CASE q.stop
    <3>1. r = q
      BY <2>2, <2>6
    <3> QED BY <2>1, <2>5, <2>6, <3>1
  <2>7. CASE ~q.stop /\ ~Less(x, Next12(to))
    <3>1. r = q /\ Ordered(q.s, ever, from, Reach(m + 1))
      BY <2>2, <2>3, <2>4, <2>7
    <3> QED BY <2>1, <2>7, <3>1
  <2>8. CASE ~q.stop /\ Less(x, Next12(to)) /\ q.s.tid.num = 0
    <3> DEFINE v == [q.s EXCEPT !.tid.start = to]
    <3>1. r = [q EXCEPT !.s = v, !.stop = TRUE]
      <4>1. r = [q EXCEPT !.s.tid.start = to, !.stop = TRUE]
        BY <2>2, <2>8
      <4> QED BY <2>1, <4>1 DEF Turn
    <3>2. /\ Live(v) /\ v.tid.start = to /\ v.tid.buf = q.s.tid.buf /\ v.tid.slip = q.s.tid.slip
          /\ v.tid.num = 0 /\ v.out = q.s.out /\ v.timer = q.s.timer /\ v.todo = q.s.todo
          /\ \A i \in Slots : q.s.tid.buf[i] = <<>>
      BY <2>1, <2>8, PutIs
    <3> HIDE DEF v
    <3>3. r \in Turn /\ r.s = v /\ r.stop = TRUE
      BY <2>1, <3>1, <3>2, LiveBuffer DEF Turn
    <3>4. a <= n /\ at <= n /\ n \in a..MaxFrame + 2 /\ n \in from..MaxFrame + 2 /\ n \in Nat
      BY <1>0, <2>3, <2>4, <2>8
    <3>5. Ordered(q.s, ever, from, a) /\ q.s.tid \in Buffer /\ q.s.out \in Seq(Frame)
      BY <2>1, <2>4, <2>8, OrderedType
    <3>6. InWindow(v.tid, ever, n)
      <4>1. InWindow(q.s.tid, ever, a)
        BY <3>5 DEF Ordered
      <4> QED BY <3>2, <3>4, <3>5, <4>1, WindowPut
    <3>7. Sorted(v.out, from, n)
      <4>1. Sorted(q.s.out, from, a)
        BY <3>5 DEF Ordered
      <4> QED BY <2>3, <3>2, <3>4, <3>5, <4>1, SortedMore
    <3>8. Ordered(v, ever, from, n)
      BY <3>2, <3>4, <3>5, <3>6, <3>7 DEF Ordered, Numbers
    <3> QED BY <3>2, <3>3, <3>4, <3>8
  <2>9. CASE ~q.stop /\ Less(x, Next12(to)) /\ q.s.tid.num # 0
    <3> DEFINE v == FreeSlot(q.s)
    <3>1. r = [q EXCEPT !.s = v]
      BY <2>2, <2>9
    <3>2. Live(v)
      BY <2>1, FreeSlotFreed DEF Freed
    <3>3. Ordered(v, ever, from, a + 1)
      <4>1. a <= MaxFrame + 1
        BY <1>0, <2>3, <2>4, <2>9
      <4> QED BY <2>1, <2>4, <2>9, <4>1, FreeSlotOrder
    <3> HIDE DEF v
    <3>4. r \in Turn /\ r.s = v /\ r.stop = q.stop
      BY <2>1, <3>1, <3>2, LiveBuffer DEF Turn
    <3>5. Reach(m + 1) = a + 1
      BY <2>3, <2>4, <2>9
    <3> QED BY <2>9, <3>2, <3>3, <3>4, <3>5
  <2> QED BY <2>6, <2>7, <2>8, <2>9
<1> DEFINE e == Loop(FreeTurn(to), q0, N)
<1>4. e \in P[N]
  <2> HIDE DEF P, q0, N
  <2> QED BY <1>0, <1>2, <1>3, Looped
<1>5. ForceRelease(s, to) = e.s
  BY DEF ForceRelease, t, cond
<1>6. e \in Walk(N)
  BY <1>0, <1>4
<1>7. Reach(N) = IF n < at THEN at ELSE n + 1
  BY <1>0
<1> HIDE DEF e, N, P, q0, Reach
<1>8. /\ e.stop => at <= n /\ Ordered(e.s, ever, from, n) /\ e.s.tid.num = 0
      /\ ~e.stop => Ordered(e.s, ever, from, Reach(N))
  BY <1>6
<1> HIDE DEF Walk
<1>9. n < at => ~(at <= n)
  BY <1>0
<1> QED BY <1>5, <1>7, <1>8, <1>9
\* The frame of the window start goes up and the window moves on, or the window stays.
LEMMA InOrderOrder ==
  ASSUME NEW q \in Turn, Live(q.s), q.s.ref = q.s.tid.ref, NEW sn \in Nat, At(q.s, sn) # <<>>,
         q.go = TRUE, q.stop = FALSE,
         NEW ever \in SUBSET Parcels, NEW from \in Nat, NEW at, Ordered(q.s, ever, from, at), Is(sn, at)
  PROVE  LET r == InOrder(q, sn)
         IN  /\ r.go /\ ~r.stop => Ordered(r.s, ever, from, at + 1)
             /\ ~r.go \/ r.stop => Ordered(r.s, ever, from, at)
<1> DEFINE r == InOrder(q, sn)
           t == Untimed(q.s)
           k == Slot(sn)
           l == At(q.s, sn)
<1>0. /\ at \in Nat /\ from <= at /\ at <= MaxFrame + 2 /\ q.s \in Reorderer /\ q.s.tid \in Buffer
      /\ q.s.tid.start \in Nat /\ q.s.out \in Seq(Frame) /\ Is(q.s.tid.start, at)
      /\ MaxFrame \in Nat /\ WinSize \in Nat /\ WinSize > 0
      /\ InWindow(q.s.tid, ever, at) /\ Sorted(q.s.out, from, at)
  BY OrderedType, Sizes DEF Ordered
<1>1. /\ l = q.s.tid.buf[k] /\ l \in Seq(Frame) /\ k \in Slots /\ Distinct(l) /\ at \in 0..MaxFrame
      /\ \A j \in DOMAIN l : l[j].n = at
  <2>1. at <= at /\ at < at + WinSize
    BY <1>0
  <2>2. sn \in Nat /\ at \in Nat /\ Is(sn, at)
    BY <1>0
  <2>3. PartsOnly(At(q.s, sn), at)
    BY <2>1, <2>2, SlotOrder
  <2>4. k \in Slots
    BY SlotType
  <2>5. l = q.s.tid.buf[k] /\ l # <<>> /\ PartsOnly(l, at)
    BY <2>3 DEF At
  <2> HIDE DEF k, l
  <2> QED BY <2>4, <2>5 DEF PartsOnly
<1>2. Live(t) /\ t.tid = q.s.tid /\ t.out = q.s.out /\ Numbers(t) /\ t.todo = q.s.todo
  <2>1. (q.s.timer.sn = q.s.tid.start) \in BOOLEAN /\ Sound(q.s) /\ Numbers(q.s)
    BY DEF Live, Ordered
  <2> QED BY <2>1, DelTimerIfKeeps, DelTimerOrder DEF Live, Untimed
<1> HIDE DEF t, k, l
<1>3. /\ r \in Turn /\ Live(r.s)
      /\ r.stop => r.s = SetReorderTimer(t, sn)
      /\ ~r.stop => /\ r.s.tid.buf = Less1(q.s.tid, k)
                    /\ r.s.timer = t.timer /\ r.s.todo = q.s.todo
                    /\ r.go => /\ r.s.tid.start = Next12(q.s.tid.start)
                               /\ r.s.tid.slip = q.s.tid.slip
                               /\ r.s.out = q.s.out \o l
                    /\ ~r.go => /\ r.s.tid.start = q.s.tid.start
                                /\ r.s.tid.slip = q.s.tid.slip + 1
                                /\ r.s.out = q.s.out
  BY InOrderIs DEF t, k, l
<1> HIDE DEF r
<1>4. r.s.tid \in Buffer
  BY <1>3, LiveBuffer
<1>5. CASE r.stop
  <2> DEFINE v == SetReorderTimer(t, sn)
  <2>1. Some(sn)
    <3>1. at \in 0..MaxFrame + 1
      BY <1>0, <1>1
    <3> QED BY <3>1 DEF Some
  <2>2. v.tid = t.tid /\ v.out = t.out
    BY <1>2, SetTimerKeeps
  <2>3. Numbers(v)
    BY <1>2, <2>1, SetTimerOrder
  <2> HIDE DEF v
  <2>4. r.s = v
    BY <1>3, <1>5 DEF v
  <2>5. at \in from..MaxFrame + 2
    BY <1>0
  <2> QED BY <1>0, <1>2, <1>5, <2>2, <2>3, <2>4, <2>5 DEF Ordered, r
<1>6. ~r.stop => Numbers(r.s)
  BY <1>2, <1>3 DEF Numbers
<1>7. CASE ~r.stop /\ r.go
  <2>1. InWindow(r.s.tid, ever, at + 1)
    <3>1. at <= MaxFrame + 1 /\ sn \in Int
      BY <1>0, <1>1
    <3>2. r.s.tid.buf = Less1(q.s.tid, Slot(sn)) /\ r.s.tid.start = Next12(q.s.tid.start)
          /\ r.s.tid.slip = q.s.tid.slip
      BY <1>3, <1>7 DEF k
    <3> QED BY <1>0, <1>4, <3>1, <3>2, WindowNext
  <2>2. Sorted(r.s.out, from, at + 1)
    BY <1>0, <1>1, <1>3, <1>7, SortedAppend
  <2>3. at + 1 \in from..MaxFrame + 2
    BY <1>0, <1>1
  <2> QED BY <1>6, <1>7, <2>1, <2>2, <2>3 DEF Ordered, r
<1>8. CASE ~r.stop /\ ~r.go
  <2>1. InWindow(r.s.tid, ever, at)
    BY <1>0, <1>1, <1>3, <1>4, <1>8, WindowSlip
  <2>2. at \in from..MaxFrame + 2
    BY <1>0
  <2> QED BY <1>0, <1>3, <1>6, <1>8, <2>1, <2>2 DEF Ordered, r
<1> QED BY <1>5, <1>7, <1>8 DEF r

\* skw_reorder_release moves the window on, never back.
LEMMA ReleaseOrder ==
  ASSUME NEW s, Live(s), s.ref = s.tid.ref, NEW ever \in SUBSET Parcels, NEW from \in Nat, NEW at,
         Ordered(s, ever, from, at), Short
  PROVE  \E to \in Nat : Ordered(Release(s), ever, from, to)
<1> DEFINE first == s.tid.start
           Passed(i) == {q \in Turn :
             /\ Live(q.s) /\ q.s.ref = q.s.tid.ref
             /\ \E a \in Nat :
                  /\ at <= a /\ Ordered(q.s, ever, from, a)
                  /\ ~q.stop /\ q.s.tid.num # 0 => a <= at + i /\ (q.go => a = at + i)}
           P == [i \in 0..WinSize |-> Passed(i)]
           q0 == [s |-> s, go |-> TRUE, stop |-> FALSE]
<1>0. /\ at \in Nat /\ from <= at /\ at <= MaxFrame + 2 /\ s \in Reorderer /\ s.tid \in Buffer
      /\ first \in Nat /\ Is(first, at) /\ WinSize \in Nat /\ WinSize > 0 /\ MaxFrame \in Nat
      /\ s.tid # None
  BY OrderedType, Sizes, BufferIs
<1>1. q0 \in P[0]
  <2>1. q0 \in Turn
    BY <1>0 DEF Turn
  <2>2. at <= at /\ at <= at + 0 /\ at = at + 0 /\ 0 \in 0..WinSize
    BY <1>0
  <2> HIDE DEF first
  <2>3. q0 \in Passed(0)
    BY <1>0, <2>1, <2>2
  <2> QED BY <2>2, <2>3
<1>2. ASSUME NEW i \in 0..WinSize, i < WinSize, NEW q \in P[i]
      PROVE  ReleaseTurn(first)[i][q] \in P[i + 1]
  <2> DEFINE r == ReleaseTurn(first)[i][q]
             sn == first + i
             n == at + i
             list == At(q.s, sn)
  <2>0. /\ i + 1 \in 0..WinSize /\ i \in Nat /\ i \in Int /\ sn \in Nat /\ n \in Nat
        /\ at + (i + 1) = n + 1
    BY <1>0, <1>2
  <2>1. q \in Turn /\ q \in Passed(i) /\ Live(q.s) /\ q.s.ref = q.s.tid.ref
    BY <1>2
  <2>2. PICK a \in Nat :
          /\ at <= a /\ Ordered(q.s, ever, from, a)
          /\ ~q.stop /\ q.s.tid.num # 0 => a <= n /\ (q.go => a = n)
    BY <2>1
  <2>3. r = IF q.stop THEN q
            ELSE IF q.s.tid.num = 0 THEN [q EXCEPT !.s = DelTimer(q.s), !.stop = TRUE]
            ELSE IF list = <<>>
            THEN IF q.s.timer.pending = 1 THEN [q EXCEPT !.stop = TRUE] ELSE [q EXCEPT !.go = FALSE]
            ELSE IF q.go THEN InOrder(q, sn) ELSE GapBefore(q, sn)
    BY <2>0, <2>1 DEF ReleaseTurn
  <2>4. Is(sn, n)
    BY <1>0, <2>0, IsPlus
  <2>5. q.s \in Reorderer /\ q.s.tid \in Buffer
    BY <2>1, LiveBuffer
  \* what a turn may make of it
  <2>6. ASSUME NEW v \in Turn, Live(v.s), v.s.ref = v.s.tid.ref, NEW b \in Nat, a <= b,
               Ordered(v.s, ever, from, b),
               ~v.stop /\ v.s.tid.num # 0 => b <= n + 1 /\ (v.go => b = n + 1)
        PROVE  v \in Passed(i + 1)
    <3>1. at <= b
      BY <1>0, <2>2, <2>6
    <3> QED BY <2>0, <2>6, <3>1
  <2> HIDE DEF Passed, P
  <2> SUFFICES r \in Passed(i + 1)
    BY <2>0 DEF r, P
  <2>15. a <= a /\ a + 1 \in Nat /\ a <= a + 1 /\ (a <= n => a <= n + 1)
    BY <2>0, <2>2
  <2> HIDE DEF r, first, sn, n, list
  <2>7. CASE q.stop
    <3>1. r = q
      BY <2>3, <2>7
    <3> QED BY <2>1, <2>2, <2>6, <2>7, <2>15, <3>1
  <2>8. CASE ~q.stop /\ q.s.tid.num = 0
    <3> DEFINE d == DelTimer(q.s)
    <3>1. r = [q EXCEPT !.s = d, !.stop = TRUE]
      BY <2>3, <2>8
    <3>2. Sound(d) /\ d.tid = q.s.tid /\ d.ref = q.s.ref /\ d.out = q.s.out /\ Numbers(d)
      BY <2>1, <2>2, DelTimerKeeps, DelTimerOrder DEF Live, Ordered
    <3> HIDE DEF d
    <3>3. Live(d) /\ d \in Reorderer
      BY <2>5, <3>2, BufferIs DEF Live, Sound
    <3>4. Ordered(d, ever, from, a)
      BY <2>2, <3>2 DEF Ordered
    <3>5. r \in Turn /\ r.s = d /\ r.stop
      BY <2>1, <3>1, <3>3 DEF Turn
    <3> QED BY <2>1, <2>6, <2>15, <3>2, <3>3, <3>4, <3>5
  <2>9. CASE ~q.stop /\ q.s.tid.num # 0 /\ list = <<>> /\ q.s.timer.pending = 1
    <3>1. r = [q EXCEPT !.stop = TRUE]
      BY <2>3, <2>9
    <3>2. r \in Turn /\ r.s = q.s /\ r.stop
      BY <2>1, <3>1 DEF Turn
    <3> QED BY <2>1, <2>2, <2>6, <2>15, <3>2
  <2>10. CASE ~q.stop /\ q.s.tid.num # 0 /\ list = <<>> /\ q.s.timer.pending # 1
    <3>1. r = [q EXCEPT !.go = FALSE]
      BY <2>3, <2>10
    <3>2. r \in Turn /\ r.s = q.s /\ ~r.go
      BY <2>1, <3>1 DEF Turn
    <3> QED BY <2>1, <2>2, <2>6, <2>10, <2>15, <3>2
  <2>11. CASE ~q.stop /\ q.s.tid.num # 0 /\ list # <<>> /\ q.go
    <3>1. r = InOrder(q, sn)
      BY <2>3, <2>11
    <3>2. a = n
      BY <2>2, <2>11
    <3> DEFINE v == InOrder(q, sn)
    <3>3. At(q.s, sn) # <<>> /\ q.go = TRUE /\ q.stop = FALSE /\ sn \in Nat
      BY <2>0, <2>1, <2>11 DEF list, Turn
    <3>4. v \in Turn /\ Live(v.s) /\ v.s.ref = q.s.ref /\ v.s.tid.ref = q.s.ref
      BY <2>1, <3>3, InOrderIs
    <3>5. /\ v.go /\ ~v.stop => Ordered(v.s, ever, from, a + 1)
          /\ ~v.go \/ v.stop => Ordered(v.s, ever, from, a)
      BY <2>1, <2>2, <2>4, <3>2, <3>3, InOrderOrder
    <3> HIDE DEF v
    <3>6. r = v
      BY <3>1 DEF v
    <3>7. CASE v.go /\ ~v.stop
      <4>1. a + 1 = n + 1 /\ a + 1 <= n + 1
        BY <2>0, <3>2
      <4> QED BY <2>6, <2>15, <3>4, <3>5, <3>6, <3>7, <4>1
    <3>8. CASE ~v.go \/ v.stop
      <4>1. a <= n + 1
        BY <2>0, <3>2
      <4> QED BY <2>6, <2>15, <3>4, <3>5, <3>6, <3>8, <4>1
    <3> QED BY <3>7, <3>8
  <2>12. CASE ~q.stop /\ q.s.tid.num # 0 /\ list # <<>> /\ ~q.go
    <3>1. a <= n /\ n < a + WinSize
      BY <1>0, <1>2, <2>0, <2>2, <2>12 DEF n
    <3>2. n \in 0..MaxFrame
      <4>1. At(q.s, sn) # <<>>
        BY <2>12 DEF list
      <4>2. Live(q.s) /\ Ordered(q.s, ever, from, a) /\ sn \in Nat /\ n \in Nat
        BY <2>0, <2>1, <2>2
      <4>3. PartsOnly(At(q.s, sn), n)
        BY <2>4, <3>1, <4>2, SlotOrder
      <4> QED BY <4>1, <4>3 DEF PartsOnly
    <3>3. n \in 0..MaxFrame + 1 /\ Some(sn)
      BY <1>0, <2>4, <3>2 DEF Some
    <3>4. r = GapBefore(q, sn)
      BY <2>3, <2>12
    <3>5. CASE TimedOut(list)
      <4> DEFINE d == ForceRelease(q.s, sn)
      <4>1. r = [q EXCEPT !.s = d, !.go = TRUE]
        BY <3>4, <3>5 DEF GapBefore, list
      <4>2. ForceReleased(q.s, d, sn)
        BY <2>0, <2>1, ForceReleaseIs
      <4>3. Ordered(d, ever, from, n + 1) \/ (Ordered(d, ever, from, n) /\ d.tid.num = 0)
        BY <2>0, <2>1, <2>2, <2>4, <3>1, <3>3, ForceReleaseOrder
      <4> HIDE DEF d
      <4>4. Live(d) /\ d.ref = q.s.ref /\ d.tid.ref = q.s.tid.ref
        BY <4>2 DEF ForceReleased
      <4>5. r \in Turn /\ r.s = d
        BY <2>1, <4>1, <4>4, LiveBuffer DEF Turn
      <4>6. n + 1 \in Nat /\ a <= n + 1 /\ n + 1 <= n + 1
        BY <2>0, <3>1
      <4> QED BY <2>0, <2>1, <2>6, <3>1, <4>3, <4>4, <4>5, <4>6
    <3>6. CASE ~TimedOut(list)
      <4> DEFINE d == SetReorderTimer(q.s, sn)
      <4>1. r = [q EXCEPT !.s = d, !.stop = TRUE]
        BY <3>4, <3>6 DEF GapBefore, list
      <4>2. Live(d) /\ Same(q.s, d) /\ d.tid = q.s.tid /\ d.out = q.s.out
        BY <2>0, <2>1, SetTimerKeeps
      <4>3. Numbers(d)
        BY <2>0, <2>1, <2>2, <3>3, SetTimerOrder DEF Ordered
      <4> HIDE DEF d
      <4>4. Ordered(d, ever, from, a)
        BY <2>2, <4>2, <4>3 DEF Ordered
      <4>5. r \in Turn /\ r.s = d /\ r.stop
        BY <2>1, <4>1, <4>2, LiveBuffer DEF Turn
      <4> QED BY <2>1, <2>6, <2>15, <4>2, <4>4, <4>5 DEF Same
    <3> QED BY <3>5, <3>6
  <2> QED BY <2>7, <2>8, <2>9, <2>10, <2>11, <2>12
<1> DEFINE e == Loop(ReleaseTurn(first), q0, WinSize)
<1>3. e \in P[WinSize]
  <2> HIDE DEF P, q0, first
  <2> QED BY <1>0, <1>1, <1>2, Looped
<1>4. Release(s) = e.s
  BY <1>0 DEF Release
<1>5. e \in Passed(WinSize)
  <2>1. WinSize \in 0..WinSize
    BY <1>0
  <2> HIDE DEF e, Passed
  <2> QED BY <1>3, <2>1
<1> HIDE DEF e, first, q0, P
<1> QED BY <1>4, <1>5
-----------------------------------------------------------------------------
(* A frame is reordered in order *)

\* Some place of the window will do.
Onwards(s, ever, from) == \E to \in Nat : Ordered(s, ever, from, to)

LEMMA SettleOrder ==
  ASSUME NEW s, Live(s), s.ref = s.tid.ref, NEW ever \in SUBSET Parcels, NEW from \in Nat,
         Onwards(s, ever, from), Short, NEW sn \in Nat, Some(sn), NEW b \in BOOLEAN
  PROVE  Onwards(Settle(s, sn, b), ever, from)
<1>0. PICK at \in Nat : Ordered(s, ever, from, at)
  BY DEF Onwards
<1>1. CASE s.tid.num = 0
  <2> DEFINE r == DelTimer(s)
  <2>1. r.tid = s.tid /\ r.out = s.out /\ Numbers(r)
    BY <1>0, DelTimerKeeps, DelTimerOrder DEF Live, Ordered
  <2>2. Settle(s, sn, b) = r
    BY <1>1 DEF Settle
  <2> HIDE DEF r
  <2> QED BY <1>0, <2>1, <2>2 DEF Ordered, Onwards
<1>2. CASE s.tid.num # 0 /\ b
  <2>1. Settle(s, sn, b) = Release(s)
    BY <1>2 DEF Settle
  <2> QED BY <1>0, <2>1, ReleaseOrder DEF Onwards
<1>3. CASE s.tid.num # 0 /\ ~b
  <2> DEFINE r == SetReorderTimer(s, sn)
  <2>1. r.tid = s.tid /\ r.out = s.out
    BY SetTimerKeeps
  <2>2. Numbers(r)
    BY <1>0, SetTimerOrder DEF Ordered
  <2>3. Settle(s, sn, b) = r
    BY <1>3 DEF Settle
  <2> HIDE DEF r
  <2> QED BY <1>0, <2>1, <2>2, <2>3 DEF Ordered, Onwards
<1> QED BY <1>1, <1>2, <1>3

\* The frame of the window start has left its slot, and the window has moved on.
LEMMA StepOrder ==
  ASSUME NEW s, s.tid \in Buffer, NEW ever \in SUBSET Parcels, NEW from \in Nat, NEW at,
         Ordered(s, ever, from, at), s.out \in Seq(Frame), NEW sn \in Nat, NEW n \in 0..MaxFrame,
         Is(sn, n), Short, sn = s.tid.start,
         NEW r, r.tid \in Buffer, r.tid.start = Next12(s.tid.start), r.tid.slip = s.tid.slip,
         r.tid.buf = Less1(s.tid, Slot(sn)), r.out = s.out \/ r.out = s.out \o At(s, sn),
         r.timer.sn = s.timer.sn, r.timer.pending = 1 => s.timer.pending = 1, r.todo = s.todo
  PROVE  Ordered(r, ever, from, at + 1)
<1>0. /\ at \in Nat /\ from <= at /\ at <= MaxFrame + 2 /\ n \in Nat /\ n <= MaxFrame
      /\ MaxFrame \in Nat /\ WinSize \in Nat /\ WinSize > 0 /\ MaxFrame + 2 < SnMod \div 2
      /\ SnMod \div 2 \in Nat /\ InWindow(s.tid, ever, at) /\ Sorted(s.out, from, at) /\ Is(sn, at)
  BY Sizes DEF Ordered, Short, InWindow
<1>1. at = n
  <2>1. at - n < SnMod \div 2 /\ n - at < SnMod \div 2 /\ sn \in Int /\ at \in Int /\ n \in Int
    BY <1>0
  <2> QED BY <1>0, <2>1, IsOne
<1>2. InWindow(r.tid, ever, at + 1)
  <2>1. sn \in Int /\ at <= MaxFrame + 1
    BY <1>0, <1>1
  <2> QED BY <1>0, <2>1, WindowNext
<1>3. Sorted(r.out, from, at + 1)
  <2>1. CASE r.out = s.out
    BY <1>0, <2>1, SortedMore
  <2>2. CASE r.out = s.out \o At(s, sn)
    <3> DEFINE l == At(s, sn)
               k == Slot(sn)
    <3>1. k \in Slots /\ \A j \in DOMAIN s.tid.buf[k] : s.tid.buf[k][j].n = at
      <4>1. at <= at /\ at < at + WinSize /\ sn \in Int /\ at \in Int
        BY <1>0
      <4> QED BY <1>0, <4>1, SlotHolds
    <3> HIDE DEF k
    <3>2. l = s.tid.buf[k]
      BY DEF At, k
    <3> HIDE DEF l
    <3>3. l \in Seq(Frame) /\ \A j \in DOMAIN l : l[j].n = at
      BY <3>1, <3>2 DEF Buffer
    <3>4. Distinct(l)
      BY <1>0, <3>1, <3>2 DEF InWindow, Placed, Distinct
    <3>5. Sorted(s.out \o l, from, at + 1)
      BY <1>0, <3>3, <3>4, SortedAppend
    <3> QED BY <2>2, <3>5 DEF l
  <2> QED BY <2>1, <2>2
<1>4. Numbers(r)
  BY DEF Ordered, Numbers
<1>5. at + 1 \in from..MaxFrame + 2
  BY <1>0, <1>1
<1> QED BY <1>2, <1>3, <1>4, <1>5 DEF Ordered

LEMMA PlaceOrder ==
  ASSUME NEW s, NEW sn \in Nat, Filled(s, sn), NEW ever \in SUBSET Parcels, NEW from \in Nat,
         Onwards(s, ever, from), Short, NEW n \in 0..MaxFrame, Is(sn, n), NEW b \in BOOLEAN
  PROVE  Onwards(Place(s, sn, b), ever, from)
<1>0. PICK at \in Nat : Ordered(s, ever, from, at)
  BY DEF Onwards
<1>1. s \in Reorderer /\ s.tid \in Buffer /\ s.out \in Seq(Frame) /\ s.tid.ref = s.ref
  BY DEF Filled, Reorderer
<1>2. Some(sn)
  <2>1. n \in 0..MaxFrame + 1
    BY Sizes
  <2> QED BY <2>1 DEF Some
<1>3. CASE sn = s.tid.start
  <2> DEFINE r == HandOver(s, sn)
  <2>1. /\ Live(r) /\ Same(s, r) /\ r.ref = r.tid.ref
        /\ r.tid.start = Next12(s.tid.start) /\ r.tid.slip = s.tid.slip
        /\ r.tid.buf = Less1(s.tid, Slot(sn)) /\ r.out = s.out \o At(s, sn)
        /\ r.timer.sn = s.timer.sn /\ (r.timer.pending = 1 => s.timer.pending = 1)
        /\ r.todo = s.todo
    BY HandOverIs
  <2>2. Place(s, sn, b) = Settle(r, sn, TRUE)
    BY <1>3, PlaceSplit
  <2> HIDE DEF r
  <2>3. r.tid \in Buffer
    BY <2>1, LiveBuffer
  <2>4. Ordered(r, ever, from, at + 1)
    BY <1>0, <1>1, <1>3, <2>1, <2>3, StepOrder
  <2>5. Onwards(r, ever, from)
    <3>1. at + 1 \in Nat
      BY <1>0
    <3> QED BY <2>4, <3>1 DEF Onwards
  <2> QED BY <1>2, <2>1, <2>2, <2>5, SettleOrder
<1>4. CASE sn # s.tid.start
  <2> DEFINE c == Count(s, 1)
  <2>1. /\ Live(c) /\ c.ref = c.tid.ref
        /\ c.tid.start = s.tid.start /\ c.tid.buf = s.tid.buf /\ c.tid.slip = s.tid.slip
        /\ c.out = s.out /\ c.timer = s.timer /\ c.todo = s.todo
    BY FilledCount
  <2>2. Place(s, sn, b) = Settle(c, sn, b)
    BY <1>4, PlaceSplit
  <2> HIDE DEF c
  <2>3. Onwards(c, ever, from)
    BY <1>0, <2>1 DEF Onwards, Ordered, InWindow, Numbers
  <2> QED BY <1>2, <2>1, <2>2, <2>3, SettleOrder
<1> QED BY <1>3, <1>4
\* One more part of a frame in its slot.
Added(t, sn, f) == [t EXCEPT !.tid.buf[Slot(sn)] = Append(@, f)]
WithPart(t, k, f) == [t.buf EXCEPT ![k] = Append(t.buf[k], f)]

LEMMA AddedIs ==
  ASSUME NEW t, Live(t), t.ref = t.tid.ref, NEW sn \in Nat, NEW f \in Frame
  PROVE  /\ At(t, sn) = <<>> => Filled(Added(t, sn, f), sn)
         /\ At(t, sn) # <<>> => /\ Live(Added(t, sn, f)) /\ Added(t, sn, f).ref = Added(t, sn, f).tid.ref
                               /\ Filled(Count(Added(t, sn, f), -1), sn)
  BY AppendIs, ZenonT(60) DEF Added

\* The buffer with a part of a frame more in its slot, counted or not.
LEMMA AppendFields ==
  ASSUME NEW t \in Reorderer, t.tid \in Buffer, NEW sn \in Nat, Slot(sn) \in Slots, NEW f \in Frame,
         NEW d \in Int, NEW r \in {Added(t, sn, f), Count(Added(t, sn, f), d)}
  PROVE  /\ r.tid.buf = WithPart(t.tid, Slot(sn), f)
         /\ r.tid.start = t.tid.start /\ r.tid.slip = t.tid.slip
         /\ r.out = t.out /\ r.timer = t.timer /\ r.todo = t.todo
<1> DEFINE k == Slot(sn)
           u == Added(t, sn, f)
           buf == WithPart(t.tid, k, f)
           b == [t.tid EXCEPT !.buf = buf]
           c == [b EXCEPT !.num = b.num + d]
<1>1. u = [t EXCEPT !.tid = b]
  BY DEF Reorderer, Buffer, Added, WithPart
<1> HIDE DEF k
<1>2. /\ b.buf = buf /\ b.start = t.tid.start /\ b.slip = t.tid.slip
      /\ c.buf = buf /\ c.start = t.tid.start /\ c.slip = t.tid.slip
  BY DEF Buffer
<1> HIDE DEF b, buf, u
<1>3. u.tid = b /\ u.out = t.out /\ u.timer = t.timer /\ u.todo = t.todo
  BY <1>1 DEF Reorderer
<1>4. Count(u, d) = [t EXCEPT !.tid = c]
  BY <1>1, <1>3 DEF Count, Reorderer
<1> HIDE DEF c
<1> DEFINE v == [t EXCEPT !.tid = c]
<1>5. v.tid = c /\ v.out = t.out /\ v.timer = t.timer /\ v.todo = t.todo
  BY DEF Reorderer
<1> HIDE DEF v
<1>6. Count(u, d) = v
  BY <1>4 DEF v
<1> QED BY <1>2, <1>3, <1>5, <1>6 DEF u, buf, k

LEMMA AppendOrder ==
  ASSUME NEW t, Live(t), NEW ever \in SUBSET Parcels, NEW from \in Nat, NEW at, Ordered(t, ever, from, at),
         NEW f \in Frame, at <= f.n, f.n < at + WinSize, NEW sn \in Nat, Is(sn, f.n),
         \A k \in DOMAIN At(t, sn) : At(t, sn)[k].part # f.part,
         NEW r, r.tid.buf = WithPart(t.tid, Slot(sn), f),
         r.tid.start = t.tid.start, r.tid.slip = t.tid.slip,
         r.out = t.out, r.timer = t.timer, r.todo = t.todo
  PROVE  Ordered(r, ever \cup {<<f.n, f.part>>}, from, at)
<1>1. InWindow(r.tid, ever \cup {<<f.n, f.part>>}, at)
  <2>1. InWindow(t.tid, ever, at) /\ t.tid \in Buffer /\ sn \in Int
    BY LiveBuffer DEF Ordered
  <2>2. \A k \in DOMAIN t.tid.buf[Slot(sn)] : t.tid.buf[Slot(sn)][k].part # f.part
    BY DEF At
  <2> QED BY <2>1, <2>2, WindowFill DEF WithPart
<1> QED BY <1>1 DEF Ordered, Numbers

\* The sender has lost too few frames for its window to pass that of the receiver.
Room(n, ever) == \A at \in Nat : (\A e \in ever : e[1] < at) => n < at + WinSize

\* The window is moved so that the frame fits: it does, also when the buffer is empty.
LEMMA MoveOrder ==
  ASSUME NEW s, Own(s), s.tid # None, NEW ever \in SUBSET Parcels, NEW from \in Nat, NEW at,
         Ordered(s, ever, from, at), Short, NEW f \in Frame, at <= f.n, at + WinSize <= f.n,
         Room(f.n, ever)
  PROVE  LET t == ForceRelease(s, (Sn(f) - WinSize) % SnMod)
         IN  Ordered(t, ever, from, (f.n - WinSize) + 1)
<1> DEFINE to == (Sn(f) - WinSize) % SnMod
           n == f.n - WinSize
           t == ForceRelease(s, to)
<1>0. /\ Live(s) /\ s.ref = s.tid.ref /\ at \in Nat /\ f.n \in 0..MaxFrame /\ WinSize \in Nat
      /\ MaxFrame \in Nat
  BY OwnLive, OrderedType, Sizes DEF Frame
<1>1. n \in 0..MaxFrame + 1 /\ at <= n /\ n \in Nat /\ n + WinSize = f.n
  BY <1>0
<1>2. to \in Nat /\ Is(to, n)
  <2>1. Is(Sn(f), f.n) /\ Sn(f) \in Int /\ f.n \in Int /\ 0 - WinSize \in Int
    BY <1>0, IsSn DEF Sn
  <2>2. Is((Sn(f) + (0 - WinSize)) % SnMod, f.n + (0 - WinSize))
    BY <2>1, IsPlus
  <2>3. Sn(f) + (0 - WinSize) = Sn(f) - WinSize /\ f.n + (0 - WinSize) = n
    BY <1>0, <2>1
  <2> QED BY <2>2, <2>3, SnType
<1> HIDE DEF to, n
<1>3. Ordered(t, ever, from, n + 1) \/ (Ordered(t, ever, from, n) /\ t.tid.num = 0)
  BY <1>0, <1>1, <1>2, ForceReleaseOrder
<1>4. Live(t)
  BY <1>0, <1>2, ForceReleaseIs DEF ForceReleased
<1> HIDE DEF t
<1>5. CASE Ordered(t, ever, from, n) /\ t.tid.num = 0
  <2>1. t.tid \in Buffer /\ Counted(t.tid) /\ InWindow(t.tid, ever, n)
    BY <1>4, <1>5, LiveBuffer DEF Ordered
  <2>2. \A i \in Slots : t.tid.buf[i] = <<>>
    BY <1>5, <2>1, NoneCounted
  <2>3. t.tid.slip = 0
    <3>1. Cardinality(Used(t.tid)) \in Nat /\ t.tid.slip \in Nat
      BY <2>1, UsedFinite DEF Buffer
    <3> QED BY <1>5, <2>1, <3>1 DEF Counted
  <2>4. ASSUME NEW e \in ever PROVE e[1] < n
    <3>1. ~Holds(t.tid.buf, e)
      BY <2>2 DEF Holds
    <3>2. ~(e[1] >= n)
      BY <2>1, <2>3, <3>1 DEF InWindow
    <3>3. e[1] \in Nat
      BY DEF Parcels
    <3> QED BY <1>1, <3>2, <3>3
  <2>5. f.n < n + WinSize
    BY <1>1, <2>4 DEF Room
  <2> QED BY <1>0, <1>1, <2>5
<1> QED BY <1>3, <1>5 DEF t, to, n
\* skw_ampdu_reorder keeps the order unless it moves the window on for a frame that
\* is not its first.
LEMMA ReorderOrder ==
  ASSUME NEW s, Own(s), s.tid # None, NEW ever \in SUBSET Parcels,
         \A e \in ever : e[2] \in PartsOf(e[1]),
         NEW from \in Nat, Onwards(s, ever, from), Short, NEW f \in Frame, f.part \in PartsOf(f.n),
         Room(f.n, ever), Reorder(s, f).skew = 0
  PROVE  Onwards(Reorder(s, f), ever \cup {<<f.n, f.part>>}, from)
<1> DEFINE sn == Sn(f)
           beyond == ~Less(sn, s.tid.start + WinSize)
           t == IF beyond THEN ForceRelease(s, (sn - WinSize) % SnMod) ELSE s
           list == At(t, sn)
           u == [t EXCEPT !.tid.buf[Slot(sn)] = Append(@, f)]
           v == Count(u, IF list = <<>> THEN 0 ELSE -1)
           gone == [Advance(Emptied(v, sn)) EXCEPT !.skew = IF sn = t.tid.start THEN @ ELSE 1]
           r == Reorder(s, f)
           e == <<f.n, f.part>>
           more == ever \cup {e}
<1>0. /\ sn \in Nat /\ beyond \in BOOLEAN /\ Is(sn, f.n) /\ f.n \in Nat /\ f.n \in 0..MaxFrame
      /\ MaxFrame \in Nat /\ WinSize \in Nat /\ WinSize > 0 /\ Some(sn) /\ 4 * WinSize <= SnMod
      /\ SnMod \div 2 \in Nat /\ MaxFrame + 2 < SnMod \div 2 /\ WinSize < SnMod \div 2
  <2>1. f.n \in 0..MaxFrame /\ MaxFrame \in Nat /\ sn \in Nat
    BY SnType, Sizes DEF Frame
  <2>2. f.n \in Int /\ f.n \in 0..MaxFrame + 1 /\ f.n \in Nat
    BY <2>1
  <2>3. Is(sn, f.n)
    BY <2>2, IsSn DEF Sn
  <2> HIDE DEF sn
  <2>4. Some(sn)
    BY <2>2, <2>3 DEF Some
  <2>5. beyond \in BOOLEAN
    BY DEF Less
  <2> HIDE DEF beyond
  <2> QED BY <2>1, <2>2, <2>3, <2>4, <2>5, Sizes DEF Short
<1>1. more \in SUBSET Parcels /\ e \in Parcels
  <2>1. e \in Parcels
    BY <1>0 DEF Parcels, Frame
  <2> HIDE DEF e
  <2> QED BY <2>1
<1>2. PICK at \in Nat : Ordered(s, ever, from, at)
  BY DEF Onwards
<1>3. Live(s) /\ s.ref = s.tid.ref /\ s.tid.start \in Int /\ Is(s.tid.start, at) /\ at <= MaxFrame + 2
  BY <1>2, OwnLive, OrderedType
<1>4. /\ TooOld(s, sn) <=> f.n < at
      /\ ~TooOld(s, sn) => (beyond <=> at + WinSize <= f.n)
  <2> HIDE DEF sn
  <2>1. Less(sn, s.tid.start) <=> f.n < at
    <3>1. sn \in Int /\ f.n \in Int /\ at \in Int /\ f.n - at < SnMod \div 2 /\ at - f.n < SnMod \div 2
      BY <1>0, <1>3
    <3> QED BY <1>0, <1>3, <3>1, IsLess
  <2>2. Is(s.tid.start + WinSize, at + WinSize) /\ s.tid.start + WinSize \in Int
    BY <1>0, <1>3, IsPlus
  <2>3. ~(f.n < at) => (Less(sn, s.tid.start + WinSize) <=> f.n < at + WinSize)
    <3> SUFFICES ASSUME ~(f.n < at) PROVE Less(sn, s.tid.start + WinSize) <=> f.n < at + WinSize
      OBVIOUS
    <3>1. /\ sn \in Int /\ f.n \in Int /\ at + WinSize \in Int
          /\ f.n - (at + WinSize) < SnMod \div 2 /\ (at + WinSize) - f.n < SnMod \div 2
      BY <1>0, <1>3
    <3> QED BY <1>0, <2>2, <3>1, IsLess
  <2> QED BY <1>0, <2>1, <2>3 DEF TooOld
<1>5. r = IF TooOld(s, sn) THEN Settle(s, sn, FALSE)
          ELSE IF f.part = 0
          THEN IF list # <<>> THEN Settle(t, sn, beyond) ELSE Place(u, sn, beyond)
          ELSE IF f.part \in Parts(list) THEN Settle(t, sn, beyond)
          ELSE IF ~ReleaseReady(Append(list, f))
          THEN Settle(Count(u, IF list = <<>> THEN 1 ELSE 0), sn, beyond)
          ELSE IF IsTainted(Append(list, f)) THEN Settle(gone, sn, beyond)
          ELSE Place(v, sn, beyond)
  BY Zenon DEF Reorder
<1>6. CASE TooOld(s, sn)
  <2>1. InWindow(s.tid, more, at)
    <3>1. s.tid \in Buffer /\ InWindow(s.tid, ever, at) /\ e[1] < at
      BY <1>2, <1>3, <1>4, <1>6, LiveBuffer DEF Ordered
    <3> HIDE DEF e
    <3> QED BY <1>1, <3>1, WindowKnows
  <2>2. Onwards(s, more, from)
    BY <1>2, <2>1 DEF Ordered, Onwards
  <2>3. r = Settle(s, sn, FALSE)
    BY <1>5, <1>6
  <2> HIDE DEF r, more, sn
  <2>4. Onwards(Settle(s, sn, FALSE), more, from)
    BY <1>0, <1>1, <1>3, <2>2, SettleOrder
  <2> QED BY <2>3, <2>4 DEF r, more
<1>7. CASE ~TooOld(s, sn)
  <2>1. /\ Live(t) /\ t.ref = s.ref /\ t.tid.ref = t.ref
        /\ \E to \in Nat : Ordered(t, ever, from, to) /\ to <= f.n /\ f.n < to + WinSize
    <3>1. CASE beyond
      <4> DEFINE d == ForceRelease(s, (sn - WinSize) % SnMod)
      <4>1. ForceReleased(s, d, (sn - WinSize) % SnMod)
        BY <1>3, SnType, ForceReleaseIs
      <4>2. t = d
        BY <3>1
      <4>3. at <= f.n /\ at + WinSize <= f.n
        BY <1>0, <1>4, <1>7, <3>1
      <4>4. Ordered(d, ever, from, (f.n - WinSize) + 1)
        BY <1>2, <4>3, MoveOrder
      <4>5. (f.n - WinSize) + 1 \in Nat /\ (f.n - WinSize) + 1 <= f.n /\ f.n < ((f.n - WinSize) + 1) + WinSize
        BY <1>0, <4>3
      <4> HIDE DEF d, t
      <4> QED BY <1>3, <4>1, <4>2, <4>4, <4>5 DEF ForceReleased
    <3>2. CASE ~beyond
      <4>1. t = s
        BY <3>2
      <4>2. at <= f.n /\ f.n < at + WinSize
        BY <1>0, <1>4, <1>7, <3>2
      <4> HIDE DEF t
      <4> QED BY <1>2, <1>3, <4>1, <4>2
    <3> QED BY <3>1, <3>2
  <2>2. PICK to \in Nat : Ordered(t, ever, from, to) /\ to <= f.n /\ f.n < to + WinSize
    BY <2>1
  <2>3. r = IF f.part = 0
            THEN IF list # <<>> THEN Settle(t, sn, beyond) ELSE Place(u, sn, beyond)
            ELSE IF f.part \in Parts(list) THEN Settle(t, sn, beyond)
            ELSE IF ~ReleaseReady(Append(list, f))
            THEN Settle(Count(u, IF list = <<>> THEN 1 ELSE 0), sn, beyond)
            ELSE IF IsTainted(Append(list, f)) THEN Settle(gone, sn, beyond)
            ELSE Place(v, sn, beyond)
    BY <1>5, <1>7
  <2>4. t \in Reorderer /\ t.tid \in Buffer /\ Slot(sn) \in Slots /\ t.ref = t.tid.ref
        /\ list = t.tid.buf[Slot(sn)]
    BY <1>0, <2>1, LiveBuffer, SlotType DEF At
  <2>5. /\ list = <<>> => Filled(u, sn)
        /\ list # <<>> => Live(u) /\ u.ref = u.tid.ref /\ Filled(Count(u, -1), sn)
    <3> HIDE DEF t, sn
    <3>1. u = Added(t, sn, f)
      BY DEF Added
    <3> HIDE DEF u
    <3> QED BY <1>0, <2>1, <2>4, <3>1, AddedIs
  <2>6. \A d \in {-1, 0, 1} : \A w \in {u, Count(u, d)} :
          /\ w.tid.buf = WithPart(t.tid, Slot(sn), f)
          /\ w.tid.start = t.tid.start /\ w.tid.slip = t.tid.slip
          /\ w.out = t.out /\ w.timer = t.timer /\ w.todo = t.todo
    <3>1. -1 \in Int /\ 0 \in Int /\ 1 \in Int
      OBVIOUS
    <3> HIDE DEF t, sn
    <3>2. u = Added(t, sn, f)
      BY DEF Added
    <3> HIDE DEF u
    <3>3. Slot(sn) \in Slots /\ sn \in Nat /\ t \in Reorderer /\ t.tid \in Buffer
      BY <1>0, <2>4
    <3>4. ASSUME NEW d \in {-1, 0, 1}, NEW w \in {u, Count(u, d)}
          PROVE  /\ w.tid.buf = WithPart(t.tid, Slot(sn), f)
                 /\ w.tid.start = t.tid.start /\ w.tid.slip = t.tid.slip
                 /\ w.out = t.out /\ w.timer = t.timer /\ w.todo = t.todo
      <4>1. d \in Int /\ w \in {Added(t, sn, f), Count(Added(t, sn, f), d)}
        BY <3>1, <3>2
      <4> QED BY <3>3, <4>1, AppendFields
    <3> QED BY <3>4
  <2>7. PartsOnly(list, f.n)
    <3> HIDE DEF t, sn
    <3> QED BY <1>0, <2>1, <2>2, SlotOrder
  <2>8. \A k \in DOMAIN list : <<f.n, list[k].part>> \in ever
    <3>1. InWindow(t.tid, ever, to)
      BY <2>2 DEF Ordered
    <3> HIDE DEF list, t, sn
    <3> QED BY <2>4, <2>7, <3>1 DEF InWindow, Placed, PartsOnly
  <2> HIDE DEF u, list, t, r, sn, beyond
  \* the part is in the slot already
  <2>9. (\E k \in DOMAIN list : list[k].part = f.part) => Onwards(t, more, from)
    <3> SUFFICES ASSUME NEW k \in DOMAIN list, list[k].part = f.part PROVE Onwards(t, more, from)
      OBVIOUS
    <3>1. list[k].n = f.n
      BY <2>7 DEF PartsOnly
    <3>2. Holds(t.tid.buf, e)
      BY <2>4, <3>1 DEF Holds
    <3>3. InWindow(t.tid, ever, to)
      BY <2>2 DEF Ordered
    <3> HIDE DEF e
    <3>4. InWindow(t.tid, more, to)
      BY <1>1, <2>4, <3>2, <3>3, WindowKnows
    <3> QED BY <2>2, <3>4 DEF Ordered, Onwards
  \* or it is not
  <2>10. ASSUME ~(\E k \in DOMAIN list : list[k].part = f.part),
                NEW d \in {-1, 0, 1}, NEW w \in {u, Count(u, d)}
         PROVE  Ordered(w, more, from, to)
    <3>1. \A k \in DOMAIN At(t, sn) : At(t, sn)[k].part # f.part
      BY <2>10 DEF list
    <3>2. /\ w.tid.buf = WithPart(t.tid, Slot(sn), f)
          /\ w.tid.start = t.tid.start /\ w.tid.slip = t.tid.slip
          /\ w.out = t.out /\ w.timer = t.timer /\ w.todo = t.todo
      BY <2>6, <2>10
    <3> QED BY <1>0, <2>1, <2>2, <3>1, <3>2, AppendOrder
  <2>11. f.part # 0 /\ f.part \notin Parts(list) => ~(\E k \in DOMAIN list : list[k].part = f.part)
    BY DEF Parts
  <2>12. f.part # 0 /\ f.part \in Parts(list) => \E k \in DOMAIN list : list[k].part = f.part
    BY DEF Parts
  <2>13. f.part = 0 /\ list # <<>> => \E k \in DOMAIN list : list[k].part = f.part
    <3> SUFFICES ASSUME f.part = 0, list # <<>> PROVE \E k \in DOMAIN list : list[k].part = f.part
      OBVIOUS
    <3>1. list \in Seq(Frame)
      BY <2>7 DEF PartsOnly
    <3>2. 1 \in DOMAIN list
      BY <3>1
    <3>3. <<f.n, list[1].part>> \in ever
      BY <2>8, <3>2
    <3>4. list[1].part \in PartsOf(f.n)
      BY <3>3
    <3>5. PartsOf(f.n) = {0}
      BY DEF PartsOf
    <3> QED BY <3>2, <3>4, <3>5
  <2>14. CASE list # <<>> /\ (f.part = 0 \/ f.part \in Parts(list))
    <3>1. r = Settle(t, sn, beyond)
      BY <2>3, <2>14
    <3>2. Onwards(t, more, from)
      BY <2>9, <2>12, <2>13, <2>14
    <3> HIDE DEF more
    <3>3. Onwards(r, more, from)
      BY <1>0, <1>1, <2>1, <2>4, <3>1, <3>2, SettleOrder
    <3> QED BY <3>3 DEF r, more
  <2>15. CASE list = <<>> /\ f.part = 0
    <3>1. r = Place(u, sn, beyond)
      BY <2>3, <2>15
    <3>2. Ordered(u, more, from, to)
      <4>1. ~(\E k \in DOMAIN list : list[k].part = f.part)
        BY <2>15
      <4> QED BY <2>10, <4>1
    <3> HIDE DEF more
    <3>3. Onwards(u, more, from)
      BY <3>2 DEF Onwards
    <3>4. Onwards(r, more, from)
      BY <1>0, <1>1, <2>5, <2>15, <3>1, <3>3, PlaceOrder
    <3> QED BY <3>4 DEF r, more
  <2>16. CASE f.part # 0 /\ f.part \notin Parts(list) /\ ~ReleaseReady(Append(list, f))
    <3>1. r = Settle(Count(u, IF list = <<>> THEN 1 ELSE 0), sn, beyond)
      BY <2>3, <2>16
    <3>2. CASE list = <<>>
      <4> DEFINE w == Count(u, 1)
      <4>1. r = Settle(w, sn, beyond)
        BY <3>1, <3>2
      <4>2. Live(w) /\ w.ref = w.tid.ref
        BY <1>0, <2>5, <3>2, FilledCount
      <4>3. Ordered(w, more, from, to)
        BY <2>10, <2>11, <2>16
      <4> HIDE DEF w, more
      <4>4. Onwards(r, more, from)
        BY <1>0, <1>1, <4>1, <4>2, <4>3, SettleOrder DEF Onwards
      <4> QED BY <4>4 DEF r, more
    <3>3. CASE list # <<>>
      <4>1. Count(u, 0) = u
        <5>1. u \in Reorderer /\ u.tid \in Buffer
          BY <2>5, <3>3, LiveBuffer
        <5>2. u.tid.num + 0 = u.tid.num
          BY <5>1 DEF Buffer
        <5> QED BY <5>1, <5>2 DEF Count, Reorderer, Buffer
      <4>2. r = Settle(u, sn, beyond)
        BY <3>1, <3>3, <4>1
      <4>3. Ordered(u, more, from, to)
        BY <2>10, <2>11, <2>16
      <4> HIDE DEF more
      <4>4. Onwards(r, more, from)
        BY <1>0, <1>1, <2>5, <3>3, <4>2, <4>3, SettleOrder DEF Onwards
      <4> QED BY <4>4 DEF r, more
    <3> QED BY <3>2, <3>3
  <2>17. CASE f.part # 0 /\ f.part \notin Parts(list) /\ ReleaseReady(Append(list, f))
    <3>1. r = IF IsTainted(Append(list, f)) THEN Settle(gone, sn, beyond) ELSE Place(v, sn, beyond)
      BY <2>3, <2>17
    <3>2. Ordered(v, more, from, to) /\ v.tid.start = t.tid.start /\ v.out = t.out
      <4>1. v = Count(u, 0) \/ v = Count(u, -1)
        OBVIOUS
      <4> HIDE DEF v, more
      <4>2. Ordered(v, more, from, to)
        BY <2>10, <2>11, <2>17, <4>1 DEF more
      <4> QED BY <2>6, <4>1, <4>2
    <3>3. Filled(v, sn)
      <4>1. CASE list = <<>>
        <5>1. u \in Reorderer /\ u.tid \in Buffer
          BY <2>5, <4>1 DEF Filled
        <5>2. Count(u, 0) = u
          <6>1. u.tid.num + 0 = u.tid.num
            BY <5>1 DEF Buffer
          <6> QED BY <5>1, <6>1 DEF Count, Reorderer, Buffer
        <5>3. v = u
          BY <4>1, <5>2
        <5> QED BY <2>5, <4>1, <5>3
      <4>2. CASE list # <<>>
        BY <2>5, <4>2
      <4> QED BY <4>1, <4>2
    <3> HIDE DEF v, more
    <3>4. CASE ~IsTainted(Append(list, f))
      <4>1. r = Place(v, sn, beyond)
        BY <3>1, <3>4
      <4>2. Onwards(r, more, from)
        BY <1>0, <1>1, <3>2, <3>3, <4>1, PlaceOrder DEF Onwards
      <4> QED BY <4>2 DEF r, more
    <3>5. CASE IsTainted(Append(list, f))
      <4> DEFINE g == IF sn = t.tid.start THEN Advance(Emptied(v, sn)).skew ELSE 1
      <4>1. gone = Purged(v, sn, g)
        BY DEF Purged
      <4>2. g \in 0..1
        <5>1. v \in Reorderer
          BY <3>3 DEF Filled
        <5>2. Advance(Emptied(v, sn)).skew = v.skew /\ v.skew \in 0..1
          BY <5>1 DEF Advance, Emptied, Reorderer
        <5> QED BY <5>2
      <4>3. sn # t.tid.start => g = 1
        OBVIOUS
      <4> HIDE DEF g, gone
      <4> DEFINE w == Purged(v, sn, g)
      <4>4. /\ Live(w) /\ w.ref = v.ref /\ w.tid.ref = v.ref /\ w.timer = v.timer
            /\ w.todo = v.todo /\ w.tid.buf = Less1(v.tid, Slot(sn)) /\ w.skew = g
            /\ w.out = v.out /\ w.tid.start = Next12(v.tid.start)
            /\ w.tid.slip = v.tid.slip
        BY <1>0, <3>3, <4>2, PurgeIs
      <4> HIDE DEF w
      <4>5. r = Settle(w, sn, beyond)
        BY <3>1, <3>5, <4>1 DEF w
      <4>6. r.skew = 0 /\ w.skew = 0
        <5>1. r.skew = 0
          BY DEF r
        <5>2. w.skew = 1 => r.skew = 1
          <6>1. Handled(w, r, beyond \/ At(w, sn) # <<>> \/ Asked(w) \/ NoFrames(w))
            BY <1>0, <4>4, <4>5, SettleIs
          <6> QED BY <6>1 DEF Handled
        <5> QED BY <4>2, <4>4, <5>1, <5>2
      <4>7. sn = v.tid.start
        BY <3>2, <4>3, <4>4, <4>6
      <4>8. v.tid \in Buffer /\ v.out \in Seq(Frame) /\ w.tid \in Buffer
        BY <3>3, <4>4, LiveBuffer DEF Filled, Reorderer
      <4>9. Ordered(w, more, from, to + 1)
        BY <1>0, <1>1, <3>2, <4>4, <4>7, <4>8, StepOrder
      <4>10. Onwards(w, more, from)
        <5>1. to + 1 \in Nat
          BY <2>2
        <5> QED BY <4>9, <5>1 DEF Onwards
      <4>11. Onwards(r, more, from)
        BY <1>0, <1>1, <4>4, <4>5, <4>10, SettleOrder
      <4> QED BY <4>11 DEF r, more
    <3> QED BY <3>4, <3>5
  <2>18. Parts(<<>>) = {}
    BY DEF Parts
  <2> QED BY <2>14, <2>15, <2>16, <2>17, <2>18
<1> QED BY <1>6, <1>7

LEMMA RunTodoOrder ==
  ASSUME NEW s, Own(s), s.tid # None, NEW ever \in SUBSET Parcels, NEW from \in Nat,
         Onwards(s, ever, from), Short
  PROVE  Onwards(RunTodo(s), ever, from)
<1> DEFINE t == ForceRelease(s, s.todo.seq)
           todo == [t.todo EXCEPT !.active = 0]
           u == [t EXCEPT !.todo.active = 0]
<1>0. PICK at \in Nat : Ordered(s, ever, from, at)
  BY DEF Onwards
<1>1. Live(s) /\ s.ref = s.tid.ref /\ s \in Reorderer /\ s.todo \in Todo /\ s.todo.seq \in Nat
  BY OwnLive DEF Own, Sound, Reorderer, Todo
<1>2. CASE s.todo.active = 0
  BY <1>2 DEF RunTodo
<1>3. CASE s.todo.active = 1
  <2>1. PICK n \in 0..MaxFrame + 1 : Is(s.todo.seq, n)
    BY <1>0, <1>3 DEF Ordered, Numbers, Some
  <2>2. ForceReleased(s, t, s.todo.seq)
    BY <1>1, ForceReleaseIs
  <2>3. Onwards(t, ever, from)
    <3>1. /\ n < at => Ordered(t, ever, from, at)
          /\ at <= n => \/ Ordered(t, ever, from, n + 1)
                        \/ Ordered(t, ever, from, n) /\ t.tid.num = 0
      BY <1>0, <1>1, <2>1, ForceReleaseOrder
    <3>2. n \in Nat /\ n + 1 \in Nat /\ (n < at \/ at <= n)
      BY <1>0
    <3> HIDE DEF t
    <3> QED BY <1>0, <3>1, <3>2 DEF Onwards
  <2>4. RunTodo(s) = Release(u)
    BY <1>1, <1>3 DEF RunTodo, Live
  <2> HIDE DEF t
  <2>5. Live(t) /\ t.ref = t.tid.ref /\ t \in Reorderer /\ t.todo \in Todo
    BY <1>1, <2>2, LiveBuffer DEF ForceReleased
  <2>6. todo \in Todo /\ todo.active = 0 /\ u = [t EXCEPT !.todo = todo]
    <3>1. 0 \in 0..1
      OBVIOUS
    <3> QED BY <2>5, <3>1 DEF Todo, Reorderer
  <2> HIDE DEF todo
  <2>7. u \in Reorderer /\ u.tid = t.tid /\ u.ref = t.ref /\ u.timer = t.timer /\ u.out = t.out
        /\ u.todo = todo
    <3> HIDE DEF u
    <3> QED BY <2>5, <2>6 DEF Reorderer
  <2> HIDE DEF u
  <2>8. Live(u) /\ u.ref = u.tid.ref
    BY <2>5, <2>7 DEF Live, Sound
  <2>9. Onwards(u, ever, from)
    BY <2>3, <2>6, <2>7 DEF Onwards, Ordered, Numbers
  <2> QED BY <2>4, <2>8, <2>9, ReleaseOrder DEF Onwards
<1> QED BY <1>1, <1>2, <1>3 DEF Todo
-----------------------------------------------------------------------------
(* The sender's window *)

\* The frames the sender has given up.
Missing == {m \in 0..base - 1 : ~Whole(m)}

SenderInv ==
  /\ got \in SUBSET Parcels /\ \A e \in got : e[2] \in PartsOf(e[1])
  /\ jumps = 0 => Cardinality(Missing) <= lost

LEMMA MissingFinite == ASSUME base \in Nat PROVE IsFiniteSet(Missing) /\ Cardinality(Missing) \in Nat
<1>1. IsFiniteSet(0..base - 1)
  BY FS_Interval
<1>2. Missing \subseteq 0..base - 1
  BY DEF Missing
<1>3. IsFiniteSet(Missing)
  BY <1>1, <1>2, FS_Subset
<1> QED BY <1>3, FS_CardinalityType

\* A window of slots that got nothing would hold more frames than the sender may give up.
LEMMA RoomIs ==
  ASSUME Inv, SenderInv, jumps = 0, lost <= WinSize \div 2, NEW n \in Window
  PROVE  Room(n, got)
<1> SUFFICES ASSUME NEW at \in Nat, \A e \in got : e[1] < at, ~(n < at + WinSize) PROVE FALSE
  BY DEF Room
<1>1. /\ base \in Nat /\ WinSize \in Nat /\ n \in Nat /\ lost \in Nat /\ WinSize \div 2 \in Nat
      /\ 2 * (WinSize \div 2) <= WinSize /\ n <= base + WinSize \div 2 - 1
  <2>1. base \in Nat /\ WinSize \in Nat /\ MaxFrame \in Nat /\ lost \in Nat
    BY Sizes DEF Inv
  <2> QED BY <2>1 DEF Window
<1> DEFINE Hole == at..base - 1
<1>2. Hole \subseteq Missing
  <2> SUFFICES ASSUME NEW m \in Hole PROVE m \in Missing
    OBVIOUS
  <2>1. m \in Nat /\ at <= m /\ m \in 0..base - 1
    BY <1>1
  <2>2. \A p \in PartsOf(m) : <<m, p>> \notin got
    <3> SUFFICES ASSUME NEW p \in PartsOf(m), <<m, p>> \in got PROVE FALSE
      OBVIOUS
    <3>1. m < at
      <4>1. <<m, p>>[1] < at
        OBVIOUS
      <4> QED BY <4>1
    <3> QED BY <2>1, <3>1
  <2>3. 0 \in PartsOf(m) \/ 1 \in PartsOf(m)
    BY DEF PartsOf
  <2> QED BY <2>1, <2>2, <2>3 DEF Missing, Whole
<1>3. Cardinality(Hole) = base - at
  BY <1>1, FS_Interval
<1> HIDE DEF Hole
<1>4. IsFiniteSet(Missing) /\ Cardinality(Missing) \in Nat
  BY <1>1, MissingFinite
<1>5. Cardinality(Hole) <= Cardinality(Missing)
  BY <1>2, <1>4, FS_Subset
<1>6. Cardinality(Missing) <= lost
  BY DEF SenderInv
<1> QED BY <1>1, <1>3, <1>4, <1>5, <1>6

LEMMA SenderFirst == Init => SenderInv
<1> SUFFICES ASSUME Init PROVE SenderInv
  OBVIOUS
<1>1. got = {} /\ base = 0 /\ lost = 0
  BY DEF Init
<1>2. Missing = {}
  BY <1>1 DEF Missing
<1> QED BY <1>1, <1>2, FS_EmptySet DEF SenderInv

\* A frame that arrives is missing no longer, if it ever was.
LEMMA SenderMore ==
  ASSUME Inv, SenderInv, NEW n \in Nat, NEW p \in PartsOf(n), got' = got \cup {<<n, p>>},
         base' = base, lost' \in {lost, lost + 1}, jumps' = jumps
  PROVE  SenderInv'
<1>1. base \in Nat /\ lost \in Nat
  BY Sizes DEF Inv
<1>2. got' \in SUBSET Parcels /\ \A e \in got' : e[2] \in PartsOf(e[1])
  <2>1. p \in 0..2
    BY DEF PartsOf
  <2>2. <<n, p>> \in Parcels
    BY <2>1 DEF Parcels
  <2> QED BY <2>2 DEF SenderInv
<1>3. Missing' \subseteq Missing
  BY DEF Missing, Whole
<1>4. IsFiniteSet(Missing) /\ Cardinality(Missing) \in Nat
  BY <1>1, MissingFinite
<1>5. Cardinality(Missing') <= Cardinality(Missing) /\ IsFiniteSet(Missing')
  BY <1>3, <1>4, FS_Subset
<1>6. Cardinality(Missing') \in Nat
  BY <1>5, FS_CardinalityType
<1> QED BY <1>1, <1>2, <1>4, <1>5, <1>6 DEF SenderInv

LEMMA SlideOnKeeps ==
  ASSUME Inv, SenderInv, SlideOn
  PROVE  SenderInv'
<1>1. base \in Nat /\ lost \in Nat /\ base' = base + 1 /\ got' = got /\ jumps' = jumps
      /\ ((Whole(base) /\ lost' = lost) \/ lost' = lost + 1)
  BY Sizes DEF Inv, SlideOn
<1>2. IsFiniteSet(Missing) /\ Cardinality(Missing) \in Nat
  BY <1>1, MissingFinite
<1>3. 0..base' - 1 = (0..base - 1) \cup {base}
  BY <1>1
<1>4. Missing' = IF Whole(base) THEN Missing ELSE Missing \cup {base}
  BY <1>1, <1>3 DEF Missing, Whole
<1>5. base \notin Missing
  BY <1>1 DEF Missing
<1>6. Cardinality(Missing \cup {base}) = Cardinality(Missing) + 1
  BY <1>2, <1>5, FS_AddElement
<1>7. jumps' = 0 => Cardinality(Missing') <= lost'
  BY <1>1, <1>2, <1>4, <1>6 DEF SenderInv
<1> QED BY <1>1, <1>7 DEF SenderInv

LEMMA SenderStep == Inv /\ SenderInv /\ [Next]_vars => SenderInv'
<1> SUFFICES ASSUME Inv, SenderInv, [Next]_vars PROVE SenderInv'
  OBVIOUS
<1>1. CASE Receive
  <2>1. PICK n \in Window : \E p \in PartsOf(n) :
          Arrive(n, p) \/ ArriveAgain(n, p) \/ ReportDropped(n, p)
    BY <1>1 DEF Receive
  <2>2. PICK p \in PartsOf(n) : Arrive(n, p) \/ ArriveAgain(n, p) \/ ReportDropped(n, p)
    BY <2>1
  <2>3. n \in Nat
    <3>1. n \in 0..MaxFrame /\ MaxFrame \in Nat
      BY WindowIs, Sizes
    <3> QED BY <3>1
  <2>4. got' = got \cup {<<n, p>>} /\ base' = base /\ lost' \in {lost, lost + 1} /\ jumps' = jumps
    BY <2>2 DEF Arrive, ArriveAgain, ReportDropped
  <2> QED BY <2>3, <2>4, SenderMore
<1>2. CASE SlideOn
  BY <1>2, SlideOnKeeps
<1>3. CASE Jump
  <2>1. got' = got /\ jumps' # 0
    BY <1>3 DEF Jump, Inv
  <2> QED BY <2>1 DEF SenderInv
<1>4. CASE UNCHANGED <<base, got, lost, jumps>>
  BY <1>4 DEF SenderInv, Missing, Whole
<1>5. CASE \/ WorkTodo \/ Tick \/ LongTick \/ Expire \/ ReorderTimeout \/ UpdateTid \/ DelTid
           \/ FreeTid \/ AddTid \/ Idle \/ UNCHANGED vars
  BY <1>4, <1>5 DEF WorkTodo, Tick, LongTick, Expire, ReorderTimeout, UpdateTid, DelTid, FreeTid,
                    AddTid, Idle, sender, vars
<1> QED BY <1>1, <1>2, <1>3, <1>5 DEF Next
-----------------------------------------------------------------------------
(* The order is kept *)

\* Everything that went up is of before the window, and what has arrived since is in it.
Kept ==
  \E from \in Nat : /\ Ordered(rx, got, from, from)
                    /\ \A f \in given : f.n \in Nat /\ f.n < from

OrderInv ==
  /\ sessions = 0 => rx.tid # None /\ old = None
  /\ Steady => late = 0 /\ twice = 0 /\ Kept

\* The frames that go up follow the ones before.
LEMMA BecomesOrder ==
  ASSUME NEW r \in Reorderer, NEW ever, NEW from \in Nat, Onwards(r, ever, from),
         \A f \in given : f.n \in Nat /\ f.n < from, late = 0, twice = 0,
         Becomes(r), firing' = firing, got' = ever
  PROVE  late' = 0 /\ twice' = 0 /\ Kept'
<1> DEFINE Up == {i \in DOMAIN r.out : ~r.out[i].made}
           before(i) == given \cup {r.out[j] : j \in {k \in Up : k < i}}
           s == [r EXCEPT !.out = <<>>]
<1>1. PICK to \in Nat : Ordered(r, ever, from, to)
  BY DEF Onwards
<1>2. Sorted(r.out, from, to) /\ r.out \in Seq(Frame) /\ from <= to
  BY <1>1 DEF Ordered, Reorderer
<1>3. \A i \in DOMAIN r.out : r.out[i].n \in Nat /\ from <= r.out[i].n /\ r.out[i].n < to
  BY <1>2, FramesIn DEF Sorted
<1>4. ASSUME NEW i \in DOMAIN r.out, NEW f \in before(i)
      PROVE  ~(f.n > r.out[i].n) /\ f # r.out[i]
  <2>1. CASE f \in given
    BY <1>3, <2>1
  <2>2. CASE f \notin given
    <3>1. PICK j \in DOMAIN r.out : j < i /\ f = r.out[j]
      BY <2>2
    <3>2. r.out[j].n < r.out[i].n \/ (r.out[j].n = r.out[i].n /\ r.out[j].part # r.out[i].part)
      BY <1>2, <3>1 DEF Sorted
    <3> QED BY <1>3, <3>1, <3>2
  <2> QED BY <2>1, <2>2
<1>5. /\ rx' = s /\ given' = given \cup {r.out[j] : j \in Up}
      /\ late' = IF \E i \in Up : \E f \in before(i) : f.n > r.out[i].n THEN 1 ELSE late
      /\ twice' = IF \E i \in Up : r.out[i] \in before(i) THEN 1 ELSE twice
  BY DEF Becomes
<1>6. \A i \in Up : \A f \in before(i) : ~(f.n > r.out[i].n) /\ f # r.out[i]
  <2> HIDE DEF before
  <2> QED BY <1>4
<1>7. late' = 0 /\ twice' = 0
  <2> HIDE DEF before, Up
  <2> QED BY <1>5, <1>6
<1>8. \A f \in given' : f.n \in Nat /\ f.n < to
  <2> HIDE DEF before, s
  <2> QED BY <1>2, <1>3, <1>5
<1>9. s.tid = r.tid /\ s.out = <<>> /\ s.timer = r.timer /\ s.todo = r.todo
  BY DEF Reorderer
<1> HIDE DEF s, Up, before
<1>10. Ordered(s, ever, to, to)
  <2>1. to \in to..MaxFrame + 2
    BY <1>1, Sizes DEF Ordered
  <2>2. Sorted(<<>>, to, to)
    BY DEF Sorted
  <2> QED BY <1>1, <1>9, <2>1, <2>2 DEF Ordered, Numbers
<1>11. Ordered(rx, got, to, to)'
  BY <1>5, <1>10 DEF Ordered, InWindow, Placed, Holds, Numbers
<1> QED BY <1>7, <1>8, <1>11 DEF Kept

\* The frames stay where they are.
LEMMA KeptSame ==
  ASSUME Kept, rx'.tid = rx.tid, rx'.out = rx.out, got' = got, given' = given, Numbers(rx)'
  PROVE  Kept'
<1>1. PICK from \in Nat : Ordered(rx, got, from, from) /\ \A f \in given : f.n \in Nat /\ f.n < from
  BY DEF Kept
<1>2. Ordered(rx, got, from, from)'
  BY <1>1 DEF Ordered, InWindow, Placed, Holds
<1> QED BY <1>1, <1>2 DEF Kept

LEMMA KeptNumbers == ASSUME Kept PROVE Numbers(rx)
  BY DEF Kept, Ordered

LEMMA OrderFirst == Init => OrderInv
<1> SUFFICES ASSUME Init PROVE OrderInv
  OBVIOUS
<1> DEFINE t == NewTid(FirstSn, 0)
<1>1. /\ rx = [tid |-> t, ref |-> 0, timer |-> NoTimer, todo |-> [active |-> 0, seq |-> 0],
               out |-> <<>>, gap |-> 0, skew |-> 0]
      /\ old = None /\ firing = 0 /\ given = {} /\ late = 0 /\ twice = 0 /\ got = {}
  BY DEF Init
<1>2. t.start = FirstSn /\ \A i \in Slots : t.buf[i] = <<>>
  BY DEF NewTid
<1>3. rx.tid = t /\ rx.timer.pending = 0 /\ rx.todo.active = 0 /\ rx.out = <<>>
  BY <1>1 DEF NoTimer
<1>4. t # None
  BY BufferIs, FirstState, <1>3 DEF Inv, Own, Sound, Reorderer, NewTid, None
<1> HIDE DEF t
<1>5. Is(t.start, 0)
  <2>1. FirstSn \in Int /\ SnMod \in Int /\ FirstSn = 0 + FirstSn + SnMod * 0
    BY Sizes
  <2> QED BY <1>2, <2>1 DEF Is
<1>6. InWindow(t, {}, 0)
  <2>1. 0 \in 0..MaxFrame + 2
    BY Sizes
  <2>2. \A i \in Slots : DOMAIN t.buf[i] = {}
    BY <1>2
  <2>3. Placed(t.buf, {}, 0)
    BY <2>2 DEF Placed
  <2> QED BY <1>5, <2>1, <2>3 DEF InWindow
<1>7. Ordered(rx, got, 0, 0)
  <2>1. 0 \in 0..MaxFrame + 2
    BY Sizes
  <2>2. Sorted(<<>>, 0, 0)
    BY DEF Sorted
  <2> QED BY <1>1, <1>3, <1>6, <2>1, <2>2 DEF Ordered, Numbers
<1>8. Kept
  BY <1>1, <1>7 DEF Kept
<1> QED BY <1>1, <1>3, <1>4, <1>8 DEF OrderInv

\* A frame is handled.
LEMMA HandleOrder ==
  ASSUME Inv, SenderInv, Short, rx.tid # None, Kept, late = 0, twice = 0,
         jumps = 0, lost <= WinSize \div 2,
         NEW n \in Window, NEW p \in PartsOf(n), NEW m \in BOOLEAN,
         Handle([n |-> n, part |-> p, made |-> m]), rx'.skew = 0,
         firing' = firing, got' = got \cup {<<n, p>>}
  PROVE  late' = 0 /\ twice' = 0 /\ Kept'
<1> DEFINE f == [n |-> n, part |-> p, made |-> m]
           r == Reorder(rx, f)
           u == RunTodo(r)
           more == got \cup {<<n, p>>}
<1>1. f \in Frame /\ f.n = n /\ f.part = p
  <2>1. n \in 0..MaxFrame /\ p \in 0..2
    BY WindowIs DEF PartsOf
  <2> QED BY <2>1 DEF Frame
<1> HIDE DEF f
<1>2. PICK from \in Nat : Ordered(rx, got, from, from) /\ \A g \in given : g.n \in Nat /\ g.n < from
  BY DEF Kept
<1>3. Handled(rx, r, Waits(rx)) /\ Own(rx)
  BY <1>1, ReorderIs DEF Inv
<1>4. Handled(r, u, Waits(r))
  <2> HIDE DEF r
  <2> QED BY <1>3, RunTodoIs DEF Handled
<1>5. Becomes(u)
  BY DEF Handle, f
<1>6. u \in Reorderer /\ u.skew = 0 /\ r.skew = 0
  <2> HIDE DEF r, u
  <2>1. u \in Reorderer /\ r \in Reorderer
    BY <1>3, <1>4 DEF Handled, Own, Sound
  <2>2. rx'.skew = u.skew
    BY <1>5, <2>1 DEF Becomes, Reorderer
  <2>3. r.skew \in 0..1
    BY <2>1 DEF Reorderer
  <2> QED BY <1>4, <2>1, <2>2, <2>3 DEF Handled
<1>7. Onwards(rx, got, from) /\ Room(n, got)
  BY <1>2, RoomIs DEF Onwards
<1>8. got \in SUBSET Parcels /\ \A e \in got : e[2] \in PartsOf(e[1])
  BY DEF SenderInv
<1>9. Onwards(r, more, from)
  <2>1. Reorder(rx, f).skew = 0
    BY <1>6
  <2>2. Onwards(Reorder(rx, f), got \cup {<<f.n, f.part>>}, from)
    BY <1>1, <1>3, <1>7, <1>8, <2>1, ReorderOrder
  <2> QED BY <1>1, <2>2
<1>10. more \in SUBSET Parcels
  <2>1. n \in Nat /\ p \in 0..2
    <3>1. n \in 0..MaxFrame /\ MaxFrame \in Nat
      BY WindowIs, Sizes
    <3> QED BY <3>1 DEF PartsOf
  <2>2. <<n, p>> \in Parcels
    BY <2>1 DEF Parcels
  <2> QED BY <1>8, <2>2
<1> HIDE DEF r, more
<1>11. Onwards(u, more, from)
  BY <1>3, <1>9, <1>10, RunTodoOrder DEF Handled
<1> HIDE DEF u
<1> QED BY <1>2, <1>5, <1>6, <1>11, BecomesOrder DEF more

LEMMA ReceiveOrder ==
  ASSUME Inv, SenderInv, OrderInv, Short, Receive
  PROVE  OrderInv'
<1>0. PICK n \in Window : \E p \in PartsOf(n) :
        Arrive(n, p) \/ ArriveAgain(n, p) \/ ReportDropped(n, p)
  BY DEF Receive
<1>1. PICK p \in PartsOf(n) : Arrive(n, p) \/ ArriveAgain(n, p) \/ ReportDropped(n, p)
  BY <1>0
<1>2. PICK m \in BOOLEAN : Handle([n |-> n, part |-> p, made |-> m])
  BY <1>1 DEF Arrive, ArriveAgain, ReportDropped
<1>3. /\ UNCHANGED <<old, firing, base, jumps, sessions>> /\ got' = got \cup {<<n, p>>}
      /\ lost' \in {lost, lost + 1} /\ lost \in Nat /\ WinSize \div 2 \in Nat
  BY <1>1, Sizes DEF Arrive, ArriveAgain, ReportDropped, Inv
<1> DEFINE f == [n |-> n, part |-> p, made |-> m]
           u == RunTodo(Reorder(rx, f))
<1>4. f \in Frame
  <2>1. n \in 0..MaxFrame /\ p \in 0..2
    BY WindowIs DEF PartsOf
  <2> QED BY <2>1 DEF Frame
<1> HIDE DEF f
<1>5. Handled(rx, u, Waits(rx))
  BY <1>4, HandleIs DEF Inv
<1>6. Becomes(u)
  BY <1>2 DEF Handle, f
<1> HIDE DEF u
<1>7. rx'.tid = u.tid /\ rx'.skew = u.skew /\ (rx.skew = 1 => u.skew = 1) /\ rx.skew \in 0..1
      /\ (u.tid = None <=> rx.tid = None)
  <2>1. u \in Reorderer /\ rx \in Reorderer
    BY <1>5 DEF Handled, Own, Sound, Inv
  <2> QED BY <1>5, <1>6, <2>1 DEF Becomes, Reorderer, Handled
<1>8. sessions' = 0 => rx'.tid # None /\ old' = None
  BY <1>3, <1>7 DEF OrderInv
<1>9. ASSUME Steady' PROVE late' = 0 /\ twice' = 0 /\ Kept'
  <2>1. jumps = 0 /\ sessions = 0 /\ rx.skew = 0 /\ rx'.skew = 0 /\ lost <= WinSize \div 2
    BY <1>3, <1>7, <1>9 DEF Steady
  <2>2. rx.tid # None /\ late = 0 /\ twice = 0 /\ Kept
    BY <2>1 DEF OrderInv, Steady
  <2> QED BY <1>2, <1>3, <2>1, <2>2, HandleOrder
<1> QED BY <1>8, <1>9 DEF OrderInv

LEMMA WorkTodoOrder ==
  ASSUME Inv, SenderInv, OrderInv, Short, WorkTodo
  PROVE  OrderInv'
<1> DEFINE u == RunTodo(rx)
<1>1. Handled(rx, u, Waits(rx))
  BY RunTodoIs DEF Inv
<1>2. Becomes(u) /\ UNCHANGED <<old, firing, base, got, lost, jumps, sessions>>
  BY DEF WorkTodo, sender
<1>3. ASSUME NEW from \in Nat, Onwards(rx, got, from), rx.tid # None PROVE Onwards(u, got, from)
  BY <1>3, RunTodoOrder DEF Inv, SenderInv
<1> HIDE DEF u
<1>4. /\ u \in Reorderer /\ rx'.tid = u.tid /\ rx'.skew = u.skew
      /\ (rx.skew = 1 => u.skew = 1) /\ rx.skew \in 0..1
      /\ (u.tid = None <=> rx.tid = None)
  <2>1. u \in Reorderer /\ rx \in Reorderer
    BY <1>1 DEF Handled, Own, Sound, Inv
  <2> QED BY <1>1, <1>2, <2>1 DEF Becomes, Reorderer, Handled
<1>5. sessions' = 0 => rx'.tid # None /\ old' = None
  BY <1>2, <1>4 DEF OrderInv
<1>6. ASSUME Steady' PROVE late' = 0 /\ twice' = 0 /\ Kept'
  <2>1. rx.tid # None /\ late = 0 /\ twice = 0 /\ Kept
    BY <1>2, <1>4, <1>6 DEF OrderInv, Steady
  <2>2. PICK from \in Nat : Ordered(rx, got, from, from) /\ \A f \in given : f.n \in Nat /\ f.n < from
    BY <2>1 DEF Kept
  <2>3. Onwards(u, got, from)
    BY <1>3, <2>1, <2>2 DEF Onwards
  <2> QED BY <1>2, <1>4, <2>1, <2>2, <2>3, BecomesOrder
<1> QED BY <1>5, <1>6 DEF OrderInv

\* Steps that leave the buffer and the frames alone.
LEMMA QuietOrder ==
  ASSUME OrderInv, rx'.tid = rx.tid, rx'.out = rx.out, rx'.skew = rx.skew,
         UNCHANGED <<stack, old, got, sessions>>,
         Steady' => jumps = 0 /\ lost <= WinSize \div 2, Kept => Numbers(rx)'
  PROVE  OrderInv'
<1>1. Steady' => Steady
  BY DEF Steady
<1>2. Kept => Kept'
  BY KeptSame DEF stack
<1> QED BY <1>1, <1>2 DEF OrderInv, stack

LEMMA TimeOrder ==
  ASSUME Inv, OrderInv, Tick \/ LongTick \/ Expire \/ ReorderTimeout
  PROVE  OrderInv'
<1>0. rx \in Reorderer /\ rx.timer \in Timer /\ rx.todo \in Todo /\ rx.timer.due <= rx.timer.pending
  BY RxIs
<1>1. CASE Tick
  <2>1. rx' = [rx EXCEPT !.timer.due = rx.timer.pending] /\ UNCHANGED <<stack, old, firing, sender>>
    BY <1>1 DEF Tick
  <2>2. /\ rx'.tid = rx.tid /\ rx'.out = rx.out /\ rx'.skew = rx.skew /\ rx'.todo = rx.todo
        /\ rx'.timer.pending = rx.timer.pending /\ rx'.timer.sn = rx.timer.sn
    BY <1>0, <2>1 DEF Reorderer, Timer
  <2>3. Kept => Numbers(rx)'
    BY <2>1, <2>2, KeptNumbers DEF Numbers
  <2> QED BY <2>1, <2>2, <2>3, QuietOrder DEF Steady, sender
<1>2. CASE LongTick
  <2>1. rx' = rx /\ UNCHANGED <<stack, old, firing, sender>>
    BY <1>2 DEF LongTick
  <2>2. Kept => Numbers(rx)'
    BY <2>1, KeptNumbers DEF Numbers
  <2> QED BY <2>1, <2>2, QuietOrder DEF Steady, sender
<1>3. CASE Expire
  <2>1. rx' = DelTimer(rx) /\ rx.timer.due = 1 /\ UNCHANGED <<stack, old, sender>>
    BY <1>3 DEF Expire
  <2>2. rx.timer.pending = 1
    BY <1>0, <2>1 DEF Timer
  <2>3. /\ rx'.tid = rx.tid /\ rx'.out = rx.out /\ rx'.skew = rx.skew /\ rx'.todo = rx.todo
        /\ rx'.timer.sn = rx.timer.sn
    BY <1>0, <2>1 DEF Reorderer, Timer, DelTimer
  <2>4. Kept => Numbers(rx)'
    BY <2>2, <2>3, KeptNumbers DEF Numbers
  <2> QED BY <2>1, <2>3, <2>4, QuietOrder DEF Steady, sender
<1>4. CASE ReorderTimeout
  <2>1. /\ rx' = IF rx.ref = rx.timer.ref THEN AskFor(rx.timer.sn) ELSE rx
        /\ firing = 1 /\ firing' = 0 /\ UNCHANGED <<stack, old, sender>>
    BY <1>4 DEF ReorderTimeout
  <2>2. /\ rx'.tid = rx.tid /\ rx'.out = rx.out /\ rx'.skew = rx.skew /\ rx'.timer = rx.timer
        /\ rx'.todo = rx.todo \/ rx'.todo.seq = rx.timer.sn
    BY <1>0, <2>1 DEF Reorderer, AskFor
  <2>3. Kept => Numbers(rx)'
    BY <2>1, <2>2, KeptNumbers DEF Numbers
  <2> QED BY <2>1, <2>2, <2>3, QuietOrder DEF Steady, sender
<1> QED BY <1>1, <1>2, <1>3, <1>4

\* A BlockAck request is for the sender's oldest frame.
LEMMA UpdateTidOrder ==
  ASSUME Inv, OrderInv, UpdateTid
  PROVE  OrderInv'
<1>1. /\ rx' = [rx EXCEPT !.todo = [active |-> 1, seq |-> SnOf(base)]]
      /\ UNCHANGED <<stack, old, firing, got, lost, jumps, sessions>>
  BY DEF UpdateTid
<1>2. /\ rx'.tid = rx.tid /\ rx'.out = rx.out /\ rx'.skew = rx.skew /\ rx'.timer = rx.timer
      /\ rx'.todo.seq = SnOf(base)
  BY <1>1, RxIs DEF Reorderer
<1>3. Some(SnOf(base))
  <2>1. base \in 0..MaxFrame + 1 /\ base \in Int
    BY Sizes DEF Inv
  <2> QED BY <2>1, IsSn DEF Some
<1>4. Kept => Numbers(rx)'
  BY <1>1, <1>2, <1>3, KeptNumbers DEF Numbers, Some, Is
<1> QED BY <1>1, <1>2, <1>4, QuietOrder DEF Steady

LEMMA OrderStep ==
  ASSUME Short
  PROVE  Inv /\ SenderInv /\ OrderInv /\ [Next]_vars => OrderInv'
<1> SUFFICES ASSUME Inv, SenderInv, OrderInv, [Next]_vars PROVE OrderInv'
  OBVIOUS
<1>1. CASE Receive
  BY <1>1, ReceiveOrder
<1>2. CASE WorkTodo
  BY <1>2, WorkTodoOrder
<1>3. CASE Tick \/ LongTick \/ Expire \/ ReorderTimeout
  BY <1>3, TimeOrder
<1>4. CASE UpdateTid
  BY <1>4, UpdateTidOrder
<1>5. CASE DelTid
  <2>1. sessions' = sessions + 1 /\ sessions \in Nat
    BY <1>5, RxIs DEF DelTid, Inv
  <2> QED BY <2>1 DEF OrderInv, Steady
<1>6. CASE FreeTid
  BY <1>6 DEF FreeTid, sender, OrderInv, Steady
<1>7. CASE AddTid
  BY <1>7 DEF AddTid, sender, OrderInv, Steady
<1>8. CASE SlideOn
  <2>1. UNCHANGED <<stack, rx, old, firing, got, jumps, sessions>> /\ lost' \in {lost, lost + 1}
        /\ lost \in Nat /\ WinSize \div 2 \in Nat
    BY <1>8, Sizes DEF SlideOn, Inv
  <2>2. Kept => Numbers(rx)'
    BY <2>1, KeptNumbers DEF Numbers
  <2>3. Steady' => jumps = 0 /\ lost <= WinSize \div 2
    BY <2>1 DEF Steady
  <2> QED BY <2>1, <2>2, <2>3, QuietOrder
<1>9. CASE Jump
  <2>1. jumps' # 0 /\ UNCHANGED <<rx, old, sessions>>
    BY <1>9 DEF Jump, Inv
  <2> QED BY <2>1 DEF OrderInv, Steady
<1>10. CASE Idle \/ UNCHANGED vars
  <2>1. UNCHANGED vars
    BY <1>10 DEF Idle
  <2>2. Kept => Numbers(rx)'
    BY <2>1, KeptNumbers DEF Numbers, vars
  <2> QED BY <2>1, <2>2, QuietOrder DEF vars, stack, Steady
<1> QED BY <1>1, <1>2, <1>3, <1>4, <1>5, <1>6, <1>7, <1>8, <1>9, <1>10 DEF Next

\* OnceInOrder: while the peer gives up no window of frames, the session lasts and no
\* slot was cut out of the window, skw_reorder_rx hands up every frame once and in the
\* order it was sent, whatever the timer, BlockAck requests and repetitions do.
THEOREM OrderKept == ASSUME Short PROVE Spec => []OnceInOrder
<1>1. Init => Inv /\ SenderInv /\ OrderInv
  BY FirstState, SenderFirst, OrderFirst
<1>2. Inv /\ SenderInv /\ OrderInv /\ [Next]_vars => (Inv /\ SenderInv /\ OrderInv)'
  BY InvStep, SenderStep, OrderStep
<1>3. OrderInv => OnceInOrder
  BY DEF OrderInv, OnceInOrder
<1> QED BY <1>1, <1>2, <1>3, PTL DEF Spec
=============================================================================
