---------------------------- MODULE DeviceProofs ----------------------------
(***************************************************************************)
(* Proofs about the real-time clock and the console, for any fields of a   *)
(* date and for any readers, ring, keyboard and screen.                    *)
(***************************************************************************)
EXTENDS Clock, Console, TLAPS

-----------------------------------------------------------------------------
(* The clock                                                               *)

\* A register holds the BCD of a value of its field.
Whole(i, b) ==
  /\ b \in Nat /\ Conv(b) \in 0 .. (Radix[i] - 1)
  /\ b = Byte(Tobcd(Conv(b)))

\* The seconds have gone on by d since the first register was read; if they
\* have not, neither has anything that was read after it.
Since(d) ==
  /\ Conv(reg[1]) = (Conv(t1[1]) + d) % Radix[1]
  /\ d = 0 => \A i \in 1 .. Len(t1) : t1[i] = reg[i]

Reading ==
  /\ t1 \in Seq(Nat) /\ Len(t1) <= Len(Radix)
  /\ t2 \in Seq(Nat) /\ Len(t2) <= Len(Radix)
  /\ t2 # <<>> => Len(t1) = Len(Radix)
  /\ Time(reg) \in shown
  /\ t1 # <<>> => Whole(1, t1[1]) /\ \E d \in 0..ticks : Since(d)
  /\ t2 # <<>> /\ t2[1] = t1[1] => Time(t1) \in shown

ClockInv ==
  /\ reg \in [Field -> Nat] /\ \A i \in Field : Whole(i, reg[i])
  /\ ticks \in 0..MaxTicks
  /\ call \in {"none", "cmostime", "converted", "setdate"}
  /\ call = "setdate" => date \in Times /\ left \in Field
  /\ call = "cmostime" => Reading
  /\ TimeWhole

\* The fields are numbered from 1, and the seconds are the first.
LEMMA FieldIs ==
  /\ Len(Radix) \in Nat /\ Len(Radix) > 0 /\ Field = 1 .. Len(Radix) /\ 1 \in Field
  /\ \A i \in Field : Radix[i] \in 1..100
<1>1. Len(Radix) \in Nat /\ Len(Radix) > 0 /\ DOMAIN Radix = 1 .. Len(Radix)
  BY ClockAssumption
<1>2. ASSUME NEW S, Radix \in Seq(S)
      PROVE \A i \in 1 .. Len(Radix) : Radix[i] \in S
  BY <1>2
<1>3. Len(Radix) \in Nat /\ Len(Radix) > 0 => 1 \in 1 .. Len(Radix)
  OBVIOUS
<1> QED BY <1>1, <1>2, <1>3, ClockAssumption, Zenon DEF Field

\* tobcd() and CONV undo each other on a value of two digits.
LEMMA BcdBack ==
  ASSUME NEW x \in 0..99
  PROVE Byte(Tobcd(x)) \in Nat /\ Conv(Byte(Tobcd(x))) = x
<1>1. (x \div 100) % 10 = 0 /\ (x \div 1000) % 10 = 0
  BY Z3
<1>2. PICK q \in 0..9 : q = (x \div 10) % 10
  BY Z3
<1>3. PICK m \in 0..9 : m = x % 10
  BY Z3
<1>4. x = 10 * q + m
  BY <1>2, <1>3, Z3
<1>5. Tobcd(x) = m + 16 * q
  BY <1>1, <1>2, <1>3 DEF Tobcd
<1>6. Byte(Tobcd(x)) = m + 16 * q
  BY <1>5, Z3 DEF Byte
<1>7. (m + 16 * q) \div 16 = q /\ (m + 16 * q) % 16 = m
  BY Z3
<1>8. Conv(Byte(Tobcd(x))) = 10 * q + m
  BY Zenon, <1>6, <1>7 DEF Conv
<1> QED BY <1>4, <1>6, <1>8

\* What setdate() writes for a field, and what the chip has, is a value of it.
LEMMA WholeBcd ==
  ASSUME NEW i \in Field, NEW x \in 0 .. (Radix[i] - 1)
  PROVE Whole(i, Byte(Tobcd(x))) /\ Conv(Byte(Tobcd(x))) = x
<1>0. Radix[i] \in 1..100
  BY FieldIs, Zenon
<1>1. x \in 0..99
  BY <1>0
<1> QED BY Zenon, <1>1, BcdBack DEF Whole

\* The fields of a time.
LEMMA TimesField ==
  ASSUME NEW t \in Times, NEW i \in Field
  PROVE t[i] \in 0 .. (Radix[i] - 1)
<1>1. t[i] \in UNION {0 .. (Radix[k] - 1) : k \in Field} /\ t[i] < Radix[i]
  BY Zenon DEF Times
<1>2. PICK k \in Field : t[i] \in 0 .. (Radix[k] - 1)
  BY Zenon, <1>1
<1>3. Radix[k] \in 1..100 /\ Radix[i] \in 1..100
  BY FieldIs, Zenon
<1> QED BY <1>1, <1>2, <1>3

\* The seconds go round: a sum of two values of a field.
LEMMA Around ==
  ASSUME NEW n \in Nat \ {0}, NEW a \in 0 .. (n - 1), NEW d \in 0 .. (n - 1)
  PROVE (a + d) % n = IF a + d < n THEN a + d ELSE a + d - n
<1>1. CASE a + d < n
  BY <1>1, Z3
<1>2. CASE ~(a + d < n)
  <2>1. PICK k \in 0 .. (n - 1) : k = a + d - n
    BY <1>2
  <2>2. (k + n) % n = k
    BY Z3
  <2> QED BY <1>2, <2>1, <2>2
<1> QED BY Zenon, <1>1, <1>2

\* The registers all hold values of their fields.
LEMMA TickWhole ==
  ASSUME ClockInv
  PROVE LET new == Bcd(Later(Time(reg))) IN
        /\ new \in [Field -> Nat] /\ \A i \in Field : Whole(i, new[i])
        /\ Conv(new[1]) = (Conv(reg[1]) + 1) % Radix[1]
<1> DEFINE t == Time(reg)  new == Bcd(Later(t))
<1>1. \A i \in Field : t[i] \in 0 .. (Radix[i] - 1)
  BY Zenon DEF ClockInv, Whole, Time
<1>2. \A i \in Field : Later(t)[i] \in 0 .. (Radix[i] - 1)
  <2> TAKE i \in Field
  <2>0. Radix[i] \in 1..100
    BY FieldIs, Zenon
  <2> HIDE DEF t
  <2>1. Radix[i] \in Nat \ {0} /\ t[i] \in 0 .. (Radix[i] - 1)
    BY <1>1, <2>0
  <2>2. (t[i] + 1) % Radix[i] \in 0 .. (Radix[i] - 1)
    BY <2>1, Z3
  <2> QED BY Zenon, <2>1, <2>2 DEF Later
<1>3. \A i \in Field : Whole(i, new[i]) /\ Conv(new[i]) = Later(t)[i]
  BY Zenon, <1>2, WholeBcd DEF Bcd
<1>4. new \in [Field -> Nat]
  BY Zenon, <1>3 DEF Bcd, Whole
<1>5. Later(t)[1] = (t[1] + 1) % Radix[1]
  <2>1. Carries(t, 1)
    BY DEF Carries
  <2> QED BY Zenon, <2>1, FieldIs DEF Later
<1>6. t[1] = Conv(reg[1])
  BY Zenon, FieldIs DEF Time
<1> QED BY Zenon, <1>3, <1>4, <1>5, <1>6, FieldIs

\* What the steps of the chip, of cmostime() and of setdate() leave true.
LEMMA ClockStep ==
  ASSUME ClockInv, [KNext]_kvars
  PROVE ClockInv'
<1>1. ASSUME Tick PROVE ClockInv'
  <2>1. reg' \in [Field -> Nat] /\ \A i \in Field : Whole(i, reg'[i])
    BY Zenon, <1>1, TickWhole DEF Tick
  <2>2. CASE call # "cmostime"
    BY Zenon, <1>1, <2>1, <2>2 DEF Tick, ClockInv, TimeWhole, Whole
  <2>3. CASE call = "cmostime"
    <3>1. ticks < MaxTicks /\ ticks' = ticks + 1 /\ shown' = shown \cup {Time(reg')}
          /\ UNCHANGED <<call, date, left, t1, t2>>
      BY Zenon, <1>1, <2>3 DEF Tick
    <3>2. Reading /\ ticks \in 0..MaxTicks
      BY Zenon, <2>3 DEF ClockInv
    <3>3. ASSUME t1 # <<>> PROVE \E d \in 0..ticks' : Since(d)'
      <4>1. PICK d \in 0..ticks : Since(d)
        BY Zenon, <3>2, <3>3 DEF Reading
      <4>2. Conv(t1[1]) \in 0 .. (Radix[1] - 1) /\ Radix[1] \in 1..100
        BY <3>2, <3>3, FieldIs, Zenon DEF Reading, Whole
      <4>3. Conv(reg'[1]) = (Conv(reg[1]) + 1) % Radix[1]
        BY Zenon, <1>1, TickWhole DEF Tick
      <4>4. PICK a \in 0 .. (Radix[1] - 1) : a = Conv(t1[1])
        BY Zenon, <4>2
      <4>5. ticks \in Nat /\ MaxTicks \in Nat /\ MaxTicks < Radix[1]
        BY <3>2, ClockAssumption
      <4>6. d + 1 \in 0 .. (Radix[1] - 1) /\ d \in 0 .. (Radix[1] - 1) /\ Radix[1] \in Nat \ {0}
            /\ 1 \in 0 .. (Radix[1] - 1)
        BY <3>1, <4>2, <4>5
      <4>7. (a + d) % Radix[1] = IF a + d < Radix[1] THEN a + d ELSE a + d - Radix[1]
        BY Zenon, <4>6, Around
      <4>8. (a + (d + 1)) % Radix[1]
              = IF a + (d + 1) < Radix[1] THEN a + (d + 1) ELSE a + (d + 1) - Radix[1]
        BY Zenon, <4>6, Around
      <4>9. PICK b \in 0 .. (Radix[1] - 1) : b = (a + d) % Radix[1]
        BY <4>6, <4>7
      <4>10. (b + 1) % Radix[1] = IF b + 1 < Radix[1] THEN b + 1 ELSE b + 1 - Radix[1]
        BY Zenon, <4>6, Around
      <4>11. (b + 1) % Radix[1] = (a + (d + 1)) % Radix[1]
        BY <4>6, <4>7, <4>8, <4>9, <4>10
      <4>12. Conv(reg[1]) = b
        BY Zenon, <4>1, <4>4, <4>9 DEF Since
      <4>13. Conv(reg'[1]) = (a + (d + 1)) % Radix[1]
        BY Zenon, <4>3, <4>11, <4>12
      <4>14. d + 1 \in 0..ticks' /\ d + 1 # 0
        BY <3>1, <3>2
      <4>15. Since(d + 1)'
        BY Zenon, <3>1, <4>4, <4>13, <4>14 DEF Since
      <4> QED BY Zenon, <4>14, <4>15
    <3>4. Reading'
      BY Zenon, <3>1, <3>2, <3>3 DEF Reading, Whole
    <3>5. ticks' \in 0..MaxTicks
      BY <3>1, <3>2, ClockAssumption
    <3>6. TimeWhole'
      BY Zenon, <2>3, <3>1 DEF TimeWhole
    <3> QED BY Zenon, <2>1, <2>3, <3>1, <3>4, <3>5, <3>6 DEF ClockInv, Whole
  <2> QED BY Zenon, <2>2, <2>3
<1>2. ASSUME Round, UNCHANGED reg PROVE Reading' /\ ticks' \in 0..MaxTicks
  BY <1>2, FieldIs, ClockAssumption DEF Round, Reading, Time
<1>3. ASSUME Getdate PROVE ClockInv'
  BY Zenon, <1>2, <1>3 DEF Getdate, ClockInv, TimeWhole, Whole
<1>4. ASSUME Fill1 PROVE ClockInv'
  <2>1. Reading /\ UNCHANGED <<reg, ticks, call, date, left, t2, shown>>
        /\ Len(t1) < Len(Radix) /\ t1' = Append(t1, reg[Len(t1) + 1]) /\ call = "cmostime"
    BY Zenon, <1>4 DEF Fill1, ClockInv
  <2>2. Len(t1) + 1 \in Field /\ reg \in [Field -> Nat] /\ ticks \in Nat /\ t1 \in Seq(Nat)
    BY <2>1, FieldIs DEF ClockInv, Reading
  <2>3. reg[Len(t1) + 1] \in Nat
    BY <2>2, Zenon
  <2>4. t1' \in Seq(Nat) /\ Len(t1') = Len(t1) + 1 /\ t1'[Len(t1) + 1] = reg[Len(t1) + 1]
        /\ \A i \in 1 .. Len(t1) : t1'[i] = t1[i]
    BY <2>1, <2>2, <2>3
  <2>5. Whole(1, t1'[1]) /\ \E d \in 0..ticks' : Since(d)'
    <3>1. CASE t1 = <<>>
      <4>1. t1'[1] = reg[1] /\ Len(t1') = 1
        BY <2>4, <3>1
      <4>2. Whole(1, t1'[1])
        BY Zenon, <4>1, FieldIs DEF ClockInv
      <4>3. Conv(reg[1]) \in 0 .. (Radix[1] - 1) /\ Radix[1] \in 1..100
        BY FieldIs, Zenon DEF ClockInv, Whole
      <4>4. PICK a \in 0 .. (Radix[1] - 1) : a = Conv(reg[1])
        BY Zenon, <4>3
      <4>5. (a + 0) % Radix[1] = a
        BY <4>3, Z3
      <4>6. Since(0)'
        BY <2>1, <4>1, <4>4, <4>5 DEF Since
      <4> QED BY <2>1, <2>2, <4>2, <4>6
    <3>2. CASE t1 # <<>>
      <4>1. PICK d \in 0..ticks : Since(d)
        BY Zenon, <2>1, <3>2 DEF Reading
      <4>2. 1 \in 1 .. Len(t1)
        BY <2>2, <3>2
      <4>3. t1'[1] = t1[1] /\ Whole(1, t1[1])
        BY Zenon, <2>1, <2>4, <3>2, <4>2 DEF Reading
      <4>4. ASSUME d = 0, NEW i \in 1 .. Len(t1') PROVE t1'[i] = reg[i]
        <5>1. i \in 1 .. Len(t1) \/ i = Len(t1) + 1
          BY <2>2, <2>4
        <5> QED BY Zenon, <2>4, <4>1, <4>4, <5>1 DEF Since
      <4>5. Since(d)'
        BY Zenon, <2>1, <4>1, <4>3, <4>4 DEF Since
      <4> QED BY Zenon, <2>1, <4>3, <4>5
    <3> QED BY Zenon, <3>1, <3>2
  <2>6. t2 = <<>>
    BY <2>1, <2>2, FieldIs DEF Reading
  <2>7. Reading'
    BY <2>1, <2>2, <2>4, <2>5, <2>6, FieldIs DEF Reading, Time, Whole
  <2> QED BY Zenon, <2>1, <2>7 DEF ClockInv, TimeWhole, Whole
<1>5. ASSUME UpdateInProgress PROVE ClockInv'
  BY Zenon, <1>2, <1>5 DEF UpdateInProgress, ClockInv, TimeWhole, Whole
<1>6. ASSUME Fill2 PROVE ClockInv'
  <2>1. Reading /\ UNCHANGED <<reg, ticks, call, date, left, t1, shown>>
        /\ Len(t1) = Len(Radix) /\ Len(t2) < Len(Radix)
        /\ t2' = Append(t2, reg[Len(t2) + 1]) /\ call = "cmostime"
    BY Zenon, <1>6 DEF Fill2, ClockInv
  <2>2. Len(t2) + 1 \in Field /\ reg \in [Field -> Nat] /\ ticks \in Nat /\ t2 \in Seq(Nat)
    BY <2>1, FieldIs DEF ClockInv, Reading
  <2>3. reg[Len(t2) + 1] \in Nat
    BY <2>2, Zenon
  <2>4. t2' \in Seq(Nat) /\ Len(t2') = Len(t2) + 1 /\ t2'[Len(t2) + 1] = reg[Len(t2) + 1]
        /\ \A i \in 1 .. Len(t2) : t2'[i] = t2[i]
    BY <2>1, <2>2, <2>3
  <2>5. ASSUME t2'[1] = t1[1] PROVE Time(t1) \in shown
    <3>1. CASE t2 # <<>>
      <4>1. t2'[1] = t2[1]
        BY <2>2, <2>4, <3>1
      <4> QED BY Zenon, <2>1, <2>5, <3>1, <4>1 DEF Reading
    <3>2. CASE t2 = <<>>
      <4>1. reg[1] = t1[1]
        BY <2>4, <2>5, <3>2
      <4>2. t1 # <<>> /\ t1 \in Seq(Nat)
        BY <2>1, FieldIs DEF Reading
      <4>3. PICK d \in 0..ticks : Since(d)
        BY Zenon, <2>1, <4>2 DEF Reading
      <4>4. Conv(t1[1]) \in 0 .. (Radix[1] - 1) /\ Radix[1] \in 1..100
        BY <2>1, <4>2, FieldIs, Zenon DEF Reading, Whole
      <4>5. PICK a \in 0 .. (Radix[1] - 1) : a = Conv(t1[1])
        BY <4>4
      <4>6. a = (a + d) % Radix[1]
        BY Zenon, <4>1, <4>3, <4>5 DEF Since
      <4>7. d \in 0 .. (Radix[1] - 1) /\ Radix[1] \in Nat \ {0}
        <5>1. ticks \in 0..MaxTicks /\ MaxTicks \in Nat /\ MaxTicks < Radix[1]
          BY Zenon, ClockAssumption DEF ClockInv
        <5> QED BY <4>4, <5>1
      <4>8. (a + d) % Radix[1] = IF a + d < Radix[1] THEN a + d ELSE a + d - Radix[1]
        BY Zenon, <4>4, <4>7, Around
      <4>9. d = 0
        BY <4>4, <4>6, <4>7, <4>8
      <4>10. \A i \in 1 .. Len(t1) : t1[i] = reg[i]
        BY Zenon, <4>3, <4>9 DEF Since
      <4>11. Time(t1) = Time(reg)
        BY Zenon, <2>1, <4>10, FieldIs DEF Time
      <4> QED BY Zenon, <2>1, <4>11 DEF Reading
    <3> QED BY Zenon, <3>1, <3>2
  <2>6. Reading'
    BY <2>1, <2>2, <2>4, <2>5 DEF Reading, Since, Time, Whole
  <2> QED BY Zenon, <2>1, <2>6 DEF ClockInv, TimeWhole, Whole
<1>7. ASSUME Compare PROVE ClockInv'
  <2>1. CASE t1 = t2
    <3>1. Len(t2) = Len(Radix) /\ Reading
      BY Zenon, <1>7 DEF Compare, ClockInv
    <3>2. t2 # <<>>
      BY <3>1, FieldIs DEF Reading
    <3>3. Time(t1) \in shown
      BY Zenon, <2>1, <3>1, <3>2 DEF Reading
    <3> QED BY <1>7, <2>1, <3>3 DEF Compare, ClockInv, TimeWhole, Whole
  <2>2. CASE t1 # t2
    BY Zenon, <1>2, <1>7, <2>2 DEF Compare, ClockInv, TimeWhole, Whole
  <2> QED BY Zenon, <2>1, <2>2
<1>8. ASSUME Return PROVE ClockInv'
  BY <1>8, ClockAssumption DEF Return, ClockInv, TimeWhole, Whole
<1>9. ASSUME Outb PROVE ClockInv'
  <2>1. date \in Times /\ left \in Field /\ call = "setdate"
    BY Zenon, <1>9 DEF Outb, ClockInv
  <2>2. Whole(left, Byte(Tobcd(date[left])))
    BY Zenon, <2>1, TimesField, WholeBcd
  <2>3. reg' \in [Field -> Nat] /\ \A i \in Field : Whole(i, reg'[i])
    BY Zenon, <1>9, <2>1, <2>2 DEF Outb, ClockInv, Whole
  <2>4. left # 1 => left - 1 \in Field
    BY <2>1, FieldIs
  <2> QED BY Zenon, <1>9, <2>1, <2>3, <2>4 DEF Outb, ClockInv, TimeWhole, Whole
<1>10. ASSUME NEW t \in Times, Setdate(t) PROVE ClockInv'
  BY <1>10, FieldIs DEF Setdate, ClockInv, TimeWhole, Whole
<1>11. ASSUME UNCHANGED kvars PROVE ClockInv'
  BY Zenon, <1>11 DEF kvars, ClockInv, TimeWhole, Whole, Reading, Since, Time
<1> QED BY Zenon, <1>1, <1>3, <1>4, <1>5, <1>6, <1>7, <1>8, <1>9, <1>10, <1>11 DEF KNext

\* The chip starts with a time in its registers, and nobody reads it.
LEMMA ClockStarts == KInit => ClockInv
<1> SUFFICES ASSUME KInit PROVE ClockInv
  BY Zenon
<1>1. PICK t \in Times : reg = Bcd(t)
  BY Zenon DEF KInit
<1>2. \A i \in Field : Whole(i, reg[i])
  BY Zenon, <1>1, TimesField, WholeBcd DEF Bcd
<1>3. reg \in [Field -> Nat]
  BY Zenon, <1>1, <1>2 DEF Bcd, Whole
<1> QED BY <1>2, <1>3, ClockAssumption DEF KInit, ClockInv, TimeWhole

\* For any fields of a date, the date that cmostime() returns is one that the
\* clock showed in the last round of its loop, while it goes on and while
\* setdate() writes its registers before and after.
THEOREM DatesWhole == KSpec => []TimeWhole
<1>1. KInit => ClockInv
  BY Zenon, ClockStarts
<1>2. ClockInv /\ [KNext]_kvars => ClockInv'
  BY Zenon, ClockStep
<1>3. ClockInv => TimeWhole
  BY Zenon DEF ClockInv
<1> QED BY <1>1, <1>2, <1>3, PTL DEF KSpec
-----------------------------------------------------------------------------
(* Arithmetic of the ring                                                  *)

\* Division with a remainder, for a divisor that is not known.
LEMMA DivMod ==
  ASSUME NEW a \in Int, NEW n \in Nat \ {0}
  PROVE  /\ a % n \in 0 .. (n - 1) /\ a \div n \in Int
         /\ a = n * (a \div n) + (a % n)
OBVIOUS

\* The remainder of a number that is written with one.
LEMMA ModIs ==
  ASSUME NEW n \in Nat \ {0}, NEW q \in Int, NEW m \in 0 .. (n - 1),
         NEW a \in Int, a = n * q + m
  PROVE  a % n = m
<1> DEFINE x == a \div n
           y == a % n
<1>1. a = n * x + y /\ y \in 0 .. (n - 1) /\ x \in Int
  BY Zenon, DivMod
<1> HIDE DEF x, y
<1>2. n * (q - x) = y - m
  BY <1>1
<1>3. CASE q - x >= 1
  <2>1. n * (q - x) >= n
    BY <1>1, <1>3
  <2> QED BY <1>1, <1>2, <2>1
<1>4. CASE q - x <= -1
  <2>1. n * (q - x) <= -n
    BY <1>1, <1>4
  <2> QED BY <1>1, <1>2, <2>1
<1>5. CASE q = x
  BY <1>1, <1>5 DEF y
<1> QED BY <1>1, <1>3, <1>4, <1>5

\* Numbers that are less than the divisor apart have different remainders.
LEMMA ModDiffers ==
  ASSUME NEW n \in Nat \ {0}, NEW a \in Int, NEW b \in Int, a < b, b < a + n
  PROVE  a % n # b % n
<1> SUFFICES ASSUME a % n = b % n PROVE FALSE
  BY Zenon
<1>1. a = n * (a \div n) + (a % n) /\ a \div n \in Int /\ a % n \in 0 .. (n - 1)
  BY Zenon, DivMod
<1>2. b = n * (b \div n) + (b % n) /\ b \div n \in Int
  BY Zenon, DivMod
<1> DEFINE q == (b \div n) - (a \div n)
<1>3. q \in Int /\ b - a = n * q
  BY <1>1, <1>2
<1> HIDE DEF q
<1>4. CASE q >= 1
  <2>1. n * q >= n
    BY <1>3, <1>4
  <2> QED BY <1>3, <2>1
<1>5. CASE q <= 0
  <2>1. n * q <= 0
    BY <1>3, <1>5
  <2> QED BY <1>3, <2>1
<1> QED BY <1>3, <1>4, <1>5

\* The constants, as numbers.
LEMMA Sizes ==
  /\ INPUT_BUF \in Nat \ {0} /\ WRAP \in Nat \ {0} /\ INPUT_BUF < WRAP
  /\ COLS \in Nat \ {0} /\ ROWS \in Nat /\ ROWS > 1
BY ConsoleAssumption

\* An index and its value WRAP further on have the same place in the ring.
LEMMA SamePlace ==
  ASSUME NEW x \in Int PROVE (x + WRAP) % INPUT_BUF = x % INPUT_BUF
<1> DEFINE k == WRAP \div INPUT_BUF
           q == x \div INPUT_BUF
           m == x % INPUT_BUF
<1>1. INPUT_BUF \in Nat \ {0} /\ WRAP \in Int /\ WRAP % INPUT_BUF = 0
  BY ConsoleAssumption
<1>2. WRAP = INPUT_BUF * k + (WRAP % INPUT_BUF) /\ k \in Int
  BY Zenon, <1>1, DivMod
<1>3. x = INPUT_BUF * q + m /\ m \in 0 .. (INPUT_BUF - 1) /\ q \in Int
  BY Zenon, <1>1, DivMod
<1> HIDE DEF k, q, m
<1>4. x + WRAP = INPUT_BUF * (q + k) + m /\ x + WRAP \in Int /\ q + k \in Int
  BY <1>1, <1>2, <1>3
<1>5. (x + WRAP) % INPUT_BUF = m
  BY <1>1, <1>3, <1>4, ModIs
<1> QED BY Zenon, <1>5 DEF m

Index == 0 .. (WRAP - 1)

\* y is n further on than x, round the end of the indices.
Ahead(x, n, y) == n \in Index /\ x + n \in {y, y + WRAP}

\* The difference of two indices as the code computes it.
LEMMA Distance ==
  ASSUME NEW x \in Index, NEW y \in Index
  PROVE  /\ Ahead(x, (y - x) % WRAP, y)
         /\ \A n : Ahead(x, n, y) => (y - x) % WRAP = n
<1> DEFINE d == (y - x) % WRAP
<1>1. WRAP \in Nat \ {0}
  BY Zenon, Sizes
<1>2. y - x \in Int /\ y - x > -WRAP /\ y - x < WRAP
  BY <1>1 DEF Index
<1>3. ASSUME NEW n, Ahead(x, n, y) PROVE d = n
  <2>0. n \in 0 .. (WRAP - 1)
    BY Zenon, <1>3 DEF Ahead, Index
  <2>1. CASE x + n = y
    <3>1. y - x = WRAP * 0 + n
      BY <2>0, <2>1, <1>1 DEF Index
    <3> QED BY <1>1, <1>2, <2>0, <3>1, ModIs
  <2>2. CASE x + n = y + WRAP
    <3>1. y - x = WRAP * (-1) + n
      BY <2>0, <2>2, <1>1 DEF Index
    <3> QED BY <1>1, <1>2, <2>0, <3>1, ModIs
  <2> QED BY Zenon, <1>3, <2>1, <2>2 DEF Ahead
<1>4. Ahead(x, d, y)
  <2>1. CASE y >= x
    <3>1. Ahead(x, y - x, y)
      BY <2>1, <1>1 DEF Ahead, Index
    <3> QED BY Zenon, <3>1, <1>3
  <2>2. CASE y < x
    <3>1. Ahead(x, y - x + WRAP, y)
      BY <2>2, <1>1 DEF Ahead, Index
    <3> QED BY Zenon, <3>1, <1>3
  <2> QED BY <1>2, <2>1, <2>2 DEF Index
<1> QED BY Zenon, <1>3, <1>4

\* What an index is after it was moved forward, or back.
LEMMA Moved ==
  ASSUME NEW x \in Index, NEW n \in Index
  PROVE  /\ (x + n) % WRAP \in Index /\ x + n \in {(x + n) % WRAP, ((x + n) % WRAP) + WRAP}
         /\ (x - n) % WRAP \in Index /\ x - n \in {(x - n) % WRAP, ((x - n) % WRAP) - WRAP}
<1>1. WRAP \in Nat \ {0}
  BY Sizes
<1>2. x \in 0 .. (WRAP - 1) /\ n \in 0 .. (WRAP - 1) /\ x + n \in Int /\ x - n \in Int
  BY DEF Index
<1>3. (x + n) % WRAP \in Index /\ x + n \in {(x + n) % WRAP, ((x + n) % WRAP) + WRAP}
  <2>1. CASE x + n < WRAP
    <3>1. x + n = WRAP * 0 + (x + n) /\ x + n \in 0 .. (WRAP - 1)
      BY <1>1, <1>2, <2>1
    <3>2. (x + n) % WRAP = x + n
      BY <1>1, <1>2, <3>1, ModIs
    <3> QED BY Zenon, <3>1, <3>2 DEF Index
  <2>2. CASE x + n >= WRAP
    <3>1. x + n = WRAP * 1 + (x + n - WRAP) /\ x + n - WRAP \in 0 .. (WRAP - 1)
      BY <1>1, <1>2, <2>2
    <3>2. (x + n) % WRAP = x + n - WRAP
      BY <1>1, <1>2, <3>1, ModIs
    <3> QED BY <1>1, <1>2, <3>1, <3>2 DEF Index
  <2> QED BY <1>1, <1>2, <2>1, <2>2
<1>4. (x - n) % WRAP \in Index /\ x - n \in {(x - n) % WRAP, ((x - n) % WRAP) - WRAP}
  <2>1. CASE x - n >= 0
    <3>1. x - n = WRAP * 0 + (x - n) /\ x - n \in 0 .. (WRAP - 1)
      BY <1>1, <1>2, <2>1
    <3>2. (x - n) % WRAP = x - n
      BY <1>1, <1>2, <3>1, ModIs
    <3> QED BY Zenon, <3>1, <3>2 DEF Index
  <2>2. CASE x - n < 0
    <3>1. PICK m \in 0 .. (WRAP - 1) : m = x - n + WRAP
      BY <1>1, <1>2, <2>2
    <3>2. x - n = WRAP * (-1) + m
      BY <1>1, <1>2, <3>1
    <3>3. (x - n) % WRAP = m
      BY <1>1, <1>2, <3>2, ModIs
    <3> QED BY <1>1, <1>2, <3>1, <3>3 DEF Index
  <2> QED BY <1>2, <2>1, <2>2
<1> QED BY Zenon, <1>3, <1>4

-----------------------------------------------------------------------------
(* Pieces of the ring                                                      *)

\* n characters of a ring b, from index x on.
Piece(b, x, n) == [k \in 1..n |-> b[(x + k - 1) % INPUT_BUF]]

Ring(T) == [0 .. (INPUT_BUF - 1) -> T]

LEMMA PieceIs ==
  ASSUME NEW T, NEW b \in Ring(T), NEW x \in Int, NEW n \in Nat
  PROVE  /\ Piece(b, x, n) \in Seq(T) /\ Len(Piece(b, x, n)) = n
         /\ \A k \in 1..n : /\ (x + k - 1) % INPUT_BUF \in 0 .. (INPUT_BUF - 1)
                            /\ Piece(b, x, n)[k] = b[(x + k - 1) % INPUT_BUF]
<1>1. \A k \in 1..n : (x + k - 1) % INPUT_BUF \in 0 .. (INPUT_BUF - 1)
  <2> SUFFICES ASSUME NEW k \in 1..n PROVE (x + k - 1) % INPUT_BUF \in 0 .. (INPUT_BUF - 1)
    BY Zenon
  <2>1. x + k - 1 \in Int
    OBVIOUS
  <2> QED BY Zenon, <2>1, Sizes, DivMod
<1>2. Piece(b, x, n) \in [1..n -> T]
  BY Zenon, <1>1 DEF Piece, Ring
<1>3. Piece(b, x, n) \in Seq(T) /\ Len(Piece(b, x, n)) = n
  BY <1>2
<1> QED BY Zenon, <1>1, <1>3 DEF Piece

\* Sequences with the same elements are the same.
LEMMA SameSeq ==
  ASSUME NEW T, NEW s \in Seq(T), NEW t \in Seq(T), Len(s) = Len(t),
         \A k \in 1..Len(s) : s[k] = t[k]
  PROVE  s = t
OBVIOUS

\* A character behind two sequences is behind the second one.
Behind(s, t, c) == Append(s \o t, c) = s \o Append(t, c)

LEMMA JoinAppend ==
  ASSUME NEW T, NEW s \in Seq(T), NEW t \in Seq(T), NEW c \in T
  PROVE  Behind(s, t, c)
<1>1. /\ s \o t \in Seq(T) /\ Len(s \o t) = Len(s) + Len(t)
      /\ Append(t, c) \in Seq(T) /\ Len(Append(t, c)) = Len(t) + 1
      /\ Len(s) \in Nat /\ Len(t) \in Nat
  OBVIOUS
<1>2. /\ Append(s \o t, c) \in Seq(T) /\ Len(Append(s \o t, c)) = Len(s) + Len(t) + 1
      /\ s \o Append(t, c) \in Seq(T) /\ Len(s \o Append(t, c)) = Len(s) + (Len(t) + 1)
  BY <1>1
<1>3. ASSUME NEW k \in 1..(Len(s) + Len(t) + 1)
      PROVE Append(s \o t, c)[k] = (s \o Append(t, c))[k]
  <2>1. CASE k \in 1..Len(s)
    BY <1>1, <2>1
  <2>2. CASE k = Len(s) + Len(t) + 1
    BY <1>1, <2>2
  <2>3. CASE k > Len(s) /\ k <= Len(s) + Len(t)
    BY <1>1, <2>3
  <2> QED BY <1>1, <2>1, <2>2, <2>3
<1>4. Len(Append(s \o t, c)) = Len(s \o Append(t, c))
  BY <1>1, <1>2
<1> QED BY Zenon, <1>2, <1>3, <1>4, SameSeq DEF Behind

\* A piece is the same WRAP further on.
LEMMA PieceAround ==
  ASSUME NEW b, NEW x \in Int, NEW n \in Nat
  PROVE  Piece(b, x + WRAP, n) = Piece(b, x, n)
<1>1. \A k \in 1..n : (x + WRAP + k - 1) % INPUT_BUF = (x + k - 1) % INPUT_BUF
  <2> SUFFICES ASSUME NEW k \in 1..n
               PROVE (x + WRAP + k - 1) % INPUT_BUF = (x + k - 1) % INPUT_BUF
    BY Zenon
  <2>1. x + WRAP + k - 1 = (x + k - 1) + WRAP /\ x + k - 1 \in Int
    BY Sizes
  <2> QED BY Zenon, <2>1, SamePlace
<1> QED BY Zenon, <1>1 DEF Piece

\* The piece of an index that is ahead of another one.
SamePiece(b, x, y, m) == Piece(b, y, m) = Piece(b, x, m)

LEMMA PieceAhead ==
  ASSUME NEW b, NEW x \in Index, NEW y \in Index, NEW m \in Nat, NEW n, Ahead(x, n, y)
  PROVE  SamePiece(b, x + n, y, m)
<1>1. y \in Int /\ (x + n = y \/ x + n = y + WRAP)
  BY DEF Ahead, Index
<1> QED BY Zenon, <1>1, PieceAround DEF SamePiece

\* And its place.
LEMMA PlaceAhead ==
  ASSUME NEW x \in Index, NEW y \in Index, NEW n, Ahead(x, n, y)
  PROVE  y % INPUT_BUF = (x + n) % INPUT_BUF
<1>1. y \in Int /\ (x + n = y \/ x + n = y + WRAP)
  BY DEF Ahead, Index
<1> QED BY Zenon, <1>1, SamePlace

\* Two pieces, one after the other, are one.
LEMMA PieceJoin ==
  ASSUME NEW T, NEW b \in Ring(T), NEW x \in Int, NEW m \in Nat, NEW n \in Nat
  PROVE  Piece(b, x, m) \o Piece(b, x + m, n) = Piece(b, x, m + n)
<1> DEFINE s == Piece(b, x, m)  t == Piece(b, x + m, n)  u == Piece(b, x, m + n)
<1>0. x + m \in Int /\ m + n \in Nat
  OBVIOUS
<1>1. s \in Seq(T) /\ Len(s) = m /\ \A k \in 1..m : s[k] = b[(x + k - 1) % INPUT_BUF]
  BY Zenon, PieceIs
<1>2. t \in Seq(T) /\ Len(t) = n /\ \A k \in 1..n : t[k] = b[(x + m + k - 1) % INPUT_BUF]
  BY ZenonT(30), <1>0, PieceIs
<1>3. u \in Seq(T) /\ Len(u) = m + n /\ \A k \in 1..(m + n) : u[k] = b[(x + k - 1) % INPUT_BUF]
  BY ZenonT(30), <1>0, PieceIs
<1> HIDE DEF s, t, u
<1>4. s \in Seq(T) /\ Len(s) = m /\ t \in Seq(T) /\ Len(t) = n
  BY Zenon, <1>1, <1>2
<1>5. ASSUME NEW k \in 1..(m + n) PROVE (s \o t)[k] = u[k]
  <2>1. CASE k \in 1..m
    <3>1. (s \o t)[k] = s[k]
      BY <1>4, <2>1
    <3> QED BY Zenon, <1>1, <1>3, <2>1, <3>1
  <2>2. CASE k \notin 1..m
    <3>1. k - m \in 1..n /\ x + m + (k - m) - 1 = x + k - 1
      BY <2>2
    <3>2. (s \o t)[k] = t[k - m]
      BY <1>4, <2>2
    <3>3. t[k - m] = b[(x + m + (k - m) - 1) % INPUT_BUF]
      BY Zenon, <1>2, <3>1
    <3> QED BY Zenon, <1>3, <3>1, <3>2, <3>3
  <2> QED BY Zenon, <2>1, <2>2
<1>6. s \o t \in Seq(T) /\ Len(s \o t) = m + n
  BY <1>4
<1>7. s \o t = u
  BY Zenon, <1>3, <1>5, <1>6, SameSeq
<1> QED BY Zenon, <1>7 DEF s, t, u

\* A piece without its first character.
Rest(b, x, n) ==
  Piece(b, x, n) # <<>> /\ Tail(Piece(b, x, n)) = Piece(b, x + 1, n - 1)

LEMMA PieceTail ==
  ASSUME NEW T, NEW b \in Ring(T), NEW x \in Int, NEW n \in Nat \ {0}
  PROVE  Rest(b, x, n)
<1> DEFINE s == Piece(b, x, n)  t == Piece(b, x + 1, n - 1)
<1>0. x + 1 \in Int /\ n - 1 \in Nat /\ n \in Nat
  OBVIOUS
<1>1. s \in Seq(T) /\ Len(s) = n /\ \A k \in 1..n : s[k] = b[(x + k - 1) % INPUT_BUF]
  BY <1>0, PieceIs
<1>2. t \in Seq(T) /\ Len(t) = n - 1
      /\ \A k \in 1..(n - 1) : t[k] = b[(x + 1 + k - 1) % INPUT_BUF]
  BY <1>0, PieceIs
<1> HIDE DEF s, t
<1>3. s # <<>> /\ Tail(s) \in Seq(T) /\ Len(Tail(s)) = n - 1
  BY <1>1
<1>4. ASSUME NEW k \in 1..(n - 1) PROVE Tail(s)[k] = t[k]
  <2>1. Tail(s)[k] = s[k + 1] /\ k + 1 \in 1..n /\ x + (k + 1) - 1 = x + 1 + k - 1
    BY <1>1
  <2> QED BY Zenon, <1>1, <1>2, <2>1
<1>5. Tail(s) = t
  BY Zenon, <1>2, <1>3, <1>4, SameSeq
<1> QED BY Zenon, <1>3, <1>5 DEF s, t, Rest

\* A piece without its last character.
Shorter(b, x, n) ==
  /\ Piece(b, x, n) # <<>>
  /\ SubSeq(Piece(b, x, n), 1, Len(Piece(b, x, n)) - 1) = Piece(b, x, n - 1)

LEMMA PieceFront ==
  ASSUME NEW T, NEW b \in Ring(T), NEW x \in Int, NEW n \in Nat \ {0}
  PROVE  Shorter(b, x, n)
<1> DEFINE s == Piece(b, x, n)  t == Piece(b, x, n - 1)
<1>0. n - 1 \in Nat /\ n \in Nat
  OBVIOUS
<1>1. s \in Seq(T) /\ Len(s) = n /\ \A k \in 1..n : s[k] = b[(x + k - 1) % INPUT_BUF]
  BY ZenonT(30), <1>0, PieceIs
<1>2. t \in Seq(T) /\ Len(t) = n - 1
      /\ \A k \in 1..(n - 1) : t[k] = b[(x + k - 1) % INPUT_BUF]
  BY ZenonT(30), <1>0, PieceIs
<1> HIDE DEF s, t
<1>3. s # <<>> /\ SubSeq(s, 1, n - 1) \in Seq(T) /\ Len(SubSeq(s, 1, n - 1)) = n - 1
  BY <1>1
<1>4. ASSUME NEW k \in 1..(n - 1) PROVE SubSeq(s, 1, n - 1)[k] = t[k]
  <2>1. SubSeq(s, 1, n - 1)[k] = s[k] /\ k \in 1..n
    BY <1>1
  <2> QED BY Zenon, <1>1, <1>2, <2>1
<1>5. SubSeq(s, 1, n - 1) = t
  BY Zenon, <1>2, <1>3, <1>4, SameSeq
<1> QED BY Zenon, <1>1, <1>3, <1>5 DEF s, t, Shorter

\* A character that is stored behind a piece makes it longer, and leaves what
\* is before it alone.
Longer(d, b, x, m, c) ==
  /\ \A n \in 0..m : Piece(d, x, n) = Piece(b, x, n)
  /\ Piece(d, x, m + 1) = Append(Piece(b, x, m), c)

LEMMA PieceStore ==
  ASSUME NEW T, NEW b \in Ring(T), NEW x \in Int, NEW m \in Nat, NEW c \in T, NEW d,
         m < INPUT_BUF, d = [b EXCEPT ![(x + m) % INPUT_BUF] = c]
  PROVE  d \in Ring(T) /\ Longer(d, b, x, m, c)
<1> DEFINE i == (x + m) % INPUT_BUF
<1>1. x + m \in Int /\ m + 1 \in Nat
  OBVIOUS
<1>2. i \in 0 .. (INPUT_BUF - 1)
  BY Zenon, <1>1, Sizes, DivMod
<1>3. d \in Ring(T) /\ d[i] = c /\ \A j \in 0 .. (INPUT_BUF - 1) : j # i => d[j] = b[j]
  BY Zenon, <1>2 DEF Ring
<1>4. ASSUME NEW k \in 1..m PROVE d[(x + k - 1) % INPUT_BUF] = b[(x + k - 1) % INPUT_BUF]
  <2>1. /\ x + k - 1 \in Int /\ x + k - 1 < x + m /\ x + m < (x + k - 1) + INPUT_BUF
    BY Sizes
  <2>2. (x + k - 1) % INPUT_BUF # i
    BY Zenon, <1>1, <2>1, Sizes, ModDiffers
  <2>3. (x + k - 1) % INPUT_BUF \in 0 .. (INPUT_BUF - 1)
    BY Zenon, <2>1, Sizes, DivMod
  <2> QED BY Zenon, <1>3, <2>2, <2>3
<1> HIDE DEF i
<1>5. ASSUME NEW n \in 0..m PROVE Piece(d, x, n) = Piece(b, x, n)
  <2>1. \A k \in 1..n : k \in 1..m
    OBVIOUS
  <2> QED BY Zenon, <1>4, <2>1 DEF Piece
<1> DEFINE s == Piece(d, x, m + 1)  t == Piece(b, x, m)
<1>6. s \in Seq(T) /\ Len(s) = m + 1 /\ \A k \in 1..(m + 1) : s[k] = d[(x + k - 1) % INPUT_BUF]
  <2>1. ASSUME NEW f \in Ring(T), NEW n \in Nat
        PROVE  /\ Piece(f, x, n) \in Seq(T) /\ Len(Piece(f, x, n)) = n
               /\ \A k \in 1..n : Piece(f, x, n)[k] = f[(x + k - 1) % INPUT_BUF]
    BY Zenon, PieceIs
  <2> QED BY Zenon, <1>1, <1>3, <2>1
<1>7. t \in Seq(T) /\ Len(t) = m /\ \A k \in 1..m : t[k] = b[(x + k - 1) % INPUT_BUF]
  BY ZenonT(30), <1>1, PieceIs
<1> HIDE DEF s, t
<1>8. t \in Seq(T) /\ Len(t) = m /\ m \in 0..m
  BY <1>7
<1>9. Append(t, c) \in Seq(T) /\ Len(Append(t, c)) = m + 1
  BY <1>8
<1>10. ASSUME NEW k \in 1..(m + 1) PROVE s[k] = Append(t, c)[k]
  <2>1. CASE k \in 1..m
    <3>1. Append(t, c)[k] = t[k]
      BY <1>8, <2>1
    <3> QED BY Zenon, <1>4, <1>6, <1>7, <2>1, <3>1
  <2>2. CASE k = m + 1
    <3>1. Append(t, c)[k] = c /\ x + k - 1 = x + m
      BY <1>8, <2>2
    <3> QED BY Zenon, <1>3, <1>6, <3>1 DEF i
  <2>3. k \in 1..m \/ k = m + 1
    OBVIOUS
  <2> QED BY Zenon, <2>1, <2>2, <2>3
<1>11. s = Append(t, c)
  BY Zenon, <1>6, <1>9, <1>10, SameSeq
<1> QED BY Zenon, <1>3, <1>5, <1>11 DEF s, t, Longer

\* Nothing, from any index on.
LEMMA PieceNone ==
  ASSUME NEW b, NEW x PROVE Piece(b, x, 0) = <<>>
BY DEF Piece

-----------------------------------------------------------------------------
(* The console                                                             *)

Stored == Char \cup {<<>>}
Ready == (w - r) % WRAP
Typing == (e - w) % WRAP

\* The finished and the unfinished characters fit the ring, and there is no
\* newline among the latter.
RingInv ==
  /\ buf \in Ring(Stored) /\ r \in Index /\ w \in Index /\ e \in Index
  /\ Ready + Typing <= INPUT_BUF
  /\ \A k \in 1..Typing : Part(w, e)[k] # NEWLINE

ReaderType == [at : {"out", "in", "loop", "asleep"}, n : Nat, target : Nat]

ConsoleInv ==
  /\ RingInv
  /\ reader \in [Reader -> ReaderType] /\ killed \subseteq Reader
  /\ ReaderSleepsOnEmpty

\* The three indices, and the two pieces between them.
LEMMA RingIs ==
  ASSUME RingInv
  PROVE  /\ Ready \in Nat /\ Typing \in Nat /\ Ready + Typing <= INPUT_BUF
         /\ Ahead(r, Ready, w) /\ Ahead(w, Typing, e) /\ Ahead(r, Ready + Typing, e)
         /\ (e - r) % WRAP = Ready + Typing
         /\ Part(r, w) = Piece(buf, r, Ready) /\ Part(w, e) = Piece(buf, w, Typing)
         /\ Part(r, w) \in Seq(Stored) /\ Len(Part(r, w)) = Ready
         /\ Part(w, e) \in Seq(Stored) /\ Len(Part(w, e)) = Typing
         /\ Part(r, w) \o Part(w, e) = Piece(buf, r, Ready + Typing)
<1>1. r \in Index /\ w \in Index /\ e \in Index /\ buf \in Ring(Stored)
      /\ Ready + Typing <= INPUT_BUF
  BY Zenon DEF RingInv
<1>2. Ahead(r, Ready, w) /\ Ahead(w, Typing, e)
  BY Zenon, <1>1, Distance DEF Ready, Typing
<1>3. Ready \in Nat /\ Typing \in Nat /\ r \in Int /\ w \in Int
  BY <1>1, <1>2 DEF Ahead, Index
<1>4. Ahead(r, Ready + Typing, e)
  BY <1>1, <1>2, <1>3, Sizes DEF Ahead, Index
<1>5. (e - r) % WRAP = Ready + Typing
  BY Zenon, <1>1, <1>4, Distance
<1>6. Part(r, w) = Piece(buf, r, Ready) /\ Part(w, e) = Piece(buf, w, Typing)
  BY Zenon DEF Part, Piece, Ready, Typing
<1>7. /\ Part(r, w) \in Seq(Stored) /\ Len(Part(r, w)) = Ready
      /\ Part(w, e) \in Seq(Stored) /\ Len(Part(w, e)) = Typing
  <2>1. Piece(buf, r, Ready) \in Seq(Stored) /\ Len(Piece(buf, r, Ready)) = Ready
    BY Zenon, <1>1, <1>3, PieceIs
  <2>2. Piece(buf, w, Typing) \in Seq(Stored) /\ Len(Piece(buf, w, Typing)) = Typing
    BY Zenon, <1>1, <1>3, PieceIs
  <2> QED BY Zenon, <1>6, <2>1, <2>2
<1>8. Part(w, e) = Piece(buf, r + Ready, Typing)
  <2>1. SamePiece(buf, r + Ready, w, Typing)
    BY Zenon, <1>1, <1>2, <1>3, PieceAhead
  <2> QED BY Zenon, <1>6, <2>1 DEF SamePiece
<1>9. Part(r, w) \o Part(w, e) = Piece(buf, r, Ready + Typing)
  BY ZenonT(30), <1>1, <1>3, <1>6, <1>8, PieceJoin
<1> QED BY Zenon, <1>1, <1>2, <1>3, <1>4, <1>5, <1>6, <1>7, <1>9

\* What is known of new indices that are so far ahead of one another.
LEMMA RingNew ==
  ASSUME NEW m, NEW n,
         buf' \in Ring(Stored), r' \in Index, w' \in Index, e' \in Index,
         Ahead(r', m, w'), Ahead(w', n, e'), m + n <= INPUT_BUF,
         \A k \in 1..n : Piece(buf', w', n)[k] # NEWLINE
  PROVE  /\ RingInv'
         /\ Part(r, w)' = Piece(buf', r', m) /\ Part(w, e)' = Piece(buf', w', n)
<1>1. Ready' = m /\ Typing' = n
  BY Zenon, Distance DEF Ready, Typing
<1>2. Part(r, w)' = Piece(buf', r', m) /\ Part(w, e)' = Piece(buf', w', n)
  BY Zenon, <1>1 DEF Part, Piece, Ready, Typing
<1> QED BY Zenon, <1>1, <1>2 DEF RingInv

\* The tests of consoleintr() on the indices.
LEMMA RoomIs ==
  ASSUME RingInv
  PROVE  /\ Room <=> Ready + Typing < INPUT_BUF
         /\ Room => ((e + 1) % WRAP = (r + INPUT_BUF) % WRAP <=> Ready + Typing + 1 = INPUT_BUF)
         /\ Room => /\ (e + 1) % WRAP \in Index
                    /\ Ahead(r, Ready + Typing + 1, (e + 1) % WRAP)
                    /\ Ahead(w, Typing + 1, (e + 1) % WRAP)
<1>1. /\ Ready \in Nat /\ Typing \in Nat /\ Ready + Typing <= INPUT_BUF
      /\ Ahead(r, Ready + Typing, e) /\ Ahead(w, Typing, e)
      /\ (e - r) % WRAP = Ready + Typing
  BY Zenon, RingIs
<1>2. Room <=> Ready + Typing < INPUT_BUF
  BY Zenon, <1>1 DEF Room
<1>3. r \in Index /\ w \in Index /\ e \in Index /\ 1 \in Index /\ INPUT_BUF \in Index
  BY Sizes DEF RingInv, Index
<1> DEFINE f == (e + 1) % WRAP
           z == (r + INPUT_BUF) % WRAP
<1>4. /\ f \in Index /\ e + 1 \in {f, f + WRAP}
      /\ z \in Index /\ r + INPUT_BUF \in {z, z + WRAP}
  BY Zenon, <1>3, Moved
<1> HIDE DEF f, z
<1>5. ASSUME Ready + Typing < INPUT_BUF
      PROVE Ahead(r, Ready + Typing + 1, f) /\ Ahead(w, Typing + 1, f)
  BY <1>1, <1>3, <1>4, <1>5, Sizes DEF Ahead, Index
<1>6. ASSUME Ready + Typing < INPUT_BUF PROVE f = z <=> Ready + Typing + 1 = INPUT_BUF
  <2>1. r + (Ready + Typing + 1) \in {f, f + WRAP}
    BY Zenon, <1>5, <1>6 DEF Ahead
  <2> QED BY <1>1, <1>3, <1>4, <1>6, <2>1, Sizes DEF Index
<1> QED BY Zenon, <1>2, <1>4, <1>5, <1>6 DEF f, z

\* The default case of consoleintr(): the line gets longer, or is finished.
LEMMA StoreRing ==
  ASSUME NEW c \in Char, RingInv, Room,
         buf' = [buf EXCEPT ![e % INPUT_BUF] = c], e' = (e + 1) % WRAP,
         w' = (IF Finishes(c) THEN e' ELSE w), r' = r
  PROVE  RingInv' /\ Lines!Type(c)
<1> DEFINE n == Ready + Typing
<1>1. /\ Ready \in Nat /\ Typing \in Nat /\ Ahead(r, n, e) /\ Ahead(w, Typing, e)
      /\ Part(r, w) = Piece(buf, r, Ready) /\ Part(w, e) = Piece(buf, w, Typing)
      /\ Part(r, w) \in Seq(Stored) /\ Len(Part(r, w)) = Ready
      /\ Part(w, e) \in Seq(Stored) /\ Len(Part(w, e)) = Typing
      /\ Part(r, w) \o Part(w, e) = Piece(buf, r, n) /\ Ahead(r, Ready, w)
  BY Zenon, RingIs
<1>2. /\ n < INPUT_BUF /\ e' \in Index /\ Ahead(r, n + 1, e') /\ Ahead(w, Typing + 1, e')
      /\ e' = (r + INPUT_BUF) % WRAP <=> n + 1 = INPUT_BUF
  BY Zenon, RoomIs
<1>3. /\ r \in Index /\ w \in Index /\ e \in Index /\ buf \in Ring(Stored) /\ c \in Stored
      /\ \A k \in 1..Typing : Part(w, e)[k] # NEWLINE
  BY Zenon DEF RingInv, Stored
<1>4. /\ r \in Int /\ w \in Int /\ n \in Nat /\ Typing < INPUT_BUF /\ Ready \in 0..n
      /\ Typing + 1 \in Nat /\ n + 1 \in Nat /\ n + 1 <= INPUT_BUF /\ 0 \in Index
  BY <1>1, <1>2, <1>3, Sizes DEF Index
<1>5. e % INPUT_BUF = (r + n) % INPUT_BUF /\ e % INPUT_BUF = (w + Typing) % INPUT_BUF
  BY Zenon, <1>1, <1>3, PlaceAhead
<1> HIDE DEF n
<1>6. /\ buf' \in Ring(Stored) /\ Piece(buf', r, Ready) = Piece(buf, r, Ready)
      /\ Piece(buf', r, n + 1) = Append(Piece(buf, r, n), c)
  <2>1. buf' = [buf EXCEPT ![(r + n) % INPUT_BUF] = c]
    BY Zenon, <1>5
  <2>2. n \in Nat /\ n < INPUT_BUF
    BY Zenon, <1>2, <1>4
  <2>3. buf \in Ring(Stored) /\ r \in Int /\ c \in Stored
    BY Zenon, <1>3, <1>4
  <2>4. buf' \in Ring(Stored)
    BY Zenon, <2>1, <2>2, <2>3, PieceStore
  <2>5. Longer(buf', buf, r, n, c)
    BY Zenon, <2>1, <2>2, <2>3, PieceStore
  <2> QED BY Zenon, <1>4, <2>4, <2>5 DEF Longer
<1>7. Piece(buf', w, Typing + 1) = Append(Piece(buf, w, Typing), c)
  <2>1. buf' = [buf EXCEPT ![(w + Typing) % INPUT_BUF] = c]
    BY Zenon, <1>5
  <2>2. Typing \in Nat /\ Typing < INPUT_BUF
    BY Zenon, <1>1, <1>4
  <2>3. buf \in Ring(Stored) /\ w \in Int /\ c \in Stored
    BY Zenon, <1>3, <1>4
  <2>4. Longer(buf', buf, w, Typing, c)
    BY Zenon, <2>1, <2>2, <2>3, PieceStore
  <2> QED BY Zenon, <2>4 DEF Longer
<1>8. Len(Part(w, e)) + Len(Part(r, w)) < INPUT_BUF
      /\ (Len(Part(w, e)) + Len(Part(r, w)) + 1 = INPUT_BUF <=> n + 1 = INPUT_BUF)
  BY <1>1, <1>2, Sizes DEF n
<1>9. CASE Finishes(c)
  <2>1. w' = e' /\ Ahead(r', n + 1, w') /\ Ahead(w', 0, e') /\ n + 1 + 0 <= INPUT_BUF
    BY <1>2, <1>4, <1>9 DEF Ahead
  <2>2. \A k \in 1..0 : Piece(buf', w', 0)[k] # NEWLINE
    OBVIOUS
  <2>3. RingInv' /\ Part(r, w)' = Piece(buf', r', n + 1) /\ Part(w, e)' = Piece(buf', w', 0)
    BY Zenon, <1>2, <1>3, <1>6, <2>1, <2>2, RingNew
  <2>4. Part(r, w)' = Append(Part(r, w) \o Part(w, e), c) /\ Part(w, e)' = <<>>
    BY Zenon, <1>1, <1>6, <2>3, PieceNone DEF n
  <2>5. Append(Part(r, w) \o Part(w, e), c) = Part(r, w) \o Append(Part(w, e), c)
    <3>1. Part(r, w) \in Seq(Stored) /\ Part(w, e) \in Seq(Stored) /\ c \in Stored
      BY Zenon, <1>1, <1>3
    <3>2. Behind(Part(r, w), Part(w, e), c)
      BY Zenon, <3>1, JoinAppend
    <3> QED BY Zenon, <3>2 DEF Behind
  <2>6. c \in {NEWLINE, EOF} \/ Len(Part(w, e)) + Len(Part(r, w)) + 1 = INPUT_BUF
    BY Zenon, <1>2, <1>8, <1>9 DEF Finishes
  <2> QED BY Zenon, <1>8, <2>3, <2>4, <2>5, <2>6 DEF Lines!Type
<1>10. CASE ~Finishes(c)
  <2>1. c \notin {NEWLINE, EOF} /\ n + 1 # INPUT_BUF /\ w' = w
    BY Zenon, <1>2, <1>10 DEF Finishes
  <2>2. Ready + (Typing + 1) <= INPUT_BUF
    BY <1>1, <1>4 DEF n
  <2>3. ASSUME NEW k \in 1..(Typing + 1) PROVE Piece(buf', w', Typing + 1)[k] # NEWLINE
    <3>1. Piece(buf', w', Typing + 1)[k] = Append(Part(w, e), c)[k]
      BY Zenon, <1>1, <1>7, <2>1
    <3>2. CASE k = Typing + 1
      <4>1. Append(Part(w, e), c)[k] = c
        BY <1>1, <1>3, <3>2
      <4> QED BY Zenon, <2>1, <3>1, <4>1
    <3>3. CASE k \in 1..Typing
      <4>1. Append(Part(w, e), c)[k] = Part(w, e)[k]
        BY <1>1, <1>3, <3>3
      <4> QED BY Zenon, <1>3, <3>1, <3>3, <4>1
    <3>4. k = Typing + 1 \/ k \in 1..Typing
      BY <1>1
    <3> QED BY Zenon, <3>2, <3>3, <3>4
  <2>4. RingInv' /\ Part(r, w)' = Piece(buf', r', Ready) /\ Part(w, e)' = Piece(buf', w', Typing + 1)
    BY Zenon, <1>1, <1>2, <1>3, <1>6, <2>1, <2>2, <2>3, RingNew
  <2>5. Part(r, w)' = Part(r, w) /\ Part(w, e)' = Append(Part(w, e), c)
    BY Zenon, <1>1, <1>6, <1>7, <2>1, <2>4
  <2> QED BY Zenon, <1>8, <2>1, <2>4, <2>5 DEF Lines!Type
<1> QED BY Zenon, <1>9, <1>10

\* Backspace and control-U take n characters off the end of the line.
LEMMA EraseRing ==
  ASSUME NEW n \in 0..Typing, RingInv, e' = (e - n) % WRAP, UNCHANGED <<buf, r, w>>
  PROVE  /\ RingInv' /\ Part(r, w)' = Part(r, w)
         /\ Part(w, e)' = Piece(buf, w, Typing - n)
<1>1. /\ Ready \in Nat /\ Typing \in Nat /\ Ready + Typing <= INPUT_BUF
      /\ Ahead(r, Ready, w) /\ Ahead(w, Typing, e)
      /\ Part(r, w) = Piece(buf, r, Ready) /\ Part(w, e) = Piece(buf, w, Typing)
  BY Zenon, RingIs
<1>2. /\ r \in Index /\ w \in Index /\ e \in Index /\ buf \in Ring(Stored)
      /\ \A k \in 1..Typing : Part(w, e)[k] # NEWLINE
  BY Zenon DEF RingInv
<1>3. n \in Index /\ w \in Int /\ Typing - n \in Nat
  <2>1. Typing \in Index
    BY Zenon, <1>1 DEF Ahead
  <2> QED BY <1>2, <2>1, Sizes DEF Index
<1>4. e' \in Index /\ e - n \in {e', e' - WRAP}
  BY Zenon, <1>2, <1>3, Moved
<1>5. Ahead(w, Typing - n, e') /\ Ready + (Typing - n) <= INPUT_BUF
  BY <1>1, <1>2, <1>3, <1>4, Sizes DEF Ahead, Index
<1>6. ASSUME NEW k \in 1..(Typing - n) PROVE Piece(buf, w, Typing - n)[k] # NEWLINE
  <2>1. k \in 1..Typing
    BY <1>1, <1>3
  <2>2. Piece(buf, w, Typing - n)[k] = Piece(buf, w, Typing)[k]
    BY Zenon, <2>1, <1>6 DEF Piece
  <2> QED BY Zenon, <1>1, <1>2, <2>1, <2>2
<1>7. /\ buf' \in Ring(Stored) /\ r' \in Index /\ w' \in Index
      /\ Ahead(r', Ready, w') /\ Ahead(w', Typing - n, e')
      /\ \A k \in 1..(Typing - n) : Piece(buf', w', Typing - n)[k] # NEWLINE
  BY Zenon, <1>1, <1>2, <1>5, <1>6
<1>8. /\ RingInv' /\ Part(r, w)' = Piece(buf', r', Ready)
      /\ Part(w, e)' = Piece(buf', w', Typing - n)
  BY Zenon, <1>4, <1>5, <1>7, RingNew
<1> QED BY Zenon, <1>1, <1>8

\* Control-U erases the whole line.
LEMMA TypedAll ==
  ASSUME RingInv PROVE Max(Typed) = Typing
<1>1. /\ Typing \in Nat /\ Ahead(w, Typing, e) /\ Part(w, e) = Piece(buf, w, Typing)
      /\ w \in Index /\ e \in Index /\ \A k \in 1..Typing : Part(w, e)[k] # NEWLINE
  BY Zenon, RingIs DEF RingInv
<1>2. ASSUME NEW k \in 1..Typing PROVE buf[(e - k) % INPUT_BUF] # NEWLINE
  <2>1. /\ Typing - k + 1 \in 1..Typing /\ w + (Typing - k + 1) - 1 \in Int /\ e - k \in Int
        /\ \/ w + (Typing - k + 1) - 1 = e - k
           \/ w + (Typing - k + 1) - 1 = (e - k) + WRAP
    BY <1>1, Sizes DEF Ahead, Index
  <2>2. (w + (Typing - k + 1) - 1) % INPUT_BUF = (e - k) % INPUT_BUF
    BY Zenon, <2>1, SamePlace
  <2>3. Piece(buf, w, Typing)[Typing - k + 1] = buf[(w + (Typing - k + 1) - 1) % INPUT_BUF]
    BY Zenon, <2>1 DEF Piece
  <2> QED BY Zenon, <1>1, <2>1, <2>2, <2>3
<1>3. Typing \in Typed
  BY <1>1, <1>2 DEF Typed, Typing
<1>4. \A n \in Typed : n \in Nat /\ n <= Typing
  BY <1>1 DEF Typed, Typing
<1>5. \A n \in Typed : (\A m \in Typed : n >= m) => n = Typing
  BY <1>1, <1>3, <1>4
<1>6. \A m \in Typed : Typing >= m
  BY Zenon, <1>1, <1>4
<1> HIDE DEF Typed
<1> QED BY Zenon, <1>3, <1>5, <1>6 DEF Max

\* What kbdgetc() returns is no character or one that can be stored.
LEMMA KeyIs ==
  ASSUME NEW s \in Scan PROVE Kbdgetc(s) = <<"none">> \/ Kbdgetc(s) \in Char
<1>1. CASE s.key = "E0" \/ s.up \/ s.key \in Modifier \/ ~InTables(s.key)
  BY Zenon, <1>1 DEF Kbdgetc
<1>2. CASE ~(s.key = "E0" \/ s.up \/ s.key \in Modifier \/ ~InTables(s.key))
  <2>1. s \in [key : Key \cup Modifier, up : BOOLEAN]
    BY <1>2 DEF Scan
  <2>2. s.key \in Key
    BY Zenon, <1>2, <2>1
  <2>3. Kbdgetc(s) \in {<<"newline">>, <<"^", s.key>>, <<"upper">>, <<"lower">>}
    BY Zenon, <1>2 DEF Kbdgetc
  <2> QED BY Zenon, <2>2, <2>3 DEF Char
<1> QED BY Zenon, <1>1, <1>2

Screen == 0 .. ((ROWS - 1) * COLS - 1)

\* Wherever the cursor goes, it is above the last row.
LEMMA ScreenKept ==
  ASSUME NEW x \in Screen, NEW c PROVE Cgaputc(x, c) \in Screen
<1> DEFINE q == x \div COLS
           m == x % COLS
<1>1. COLS \in Nat \ {0} /\ ROWS \in Nat /\ ROWS > 1 /\ x \in Nat /\ x \in Int
      /\ x < (ROWS - 1) * COLS
  BY Sizes DEF Screen
<1>2. x = COLS * q + m /\ m \in 0 .. (COLS - 1) /\ q \in Int
  BY Zenon, <1>1, DivMod
<1> HIDE DEF q, m
<1>3. q >= 0 /\ q <= ROWS - 2
  <2>1. CASE q < 0
    <3>1. COLS * q <= -COLS
      BY <1>1, <1>2, <2>1
    <3> QED BY <1>1, <1>2, <3>1
  <2>2. CASE q > ROWS - 2
    <3>1. COLS * q >= COLS * (ROWS - 1)
      BY <1>1, <1>2, <2>2
    <3> QED BY <1>1, <1>2, <3>1
  <2> QED BY <1>1, <1>2, <2>1, <2>2
<1>4. ASSUME NEW y \in Nat, y <= (ROWS - 1) * COLS PROVE Scrolled(y) \in Screen
  <2> DEFINE a == y \div COLS
             b == y % COLS
  <2>0. y \in Int
    OBVIOUS
  <2>1. y = COLS * a + b /\ b \in 0 .. (COLS - 1) /\ a \in Int
    BY Zenon, <1>1, <2>0, DivMod
  <2>2. CASE a >= ROWS - 1
    <3>1. Scrolled(y) = y - COLS
      BY Zenon, <2>2 DEF Scrolled
    <3> HIDE DEF a, b
    <3>2. COLS * a >= COLS * (ROWS - 1) /\ COLS * (ROWS - 1) >= COLS
      BY <1>1, <2>1, <2>2
    <3> QED BY <1>1, <1>4, <2>1, <3>1, <3>2 DEF Screen
  <2>3. CASE ~(a >= ROWS - 1)
    <3>1. Scrolled(y) = y
      BY Zenon, <2>3 DEF Scrolled
    <3> HIDE DEF a, b
    <3>2. COLS * a <= COLS * (ROWS - 2) /\ COLS * (ROWS - 2) = COLS * (ROWS - 1) - COLS
      BY <1>1, <2>1, <2>3
    <3> QED BY <1>1, <1>4, <2>1, <3>1, <3>2 DEF Screen
  <2> QED BY Zenon, <2>2, <2>3
<1>5. x + COLS - m \in Nat /\ x + COLS - m <= (ROWS - 1) * COLS
  <2>1. COLS * q <= COLS * (ROWS - 2) /\ COLS * (ROWS - 2) = COLS * (ROWS - 1) - COLS
    BY <1>1, <1>2, <1>3
  <2> QED BY <1>1, <1>2, <2>1
<1>6. x + 1 \in Nat /\ x + 1 <= (ROWS - 1) * COLS
  BY <1>1
<1>7. Scrolled(x + COLS - m) \in Screen /\ Scrolled(x + 1) \in Screen
  BY Zenon, <1>4, <1>5, <1>6
<1> QED BY Zenon, <1>7 DEF Cgaputc, m

\* A wakeup leaves nobody asleep.
LEMMA WakeupAll ==
  ASSUME reader \in [Reader -> ReaderType]
  PROVE  Wakeup \in [Reader -> ReaderType] /\ \A p \in Reader : Wakeup[p].at # "asleep"
BY Zenon DEF Wakeup, ReaderType

\* consoleintr(): a character is typed, erased or dropped, or the line is.
LEMMA IntrStep ==
  ASSUME NEW s \in Scan, ConsoleInv, Consoleintr(s)
  PROVE  ConsoleInv' /\ [Lines!LNext]_<<Part(w, e), Part(r, w)>>
<1> DEFINE c == Kbdgetc(s)
<1>1. /\ RingInv /\ reader \in [Reader -> ReaderType] /\ killed \subseteq Reader
      /\ \A p \in Reader : reader[p].at = "asleep" => r = w /\ p \notin killed
      /\ pos \in Screen
  BY Zenon DEF ConsoleInv, ReaderSleepsOnEmpty, Screen
<1>2. killed' = killed
  BY Zenon DEF Consoleintr
<1>3. ASSUME UNCHANGED <<ring, reader, pos>>
      PROVE  ConsoleInv' /\ [Lines!LNext]_<<Part(w, e), Part(r, w)>>
  <2>1. UNCHANGED <<buf, r, w, e, reader, pos>>
    BY Zenon, <1>3 DEF ring
  <2>2. UNCHANGED <<Part(w, e), Part(r, w)>>
    BY Zenon, <2>1 DEF Part
  <2>3. RingInv'
    BY Zenon, <1>1, <2>1 DEF RingInv, Ready, Typing, Part
  <2> QED BY Zenon, <1>1, <1>2, <2>1, <2>2, <2>3 DEF ConsoleInv, ReaderSleepsOnEmpty, Screen
<1>4. ASSUME NEW n \in 0..Typing, Erase(n)
      PROVE  ConsoleInv' /\ Part(r, w)' = Part(r, w) /\ Part(w, e)' = Piece(buf, w, Typing - n)
  <2>1. /\ e' = (e - n) % WRAP /\ pos' = Backed(pos, n) /\ UNCHANGED <<buf, r, w, reader>>
    BY Zenon, <1>4 DEF Erase
  <2>2. RingInv' /\ Part(r, w)' = Part(r, w) /\ Part(w, e)' = Piece(buf, w, Typing - n)
    BY Zenon, <1>1, <2>1, EraseRing
  <2>3. Typing \in Nat
    BY Zenon, <1>1, RingIs
  <2>4. pos' \in Screen
    BY <1>1, <2>1, <2>3, Sizes DEF Backed, Screen
  <2> QED BY Zenon, <1>1, <1>2, <2>1, <2>2, <2>4 DEF ConsoleInv, ReaderSleepsOnEmpty, Screen
<1>5. CASE c = PROCDUMP
  <2>1. UNCHANGED <<ring, reader, pos>>
    BY <1>5 DEF Consoleintr, PROCDUMP, KILL, BACKSPACE
  <2> QED BY Zenon, <1>3, <2>1
<1>6. CASE c = KILL
  <2>1. Erase(Max(Typed))
    BY <1>6 DEF Consoleintr, PROCDUMP, KILL, BACKSPACE
  <2>2. Erase(Typing) /\ Typing \in Nat
    BY Zenon, <1>1, <2>1, TypedAll, RingIs
  <2>3. Typing \in 0..Typing /\ Typing - Typing = 0
    BY <2>2
  <2>4. ConsoleInv' /\ Part(r, w)' = Part(r, w) /\ Part(w, e)' = <<>>
    BY Zenon, <1>4, <2>2, <2>3, PieceNone
  <2> QED BY Zenon, <2>4 DEF Lines!LNext, Lines!KillLine
<1>7. CASE c = BACKSPACE
  <2>1. Erase(IF e # w THEN 1 ELSE 0)
    BY <1>7 DEF Consoleintr, PROCDUMP, KILL, BACKSPACE
  <2>2. /\ Typing \in Nat /\ Ahead(w, Typing, e) /\ Part(w, e) = Piece(buf, w, Typing)
        /\ w \in Index /\ e \in Index /\ buf \in Ring(Stored)
    BY Zenon, <1>1, RingIs DEF RingInv
  <2>3. CASE e = w
    <3>1. 0 \in 0..Typing /\ Erase(0) /\ Typing - 0 = Typing
      BY <2>1, <2>2, <2>3
    <3> QED BY Zenon, <1>4, <2>2, <3>1
  <2>4. CASE e # w
    <3>1. Typing \in Nat \ {0} /\ w \in Int
      BY <2>2, <2>4, Sizes DEF Ahead, Index
    <3>2. 1 \in 0..Typing /\ Erase(1)
      BY <2>1, <2>4, <3>1
    <3>3. ConsoleInv' /\ Part(r, w)' = Part(r, w) /\ Part(w, e)' = Piece(buf, w, Typing - 1)
      BY Zenon, <1>4, <3>2
    <3>4. Shorter(buf, w, Typing)
      BY Zenon, <2>2, <3>1, PieceFront
    <3> QED BY Zenon, <2>2, <3>3, <3>4 DEF Shorter, Lines!LNext, Lines!Erase
  <2> QED BY Zenon, <2>3, <2>4
<1>8. CASE c \notin {PROCDUMP, KILL, BACKSPACE}
  <2>1. Store(c)
    BY Zenon, <1>8 DEF Consoleintr
  <2>2. CASE c = <<"none">> \/ ~Room
    BY Zenon, <1>3, <2>1, <2>2 DEF Store
  <2>3. CASE ~(c = <<"none">> \/ ~Room)
    <3>1. /\ Room /\ buf' = [buf EXCEPT ![e % INPUT_BUF] = c]
          /\ e' = (e + 1) % WRAP /\ pos' = Cgaputc(pos, c)
          /\ w' = (IF Finishes(c) THEN e' ELSE w)
          /\ reader' = (IF Finishes(c) THEN Wakeup ELSE reader)
          /\ r' = r
      BY Zenon, <2>1, <2>3 DEF Store
    <3>2. c \in Char
      BY Zenon, <2>3, KeyIs
    <3>3. RingInv' /\ Lines!Type(c)
      BY Zenon, <1>1, <3>1, <3>2, StoreRing
    <3>4. pos' \in Screen
      BY Zenon, <1>1, <3>1, ScreenKept
    <3>5. /\ reader' \in [Reader -> ReaderType]
          /\ \A p \in Reader : reader'[p].at = "asleep" => r' = w' /\ p \notin killed'
      BY Zenon, <1>1, <1>2, <3>1, WakeupAll
    <3>6. ConsoleInv'
      BY Zenon, <1>1, <1>2, <3>3, <3>4, <3>5 DEF ConsoleInv, ReaderSleepsOnEmpty, Screen
    <3> QED BY Zenon, <3>2, <3>3, <3>6 DEF Lines!LNext
  <2> QED BY Zenon, <2>2, <2>3
<1> QED BY Zenon, <1>5, <1>6, <1>7, <1>8

\* A reader that takes a character.
LEMMA CharStep ==
  ASSUME NEW p \in Reader, ConsoleInv, ReadChar(p)
  PROVE  ConsoleInv' /\ [Lines!LNext]_<<Part(w, e), Part(r, w)>>
<1>1. /\ RingInv /\ reader \in [Reader -> ReaderType] /\ killed \subseteq Reader
      /\ \A q \in Reader : reader[q].at = "asleep" => r = w /\ q \notin killed
      /\ pos \in Screen
  BY Zenon DEF ConsoleInv, ReaderSleepsOnEmpty, Screen
<1>2. /\ reader[p].at = "loop" /\ reader[p].n > 0 /\ r # w
      /\ r' \in {r, (r + 1) % WRAP}
      /\ reader' \in {[reader EXCEPT ![p] = Done], 
                    [reader EXCEPT ![p] = [reader[p] EXCEPT !.n = reader[p].n - 1]]}
      /\ UNCHANGED <<buf, w, e, killed, pos>>
  BY Zenon DEF ReadChar
<1>3. \A q \in Reader : reader[q].at # "asleep"
  BY Zenon, <1>1, <1>2
<1>4. reader' \in [Reader -> ReaderType] /\ \A q \in Reader : reader'[q].at # "asleep"
  <2>1. reader[p] \in ReaderType
    BY Zenon, <1>1
  <2>2. /\ Done \in ReaderType /\ Done.at # "asleep"
        /\ [reader[p] EXCEPT !.n = reader[p].n - 1] \in ReaderType
        /\ [reader[p] EXCEPT !.n = reader[p].n - 1].at # "asleep"
    BY <1>2, <2>1 DEF ReaderType, Done
  <2>3. PICK v \in ReaderType : reader' = [reader EXCEPT ![p] = v] /\ v.at # "asleep"
    BY Zenon, <1>2, <2>2
  <2> QED BY Zenon, <1>1, <1>3, <2>3
<1>5. /\ Ready \in Nat /\ Typing \in Nat /\ Ready + Typing <= INPUT_BUF
      /\ Ahead(r, Ready, w) /\ Ahead(w, Typing, e)
      /\ Part(r, w) = Piece(buf, r, Ready) /\ Part(w, e) = Piece(buf, w, Typing)
  BY Zenon, <1>1, RingIs
<1>6. /\ r \in Index /\ w \in Index /\ e \in Index /\ buf \in Ring(Stored) /\ 1 \in Index
      /\ \A k \in 1..Typing : Part(w, e)[k] # NEWLINE
  BY <1>1, Sizes DEF RingInv, Index
<1>7. CASE r' = r
  <2>1. RingInv' /\ UNCHANGED <<Part(w, e), Part(r, w)>>
    BY Zenon, <1>1, <1>2, <1>7 DEF RingInv, Ready, Typing, Part
  <2> QED BY Zenon, <1>1, <1>2, <1>4, <2>1 DEF ConsoleInv, ReaderSleepsOnEmpty, Screen
<1>8. CASE r' = (r + 1) % WRAP
  <2>1. r' \in Index /\ r + 1 \in {r', r' + WRAP}
    BY Zenon, <1>6, <1>8, Moved
  <2>2. /\ Ready \in Nat \ {0} /\ Ready - 1 \in Nat /\ Ahead(r', Ready - 1, w)
        /\ Ahead(r, 1, r') /\ r \in Int /\ Ready - 1 + Typing <= INPUT_BUF
    <3>1. /\ Ready \in 0 .. (WRAP - 1) /\ r + Ready \in {w, w + WRAP} /\ Typing \in Nat
          /\ r \in 0 .. (WRAP - 1) /\ w \in 0 .. (WRAP - 1) /\ r' \in 0 .. (WRAP - 1)
          /\ Ready + Typing <= INPUT_BUF
      BY Zenon, <1>5, <1>6, <2>1 DEF Ahead, Index
    <3>2. Ready # 0
      BY <1>2, <3>1, Sizes
    <3>3. PICK k \in 0 .. (WRAP - 1) : k = r'
      BY Zenon, <3>1
    <3>4. r + 1 \in {k, k + WRAP}
      BY Zenon, <2>1, <3>3
    <3>5. k + (Ready - 1) \in {w, w + WRAP}
      BY <3>1, <3>2, <3>4, Sizes
    <3>6. /\ Ready \in Nat \ {0} /\ Ready - 1 \in Nat /\ Ready - 1 \in Index
          /\ r \in Int /\ Ready - 1 + Typing <= INPUT_BUF
      BY <3>1, <3>2, Sizes DEF Index
    <3> QED BY Zenon, <1>6, <3>3, <3>4, <3>5, <3>6 DEF Ahead
  <2>3. /\ buf' \in Ring(Stored) /\ w' \in Index /\ e' \in Index
        /\ Ahead(r', Ready - 1, w') /\ Ahead(w', Typing, e')
        /\ \A k \in 1..Typing : Piece(buf', w', Typing)[k] # NEWLINE
    BY Zenon, <1>2, <1>5, <1>6, <2>2
  <2>4. /\ RingInv' /\ Part(r, w)' = Piece(buf', r', Ready - 1)
        /\ Part(w, e)' = Piece(buf', w', Typing)
    BY Zenon, <2>1, <2>2, <2>3, RingNew
  <2>5. SamePiece(buf, r + 1, r', Ready - 1)
    BY Zenon, <1>6, <2>1, <2>2, PieceAhead
  <2>6. Rest(buf, r, Ready)
    BY Zenon, <1>6, <2>2, PieceTail
  <2>7. Part(r, w) # <<>> /\ Part(r, w)' = Tail(Part(r, w)) /\ Part(w, e)' = Part(w, e)
    BY Zenon, <1>2, <1>5, <2>4, <2>5, <2>6 DEF SamePiece, Rest
  <2>8. ConsoleInv'
    BY Zenon, <1>1, <1>2, <1>4, <2>4 DEF ConsoleInv, ReaderSleepsOnEmpty, Screen
  <2> QED BY Zenon, <2>7, <2>8 DEF Lines!LNext, Lines!Take
<1> QED BY Zenon, <1>2, <1>7, <1>8

\* The other steps leave the ring alone.
LEMMA OtherStep ==
  ASSUME ConsoleInv, UNCHANGED <<buf, r, w, e>>, pos' \in Screen,
         reader' \in [Reader -> ReaderType], killed' \subseteq Reader,
         \A p \in Reader : reader'[p].at = "asleep" => r = w /\ p \notin killed'
  PROVE  ConsoleInv' /\ [Lines!LNext]_<<Part(w, e), Part(r, w)>>
<1>1. RingInv' /\ UNCHANGED <<Part(w, e), Part(r, w)>>
  BY Zenon DEF ConsoleInv, RingInv, Ready, Typing, Part
<1> QED BY Zenon, <1>1 DEF ConsoleInv, ReaderSleepsOnEmpty, Screen

LEMMA ConsoleStep ==
  ASSUME ConsoleInv, [CNext]_cvars
  PROVE  ConsoleInv' /\ [Lines!LNext]_<<Part(w, e), Part(r, w)>>
<1> DEFINE Goal == ConsoleInv' /\ [Lines!LNext]_<<Part(w, e), Part(r, w)>>
<1>1. /\ reader \in [Reader -> ReaderType] /\ killed \subseteq Reader
      /\ \A p \in Reader : reader[p].at = "asleep" => r = w /\ p \notin killed
      /\ pos \in Screen
  BY Zenon DEF ConsoleInv, ReaderSleepsOnEmpty, Screen
<1>2. ASSUME NEW s \in Scan, Consoleintr(s) PROVE Goal
  BY Zenon, <1>2, IntrStep
<1>3. ASSUME NEW c, Consolewrite(c) PROVE Goal
  <2>1. UNCHANGED <<buf, r, w, e, reader, killed>> /\ pos' = Cgaputc(pos, c)
    BY Zenon, <1>3 DEF Consolewrite, ring
  <2>2. pos' \in Screen
    BY Zenon, <1>1, <2>1, ScreenKept
  <2> QED BY Zenon, <1>1, <2>1, <2>2, OtherStep
<1>4. ASSUME NEW p \in Reader, NEW v \in ReaderType, reader' = [reader EXCEPT ![p] = v],
             v.at = "asleep" => r = w /\ p \notin killed', killed' \subseteq Reader,
             \A q \in Reader : q # p /\ q \notin killed => q \notin killed',
             UNCHANGED <<buf, r, w, e, pos>>
      PROVE  Goal
  <2>1. reader' \in [Reader -> ReaderType]
    BY Zenon, <1>1, <1>4
  <2>2. ASSUME NEW q \in Reader, reader'[q].at = "asleep" PROVE r = w /\ q \notin killed'
    <3>1. CASE q = p
      BY Zenon, <1>1, <1>4, <2>2, <3>1
    <3>2. CASE q # p
      BY Zenon, <1>1, <1>4, <2>2, <3>2
    <3> QED BY Zenon, <3>1, <3>2
  <2> QED BY Zenon, <1>1, <1>4, <2>1, <2>2, OtherStep
<1>5. ASSUME NEW p \in Reader, NEW n \in 1..MaxRead, SysRead(p, n) PROVE Goal
  <2>1. /\ reader' = [reader EXCEPT ![p] = [at |-> "in", n |-> n, target |-> n]]
        /\ UNCHANGED <<buf, r, w, e, killed, pos>>
    BY Zenon, <1>5 DEF SysRead, ring
  <2>2. [at |-> "in", n |-> n, target |-> n] \in ReaderType
    BY ConsoleAssumption DEF ReaderType
  <2>3. [at |-> "in", n |-> n, target |-> n].at # "asleep"
    BY Zenon
  <2> QED BY Zenon, <1>1, <1>4, <2>1, <2>2, <2>3
<1>6. ASSUME NEW p \in Reader, Acquire(p) PROVE Goal
  <2>1. /\ reader' = [reader EXCEPT ![p] = [reader[p] EXCEPT !.at = "loop"]]
        /\ UNCHANGED <<buf, r, w, e, killed, pos>>
    BY Zenon, <1>6 DEF Acquire, ring
  <2>2. reader[p] \in ReaderType
    BY Zenon, <1>1
  <2>3. /\ [reader[p] EXCEPT !.at = "loop"] \in ReaderType
        /\ [reader[p] EXCEPT !.at = "loop"].at # "asleep"
    BY Zenon, <2>2 DEF ReaderType
  <2> QED BY Zenon, <1>1, <1>4, <2>1, <2>3
<1>7. ASSUME NEW p \in Reader, ReadWait(p) PROVE Goal
  <2>1. /\ r = w /\ UNCHANGED <<buf, r, w, e, killed, pos>>
        /\ reader' = [reader EXCEPT ![p] =
                        IF p \in killed THEN Done ELSE [reader[p] EXCEPT !.at = "asleep"]]
    BY Zenon, <1>7 DEF ReadWait, ring
  <2>2. reader[p] \in ReaderType
    BY Zenon, <1>1
  <2>3. [reader[p] EXCEPT !.at = "asleep"] \in ReaderType /\ Done \in ReaderType
        /\ Done.at # "asleep"
    BY Zenon, <2>2 DEF ReaderType, Done
  <2>4. CASE p \in killed
    BY Zenon, <1>1, <1>4, <2>1, <2>3, <2>4
  <2>5. CASE p \notin killed
    BY Zenon, <1>1, <1>4, <2>1, <2>3, <2>5
  <2> QED BY Zenon, <2>4, <2>5
<1>8. ASSUME NEW p \in Reader, ReadChar(p) PROVE Goal
  BY Zenon, <1>8, CharStep
<1>9. ASSUME NEW p \in Reader, Kill(p) PROVE Goal
  <2>1. /\ killed' = killed \cup {p} /\ UNCHANGED <<buf, r, w, e, pos>>
        /\ reader' = [reader EXCEPT ![p] =
             [reader[p] EXCEPT !.at = IF reader[p].at = "asleep" THEN "in" ELSE reader[p].at]]
    BY Zenon, <1>9 DEF Kill, ring
  <2>2. reader[p] \in ReaderType
    BY Zenon, <1>1
  <2> DEFINE v == [reader[p] EXCEPT !.at = IF reader[p].at = "asleep" THEN "in" ELSE reader[p].at]
  <2>3. v \in ReaderType /\ v.at # "asleep"
    BY Zenon, <2>2 DEF ReaderType
  <2>4. killed' \subseteq Reader /\ \A q \in Reader : q # p /\ q \notin killed => q \notin killed'
    BY Zenon, <1>1, <2>1
  <2> HIDE DEF v
  <2>5. reader' = [reader EXCEPT ![p] = v]
    BY Zenon, <2>1 DEF v
  <2> QED BY Zenon, <1>4, <2>1, <2>3, <2>4, <2>5
<1>10. ASSUME NEW p \in Reader, Exit(p) PROVE Goal
  <2>1. killed' = killed \ {p} /\ UNCHANGED <<buf, r, w, e, reader, pos>>
    BY Zenon, <1>10 DEF Exit, ring
  <2> QED BY Zenon, <1>1, <2>1, OtherStep
<1>11. ASSUME UNCHANGED cvars PROVE Goal
  <2>1. UNCHANGED <<buf, r, w, e, reader, killed, pos>>
    BY Zenon, <1>11 DEF cvars
  <2> QED BY Zenon, <1>1, <2>1, OtherStep
<1> HIDE DEF Goal
<1>12. Goal
  BY Zenon, <1>2, <1>3, <1>5, <1>6, <1>7, <1>8, <1>9, <1>10, <1>11 DEF CNext
<1> QED BY Zenon, <1>12 DEF Goal

\* The ring starts empty, with nobody at it.
LEMMA ConsoleStarts == CInit => ConsoleInv /\ Lines!LInit
<1> SUFFICES ASSUME CInit PROVE ConsoleInv /\ Lines!LInit
  BY Zenon
<1>1. r = 0 /\ w = 0 /\ e = 0 /\ 0 \in Index /\ Ahead(0, 0, 0)
  BY Sizes DEF CInit, Ahead, Index
<1>2. Ready = 0 /\ Typing = 0
  BY Zenon, <1>1, Distance DEF Ready, Typing
<1>3. Part(r, w) = <<>> /\ Part(w, e) = <<>>
  <2>1. Part(r, w) = Piece(buf, r, Ready) /\ Part(w, e) = Piece(buf, w, Typing)
    BY Zenon DEF Part, Piece, Ready, Typing
  <2> QED BY Zenon, <1>2, <2>1, PieceNone
<1>4. buf \in Ring(Stored)
  BY Zenon DEF CInit, Ring, Stored
<1>5. RingInv
  BY <1>1, <1>2, <1>4, Sizes DEF RingInv
<1>6. Done \in ReaderType /\ Done.at # "asleep"
  BY Zenon DEF Done, ReaderType
<1>7. reader \in [Reader -> ReaderType] /\ killed = {} /\ \A p \in Reader : reader[p].at # "asleep"
  BY Zenon, <1>6 DEF CInit
<1>8. pos \in 0 .. ((ROWS - 1) * COLS - 1)
  <2>1. (ROWS - 1) * COLS >= 1
    BY Sizes
  <2> QED BY <2>1, Sizes DEF CInit
<1> QED BY Zenon, <1>3, <1>5, <1>7, <1>8 DEF ConsoleInv, ReaderSleepsOnEmpty, Lines!LInit

\* For any ring, readers, keyboard and screen, the console implements a line
\* that is edited and a queue of finished ones, read in order and each
\* character once, with no reader asleep in consoleread() over a finished one.
THEOREM ConsoleIsLines == CSpec => LinesInOrder
<1>1. CInit => ConsoleInv /\ Lines!LInit
  BY Zenon, ConsoleStarts
<1>2. ConsoleInv /\ [CNext]_cvars => ConsoleInv' /\ [Lines!LNext]_<<Part(w, e), Part(r, w)>>
  BY Zenon, ConsoleStep
<1>3. ConsoleInv => ReaderSleepsOnEmpty
  BY Zenon DEF ConsoleInv
<1> QED BY <1>1, <1>2, <1>3, PTL DEF CSpec, LinesInOrder, Lines!LSpec, Lines!lvars
=============================================================================
