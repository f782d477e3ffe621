------------------------------- MODULE Clock --------------------------------
(***************************************************************************)
(* The date: cmostime() (kernel/lapic.c), setdate() and tobcd()            *)
(* (kernel/proc.c), against a clock chip that goes on while its registers  *)
(* are read and written one by one.                                        *)
(*                                                                         *)
(* cmostime() holds a spinlock and setdate() has interrupts off: on one    *)
(* CPU, which is what is modelled, neither is in the middle of the other.  *)
(***************************************************************************)
EXTENDS Integers, Sequences

CONSTANTS
  Radix,        \* the sizes of the fields, seconds first
  MaxTicks      \* bound: ticks in a round of cmostime()'s loop

\* A field has at most two digits, and a round of the loop is over before the
\* seconds have gone round.
ASSUME ClockAssumption ==
  /\ Radix \in Seq(1..100) /\ Radix # <<>>
  /\ MaxTicks \in Nat /\ MaxTicks < Radix[1]

VARIABLES
  reg,          \* the chip's registers, in BCD
  ticks,        \* ticks since the round of cmostime()'s loop began
  call,         \* what the CPU is in
  date,         \* what cmostime() returns, or what setdate() was given
  left,         \* setdate(): the registers still to write
  t1, t2,       \* cmostime()'s two readings, as far as they are
  shown         \* the times that the clock has shown in this round

kvars == <<reg, ticks, call, date, left, t1, t2, shown>>

Field == DOMAIN Radix
Times == {t \in [Field -> UNION {0 .. (Radix[i] - 1) : i \in Field}] :
            \A i \in Field : t[i] < Radix[i]}

\* tobcd(), for up to four digits; a register holds the low byte.
Tobcd(x) == (x % 10) + 16 * ((x \div 10) % 10) + 256 * ((x \div 100) % 10)
              + 4096 * ((x \div 1000) % 10)
Byte(x) == x % 256

\* CONV of cmostime().
Conv(x) == 10 * (x \div 16) + (x % 16)

Bcd(t) == [i \in Field |-> Byte(Tobcd(t[i]))]
Time(r) == [i \in Field |-> Conv(r[i])]

KInit ==
  /\ \E t \in Times : reg = Bcd(t)
  /\ ticks = 0 /\ call = "none" /\ date = <<>> /\ left = 0
  /\ t1 = <<>> /\ t2 = <<>> /\ shown = {}

\* The chip: one second more, with the carry.
Carries(t, i) == \A j \in 1 .. (i - 1) : t[j] = Radix[j] - 1
Later(t) == [i \in Field |-> IF Carries(t, i) THEN (t[i] + 1) % Radix[i] ELSE t[i]]

Tick ==
  /\ reg' = Bcd(Later(Time(reg)))
  /\ IF call = "cmostime"
       THEN /\ ticks < MaxTicks
            /\ ticks' = ticks + 1 /\ shown' = shown \cup {Time(reg')}
       ELSE UNCHANGED <<ticks, shown>>
  /\ UNCHANGED <<call, date, left, t1, t2>>

-----------------------------------------------------------------------------
(* cmostime                                                                *)

\* The head of the loop.
Round ==
  /\ t1' = <<>> /\ t2' = <<>>
  /\ ticks' = 0 /\ shown' = {Time(reg)}

Getdate ==
  /\ call = "none"
  /\ call' = "cmostime" /\ Round
  /\ UNCHANGED <<reg, date, left>>

\* fill_rtcdate(&t1), one cmos_read() after the other.
Fill1 ==
  /\ call = "cmostime" /\ Len(t1) < Len(Radix)
  /\ t1' = Append(t1, reg[Len(t1) + 1])
  /\ UNCHANGED <<reg, ticks, call, date, left, t2, shown>>

\* The chip says that an update is in progress: start again.
UpdateInProgress ==
  /\ call = "cmostime" /\ Len(t1) = Len(Radix) /\ t2 = <<>>
  /\ Round
  /\ UNCHANGED <<reg, call, date, left>>

\* fill_rtcdate(&t2).
Fill2 ==
  /\ call = "cmostime" /\ Len(t1) = Len(Radix) /\ Len(t2) < Len(Radix)
  /\ t2' = Append(t2, reg[Len(t2) + 1])
  /\ UNCHANGED <<reg, ticks, call, date, left, t1, shown>>

\* Faulty variant: the readings are not compared.
CompareNot ==
  /\ call = "cmostime" /\ Len(t2) = Len(Radix)
  /\ call' = "converted" /\ date' = Time(t1)
  /\ UNCHANGED <<reg, ticks, left, t1, t2, shown>>

\* The two are the same, and are converted; or start again.
Compare ==
  /\ call = "cmostime" /\ Len(t2) = Len(Radix)
  /\ IF t1 = t2
       THEN call' = "converted" /\ date' = Time(t1) /\ UNCHANGED <<ticks, t1, t2, shown>>
       ELSE Round /\ UNCHANGED <<call, date>>
  /\ UNCHANGED <<reg, left>>

Return ==
  /\ call = "converted"
  /\ call' = "none" /\ date' = <<>>
  /\ ticks' = 0 /\ t1' = <<>> /\ t2' = <<>> /\ shown' = {}
  /\ UNCHANGED <<reg, left>>

-----------------------------------------------------------------------------
(* setdate                                                                 *)

\* The checks of setdate(), on a date of year, month and day.
MaxDay(year) ==
  <<31, 28 + (IF year % 4 = 0 THEN 1 ELSE 0), 31, 30, 31, 30, 31, 31, 30, 31, 30, 31>>
Valid(year, month, day) ==
  month > 0 /\ month <= 12 /\ day > 0 /\ day <= 31 /\ day <= MaxDay(year)[month]

Setdate(t) ==
  /\ call = "none"
  /\ call' = "setdate" /\ date' = t /\ left' = Len(Radix)
  /\ UNCHANGED <<reg, ticks, t1, t2, shown>>

\* The registers, from the year down to the seconds.
Outb ==
  /\ call = "setdate"
  /\ reg' = [reg EXCEPT ![left] = Byte(Tobcd(date[left]))]
  /\ left' = left - 1
  /\ IF left = 1 THEN call' = "none" /\ date' = <<>> ELSE UNCHANGED <<call, date>>
  /\ UNCHANGED <<ticks, t1, t2, shown>>

KNext ==
  \/ Tick \/ Getdate \/ Fill1 \/ UpdateInProgress \/ Fill2 \/ Compare \/ Return
  \/ Outb \/ \E t \in Times : Setdate(t)

KSpec == KInit /\ [][KNext]_kvars

-----------------------------------------------------------------------------
(* Properties                                                              *)

\* The date that cmostime() returns is one that the clock showed while it was
\* reading, in the last round of its loop, never the seconds of one time with
\* the minutes of another.
TimeWhole == call = "converted" => date \in shown

\* setdate() takes the dates of the calendar and no others, and what it writes
\* for a year of this century is what cmostime() reads back.
Leap(year) == year % 4 = 0 /\ (year % 100 = 0 => year % 400 = 0)
Days(year, month) ==
  CASE month = 2 -> IF Leap(year) THEN 29 ELSE 28
    [] month \in {4, 6, 9, 11} -> 30
    [] OTHER -> 31
DateExact(year, month, day) ==
  /\ Valid(year, month, day) <=> month \in 1..12 /\ day \in 1 .. Days(year, month)
  /\ 2000 + Conv(Byte(Tobcd(year))) = year
  /\ Conv(Byte(Tobcd(month))) = month /\ Conv(Byte(Tobcd(day))) = day
=============================================================================
