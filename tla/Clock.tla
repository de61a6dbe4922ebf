-------------------------------- MODULE Clock --------------------------------
(***************************************************************************)
(* read_rtc (clock.c) racing the CMOS real-time clock, and the conversion *)
(* it applies to what it read.  The RTC holds the true UTC time and        *)
(* advances it once a second, raising the update-in-progress flag first.   *)
(* read_rtc reads the six time registers one port access at a time, so an  *)
(* update can land between two of them; it repeats the whole pass until    *)
(* two passes in a row agree.  It then decodes BCD, converts a 12-hour     *)
(* hour, widens the year and shifts the result to GMT+7.  It runs at boot  *)
(* (kernel.c) and for syscall 17 (interrupt.c).                            *)
(***************************************************************************)
EXTENDS Integers, Bitwise

CONSTANTS
    SECONDS, MINUTES, HOURS,   \* the start times the RTC may hold
    DAYS, MONTHS, YEARS,       \* YEARS are full years in 2024..2123
    REGISTER_B_MODES,          \* values of status register B (bits 1, 2)
    MAX_UPDATES                \* RTC updates in one behaviour

CURRENT_YEAR == 2024

\* The register index order of the reads in read_rtc.
Fields == <<"second", "minute", "hour", "day", "month", "year">>

(***************************************************************************)
(* The reference calendar.  The RTC's own once-a-second increment and the *)
(* expected local time are both stated with it.                            *)
(***************************************************************************)
IsLeap(y) == (y % 4 = 0 /\ y % 100 # 0) \/ y % 400 = 0

DaysIn(m, y) == IF m = 2 THEN 28 + (IF IsLeap(y) THEN 1 ELSE 0)
                         ELSE 30 + ((m + m \div 8) % 2)

Time == [second : 0..59, minute : 0..59, hour : 0..23,
         day : 1..31, month : 1..12, year : CURRENT_YEAR..CURRENT_YEAR + 99]

NextDay(t) ==
    IF t.day < DaysIn(t.month, t.year) THEN [t EXCEPT !.day = @ + 1]
    ELSE IF t.month < 12 THEN [t EXCEPT !.day = 1, !.month = @ + 1]
    ELSE [t EXCEPT !.day = 1, !.month = 1, !.year = @ + 1]

NextSecond(t) ==
    IF t.second < 59 THEN [t EXCEPT !.second = @ + 1]
    ELSE IF t.minute < 59 THEN [t EXCEPT !.second = 0, !.minute = @ + 1]
    ELSE IF t.hour < 23 THEN [t EXCEPT !.second = 0, !.minute = 0, !.hour = @ + 1]
    ELSE [NextDay(t) EXCEPT !.second = 0, !.minute = 0, !.hour = 0]

\* The time seven hours after t: what read_rtc should return for UTC t.
ToLocal(t) == IF t.hour + 7 < 24 THEN [t EXCEPT !.hour = @ + 7]
              ELSE [NextDay(t) EXCEPT !.hour = t.hour + 7 - 24]

(***************************************************************************)
(* What the hardware shows: each register in BCD unless bit 2 of register *)
(* B is set, the hour as 1..12 with bit 7 for PM unless bit 1 is set, and  *)
(* the year as its last two digits.                                        *)
(***************************************************************************)
Encode(v, b) == IF (b & 4) = 0 THEN (v \div 10) * 16 + (v % 10) ELSE v

Registers(t, b) ==
    [second |-> Encode(t.second, b), minute |-> Encode(t.minute, b),
     hour   |-> IF (b & 2) # 0 THEN Encode(t.hour, b)
                ELSE Encode(IF t.hour % 12 = 0 THEN 12 ELSE t.hour % 12, b)
                     + (IF t.hour >= 12 THEN 128 ELSE 0),
     day |-> Encode(t.day, b), month |-> Encode(t.month, b),
     year |-> Encode(t.year % 100, b)]

(***************************************************************************)
(* The conversion read_rtc applies after the loop, step by step as in the  *)
(* code.  century_register is 0, so the century comes from CURRENT_YEAR.   *)
(***************************************************************************)
FromBcd(v) == (v & 15) + ((v \div 16) * 10)

DecodeBcd(r, b) ==
    IF (b & 4) # 0 THEN r
    ELSE [second |-> FromBcd(r.second), minute |-> FromBcd(r.minute),
          hour |-> ((r.hour & 15) + (((r.hour & 112) \div 16) * 10))
                   | (r.hour & 128),
          day |-> FromBcd(r.day), month |-> FromBcd(r.month),
          year |-> FromBcd(r.year)]

To24Hour(r, b) ==
    IF (b & 2) = 0 /\ (r.hour & 128) # 0
    THEN [r EXCEPT !.hour = ((r.hour & 127) + 12) % 24]
    ELSE r

FullYear(r) ==
    LET y == r.year + (CURRENT_YEAR \div 100) * 100
    IN  [r EXCEPT !.year = IF y < CURRENT_YEAR THEN y + 100 ELSE y]

\* Mutant: the leap-year test without the century rule.
LeapYear_julian(y) == y % 4 = 0

LeapYear(y) == (y % 4 = 0 /\ y % 100 # 0) \/ (y % 400 = 0)

\* Mutant: the day rollover tested with >= 24 off by one.
AdjustGmt7_offbyone(r) ==
    IF r.hour + 7 <= 24 THEN [r EXCEPT !.hour = @ + 7]
    ELSE [r EXCEPT !.hour = r.hour + 7 - 24, !.day = @ + 1]

\* The GMT+7 adjustment with the code's own month and year rollover.
AdjustGmt7(r) ==
    IF r.hour + 7 < 24 THEN [r EXCEPT !.hour = @ + 7]
    ELSE LET d == r.day + 1
             m == r.month
             wraps == \/ m \in {1, 3, 5, 7, 8, 10, 12} /\ d > 31
                      \/ m \in {4, 6, 9, 11} /\ d > 30
                      \/ m = 2 /\ d > (IF LeapYear(r.year) THEN 29 ELSE 28)
             m2 == IF wraps THEN m + 1 ELSE m
         IN  [r EXCEPT !.hour = r.hour + 7 - 24,
                       !.day = IF wraps THEN 1 ELSE d,
                       !.month = IF m2 > 12 THEN 1 ELSE m2,
                       !.year = IF m2 > 12 THEN @ + 1 ELSE @]

Convert(r, b) == AdjustGmt7(FullYear(To24Hour(DecodeBcd(r, b), b)))

-----------------------------------------------------------------------------
VARIABLES
    rtc,       \* the time the RTC holds (UTC)
    uip,       \* the update-in-progress flag, bit 7 of register A
    updates,   \* RTC updates so far, bounded by MAX_UPDATES
    regB,      \* status register B, fixed by the firmware
    pc,        \* where read_rtc is: "idle", "spin", "read" or "compare"
    k,         \* the index in Fields of the next register to read
    first,     \* TRUE during the pass before the do-while loop
    cur,       \* the globals second .. year as last read
    last,      \* last_second .. last_year
    out,       \* the globals after the conversion
    seen       \* the times the RTC held during the current call (ghost)

vars == <<rtc, uip, updates, regB, pc, k, first, cur, last, out, seen>>

StartTimes ==
    {t \in [second : SECONDS, minute : MINUTES, hour : HOURS, day : DAYS,
            month : MONTHS, year : YEARS] : t.day <= DaysIn(t.month, t.year)}

Zero == [f \in {"second", "minute", "hour", "day", "month", "year"} |-> 0]

Init ==
    /\ rtc \in StartTimes
    /\ uip = FALSE
    /\ updates = 0
    /\ regB \in REGISTER_B_MODES
    /\ pc = "idle"
    /\ k = 1
    /\ first = TRUE
    /\ cur = Zero
    /\ last = Zero
    /\ out = Zero
    /\ seen = {}

\* The RTC raises the update-in-progress flag ahead of an update.
RtcBeginUpdate ==
    /\ ~uip
    /\ updates < MAX_UPDATES
    /\ uip' = TRUE
    /\ UNCHANGED <<rtc, updates, regB, pc, k, first, cur, last, out, seen>>

\* The RTC advances one second and clears the flag.
RtcUpdate ==
    /\ uip
    /\ rtc' = NextSecond(rtc)
    /\ uip' = FALSE
    /\ updates' = updates + 1
    /\ seen' = IF pc = "idle" THEN seen ELSE seen \cup {rtc'}
    /\ UNCHANGED <<regB, pc, k, first, cur, last, out>>

\* kernel_setup or syscall 17 calls read_rtc.
Call ==
    /\ pc = "idle"
    /\ pc' = "spin"
    /\ first' = TRUE
    /\ seen' = {rtc}
    /\ UNCHANGED <<rtc, uip, updates, regB, k, cur, last, out>>

\* while (get_update_in_progress_flag()); the loop exits once the flag is clear.
SpinDone ==
    /\ pc = "spin"
    /\ ~uip
    /\ pc' = "read"
    /\ k' = 1
    /\ UNCHANGED <<rtc, uip, updates, regB, first, cur, last, out, seen>>

\* One get_RTC_register call: the next register of the pass.
ReadRegister ==
    /\ pc = "read"
    /\ cur' = [cur EXCEPT ![Fields[k]] = Registers(rtc, regB)[Fields[k]]]
    /\ k' = k + 1
    /\ pc' = IF k = 6 THEN "compare" ELSE "read"
    /\ UNCHANGED <<rtc, uip, updates, regB, first, last, out, seen>>

\* Mutant: the do-while condition without last_hour != hour.
PassEnd_nohour ==
    /\ pc = "compare"
    /\ IF first \/ [last EXCEPT !.hour = 0] # [cur EXCEPT !.hour = 0]
       THEN /\ last' = cur /\ first' = FALSE /\ pc' = "spin" /\ UNCHANGED out
       ELSE /\ out' = Convert(cur, regB) /\ pc' = "idle" /\ UNCHANGED <<last, first>>
    /\ UNCHANGED <<rtc, uip, updates, regB, k, cur, seen>>

\* Mutant: last_* = * hoisted before the loop, so last keeps the first pass.
PassEnd_keeplast ==
    /\ pc = "compare"
    /\ IF first \/ last # cur
       THEN /\ last' = (IF first THEN cur ELSE last) /\ first' = FALSE
            /\ pc' = "spin" /\ UNCHANGED out
       ELSE /\ out' = Convert(cur, regB) /\ pc' = "idle" /\ UNCHANGED <<last, first>>
    /\ UNCHANGED <<rtc, uip, updates, regB, k, cur, seen>>

\* The end of a pass: the do-while condition, then registerB and the conversion.
PassEnd ==
    /\ pc = "compare"
    /\ IF first \/ last # cur
       THEN /\ last' = cur
            /\ first' = FALSE
            /\ pc' = "spin"
            /\ UNCHANGED out
       ELSE /\ out' = Convert(cur, regB)
            /\ pc' = "idle"
            /\ UNCHANGED <<last, first>>
    /\ UNCHANGED <<rtc, uip, updates, regB, k, cur, seen>>

ReadRtc == SpinDone \/ ReadRegister \/ PassEnd

Next == RtcBeginUpdate \/ RtcUpdate \/ Call \/ ReadRtc

\* The CPU keeps running read_rtc once called, and the RTC always finishes
\* an update it has begun; nothing forces a call or the start of an update.
Spec == Init /\ [][Next]_vars /\ WF_vars(ReadRtc) /\ WF_vars(RtcUpdate)

-----------------------------------------------------------------------------
TypeOK ==
    /\ rtc \in Time
    /\ uip \in BOOLEAN
    /\ updates \in 0..MAX_UPDATES
    /\ pc \in {"idle", "spin", "read", "compare"}
    /\ k \in 1..7
    /\ first \in BOOLEAN
    /\ out \in [second : 0..59, minute : 0..59, hour : 0..23, day : 0..31,
               month : 0..12, year : Nat]
    /\ seen \subseteq Time

\* What read_rtc leaves in the globals (and syscall 17 hands to the shell)
\* was read from one single time the RTC held during the call: the
\* two-identical-passes loop never lets a pass torn by an update through.
ConsistentSnapshot ==
    pc = "idle" /\ seen # {} => \E t \in seen : cur = Registers(t, regB)

\* The converted time is the GMT+7 local time of the UTC time read: in the
\* 24-hour modes, BCD and binary, the year and the day/month/year rollover
\* agree with the calendar.  (In 12-hour mode it fails at 12 AM and 12 PM,
\* clock.c:103; the clock run gives register B only the 24-hour modes.)
LocalTimeCorrect ==
    pc = "idle" =>
        \A t \in seen : cur = Registers(t, regB) => out = ToLocal(t)

\* Every call of read_rtc returns: the retry loop ends once the RTC stops
\* updating between two passes.
ReadRtcReturns == pc # "idle" ~> pc = "idle"

=============================================================================
