---------------------------- MODULE RetrySchedule ----------------------------
(***************************************************************************)
(* How long a retry waits: the exponential schedule, the server's pacing   *)
(* hints, the settings both are made from and the dates hints are told in. *)
(*                                                                         *)
(* Doubles are integers up to Inf, the largest; NaN is what Inf times zero *)
(* is.  A random sample is a number of quarters and a jitter a number of   *)
(* halves, so a jittered delay is told in eighths.                         *)
(***************************************************************************)
EXTENDS Integers, Sequences, FiniteSets

Inf == 500
NaN == -1
NoValue == -2   \* no value, no hint, undefined

Times(a, b) ==
  IF NaN \in {a, b} \/ {a, b} = {0, Inf} THEN NaN
  ELSE IF a * b > Inf THEN Inf ELSE a * b
Power(base, n) ==
  LET p[i \in 0 .. n] == IF i = 0 THEN 1 ELSE Times(p[i - 1], base) IN p[n]
LeastOf(a, b) == IF NaN \in {a, b} THEN NaN ELSE IF a < b THEN a ELSE b

-----------------------------------------------------------------------------
(* The schedule                                                            *)

\* retrySettings: a duration is finite and not negative, growth does not
\* shrink, there is an attempt; {} when it throws.
IsDuration(n) == n = NoValue \/ n \in 0 .. Inf - 1
RetrySettings(s) ==
  {t \in {s} :
     /\ IsDuration(s.initialDelayMs) /\ IsDuration(s.maxDelayMs) /\ IsDuration(s.fixedDelayMs)
     /\ s.multiplier \in 1 .. Inf - 1 /\ s.maxAttempts >= 1 /\ s.jitter \in 0 .. 2}

\* effectiveSettings: the call's count of retries replaces the count of attempts.
EffectiveSettings(s, maxRetries) ==
  IF maxRetries = NoValue THEN s ELSE [s EXCEPT !.maxAttempts = maxRetries + 1]

Jittered(delay, jitter, random) ==
  IF NaN = delay THEN NaN
  ELSE LET eighths == 8 * delay - 2 * delay * jitter + random * delay * jitter
       IN  IF eighths < 0 THEN 0 ELSE eighths

\* computeDelay, in eighths.
ComputeDelay(attempt, s, random) ==
  IF s.fixedDelayMs # NoValue THEN 8 * s.fixedDelayMs
  ELSE IF s.initialDelayMs = 0 THEN 0
  ELSE Jittered(LeastOf(Times(s.initialDelayMs, Power(s.multiplier, attempt - 1)), s.maxDelayMs),
                s.jitter, random)

-----------------------------------------------------------------------------
(* Hints.  A reset is told in twentieths, for its jitter of up to a fifth. *)

MaxPacing == 400
ClampPacing(delta, max) == IF delta < 0 THEN 0 ELSE IF delta > max THEN max ELSE delta

ParseRetryAfter(value, now) ==
  CASE value.kind = "seconds" -> {ClampPacing(10 * value.n, MaxPacing)}
    [] value.kind = "date" -> {ClampPacing(10 * value.n - now, MaxPacing)}
    [] OTHER -> {}
IntegerValue(value) == IF value.kind = "integer" THEN {value.n} ELSE {}

RateLimitReset(value, now, random) ==
  {LET delta == ClampPacing(10 * epoch - now, MaxPacing)
   IN  IF delta = 0 THEN 0 ELSE ClampPacing(delta * (20 + random), 20 * MaxPacing) :
     epoch \in IntegerValue(value)}

\* parsePacingHint, in twentieths: the first that can be read.
ParsePacingHint(headers, now, random) ==
  LET told == <<{20 * d : d \in ParseRetryAfter(headers.retryAfter, now)},
                {20 * ClampPacing(n, MaxPacing) : n \in IntegerValue(headers.retryAfterMs)},
                {20 * ClampPacing(n, MaxPacing) : n \in IntegerValue(headers.msRetryAfterMs)},
                RateLimitReset(headers.reset, now, random)>>
      readable == {i \in 1 .. 4 : told[i] # {}}
  IN  IF readable = {} THEN {} ELSE told[CHOOSE i \in readable : \A j \in readable : i <= j]

-----------------------------------------------------------------------------
(* Dates.  An instant is a day since the epoch and a second of it.         *)

Leap(year) == year % 4 = 0 /\ (year % 100 # 0 \/ year % 400 = 0)
MonthDays(year) == <<31, IF Leap(year) THEN 29 ELSE 28, 31, 30, 31, 30, 31, 31, 30, 31, 30, 31>>
DaysBeforeMonth(year, month) ==
  <<0, 31, 59, 90, 120, 151, 181, 212, 243, 273, 304, 334, 365>>[month]
    + (IF month > 2 /\ Leap(year) THEN 1 ELSE 0)
DaysBeforeYear(year) ==
  365 * (year - 1970) + ((year - 1) \div 4 - 492) - ((year - 1) \div 100 - 19) + ((year - 1) \div 400 - 4)

\* What Date makes of a day: one past the month's end is in the next month.
DayOf(year, month, day) == DaysBeforeYear(year) + DaysBeforeMonth(year, month) + day - 1
CivilOf(day) ==
  LET about == 1970 + (400 * day) \div 146097
      year == CHOOSE y \in about - 1 .. about + 1 :
                DaysBeforeYear(y) <= day /\ day < DaysBeforeYear(y + 1)
      rest == day - DaysBeforeYear(year)
      month == CHOOSE m \in 1 .. 12 :
                 DaysBeforeMonth(year, m) <= rest /\ rest < DaysBeforeMonth(year, m + 1)
  IN  [year |-> year, month |-> month, day |-> rest - DaysBeforeMonth(year, month) + 1]

\* toEpochMs: a date that rolled over is none.
ToEpoch(f) ==
  LET day == DayOf(f.year, f.month, f.day)
      seconds == 3600 * f.hour + 60 * f.minute + f.second
      civil == CivilOf(day)
  IN  IF <<civil.year, civil.month, civil.day>> # <<f.year, f.month, f.day>> THEN {}
      ELSE {<<day + seconds \div 86400, seconds % 86400>>}

\* parseHttpDate: the numbers of a text that has the form.
ParseHttpDate(f) ==
  IF f.day < 1 \/ f.hour > 23 \/ f.minute > 59 \/ f.second > 60 THEN {} ELSE ToEpoch(f)
\* formatHttpDate: {} when it throws, for a year that has no four digits.
FormatHttpDate(instant) ==
  LET civil == CivilOf(instant[1])
      fields == [year |-> civil.year, month |-> civil.month, day |-> civil.day, hour |-> instant[2] \div 3600,
                 minute |-> (instant[2] % 3600) \div 60, second |-> instant[2] % 60]
  IN  {f \in {fields} : 0 <= f.year /\ f.year <= 9999}

-----------------------------------------------------------------------------
(* What these must be                                                      *)

\* Under settings that are accepted every delay is a number, no attempt waits
\* less than the one before it for the same sample, the schedule saturates
\* half a jitter above its cap, and the fixed delay is the delay.
DelayHolds(t, random, attempt) ==
  LET delay == ComputeDelay(attempt, t, random) IN
    /\ delay >= 0
    /\ t.fixedDelayMs = NoValue => 2 * delay <= 8 * t.maxDelayMs * 2 + 8 * t.maxDelayMs * t.jitter
    /\ delay <= ComputeDelay(attempt + 1, t, random)
    /\ t.fixedDelayMs # NoValue => delay = 8 * t.fixedDelayMs
DelaysHold(s) ==
  \A t \in RetrySettings(s) :
    /\ \A random \in 0 .. 3, attempt \in 1 .. 12 : DelayHolds(t, random, attempt)
    /\ \A maxRetries \in 0 .. 2 :
         EffectiveSettings(t, maxRetries) \in RetrySettings(EffectiveSettings(t, maxRetries))

\* A hint is a wait of at most the limit, a reset is never earlier than the
\* server said, zero is only said by who says it, and what cannot be read is as
\* if it were not there.
HintsHold(headers, now) ==
  LET unread(name) == [headers EXCEPT ![name] = [kind |-> "absent", n |-> 0]] IN
  \A random \in 0 .. 3 :
    /\ \A hint \in ParsePacingHint(headers, now, random) :
         /\ hint \in 0 .. 20 * MaxPacing
         /\ hint = 0 => \E name \in DOMAIN headers : LET h == headers[name] IN
              /\ h.kind \notin {"absent", "garbage"}
              /\ h.n = 0 \/ ((h.kind = "date" \/ name = "reset") /\ 10 * h.n <= now)
         /\ hint >= CHOOSE h \in ParsePacingHint(headers, now, 0) : TRUE
    /\ \A name \in DOMAIN headers : headers[name].kind = "garbage" =>
         ParsePacingHint(headers, now, random) = ParsePacingHint(unread(name), now, random)
    /\ ParseRetryAfter(headers.retryAfter, now) # {} =>
         \A name \in DOMAIN headers \ {"retryAfter"} :
           ParsePacingHint(headers, now, random) = ParsePacingHint(unread(name), now, random)

\* What is formatted is read back, a date that does not exist is not read, and a
\* leap second is the first of the next minute, which only after the year 9999
\* cannot be formatted.
DatesHold(f) ==
  LET read == ParseHttpDate(f)
      exists == /\ f.day \in 1 .. MonthDays(f.year)[f.month]
                /\ f.hour <= 23 /\ f.minute <= 59 /\ f.second <= 60
  IN  /\ read # {} <=> exists
      /\ \A instant \in read :
           /\ f.second < 60 => FormatHttpDate(instant) = {f}
           /\ FormatHttpDate(instant) = {} =>
                <<f.year, f.month, f.day, f.hour, f.minute, f.second>> = <<9999, 12, 31, 23, 59, 60>>
           /\ \A g \in FormatHttpDate(instant) :
                (f.second = 60 => g.second = 0) /\ ParseHttpDate(g) = {instant}

-----------------------------------------------------------------------------
(* The values the run asks about                                           *)

ScheduleShapes ==
  [initialDelayMs : {0, 1, 30}, multiplier : {1, 3, 400, Inf}, maxDelayMs : {0, 8, 100},
   jitter : {0, 1, 2, 3}, fixedDelayMs : {NoValue, 0, 200}, maxAttempts : {0, 3}]
HintHeaders ==
  [retryAfter : [kind : {"absent", "garbage"}, n : {0}] \cup [kind : {"seconds", "date"}, n : {0, 3, 50}],
   retryAfterMs : [kind : {"absent", "garbage"}, n : {0}] \cup [kind : {"integer"}, n : {0, 30}],
   msRetryAfterMs : [kind : {"garbage"}, n : {0}] \cup [kind : {"integer"}, n : {500}],
   reset : [kind : {"absent", "garbage"}, n : {0}] \cup [kind : {"integer"}, n : {1, 20, 50}]]
DateFields ==
  [year : {0, 1900, 1969, 2000, 2023, 9999}, month : {1, 2, 4, 12}, day : {0, 1, 28, 29, 30, 31, 32},
   hour : {0, 23, 24}, minute : {0, 59}, second : {59, 60, 61}]
=============================================================================
