------------------------------ MODULE Schedule ------------------------------
(***************************************************************************)
(* One schedule of the node: the arithmetic and the timer of               *)
(* esp_schedule/src/esp_schedule.c under the operations of                 *)
(* core/esp_rmaker_schedule.c, which run its action on the work queue.     *)
(*                                                                         *)
(* Time is counted in ticks on a small calendar without daylight saving:   *)
(* TicksPerDay ticks a day, DaysPerMonth days in each of the 12 months.    *)
(* The clock is set, NVS is not used for schedules (the RainMaker layer    *)
(* stores them itself), and the timer service is never late by a tick.     *)
(***************************************************************************)
EXTENDS Integers

CONSTANTS Triggers,      \* the trigger settings a schedule may have
          TicksPerDay, DaysPerMonth,
          PeriodRange,   \* a timer's period is taken modulo this (2^32 ms)
          Preempted,     \* other tasks may run inside the timer's callback
          MaxQueued,     \* slots of the work queue, which other work shares
          MaxNow         \* bound: ticks

\* The settings of esp_schedule_trigger_t: a time of day with a mask of days, Monday
\* first, or with a date and a mask of months; or seconds from now.
Settings ==
    [type : {"RELATIVE"}, seconds : Nat]
    \cup [type : {"DAYS_OF_WEEK"}, slot : 0..(TicksPerDay - 1), repeat_days : 0..127]
    \cup [type : {"DATE"}, slot : 0..(TicksPerDay - 1), day : 1..DaysPerMonth, year : Nat,
          repeat_months : 0..4095, repeat_every_year : BOOLEAN]

ASSUME ScheduleAssumption ==
    /\ {TicksPerDay, DaysPerMonth, PeriodRange, MaxQueued} \subseteq Nat \ {0}
    /\ MaxNow \in Nat /\ TicksPerDay <= MaxNow /\ Preempted \in BOOLEAN
    /\ Triggers \subseteq Settings

VARIABLES
    now,             \* time()
    trig,            \* schedule->trigger
    enabled,         \* schedule->enabled
    tcb,             \* the timer's callback: "idle" or past its trigger
    timer,           \* ticks until the timer fires, 0 when due, OFF
    next_scheduled_time_utc, next_timestamp,  \* the next trigger, in each layer; 0: unknown
    queued,          \* esp_rmaker_schedule_trigger_work_cb, waiting
    since,           \* when the next trigger was last asked for
    firing,          \* the schedule triggered at this tick
    wrapped,         \* history: the timer's period was past its range
    lost,            \* history: the work queue refused the last trigger
    unexpected       \* esp_schedule_get_next_month said "has been called"

scheduleVars == <<now, trig, enabled, tcb, timer, next_scheduled_time_utc, next_timestamp,
                  queued, since, firing, wrapped, lost, unexpected>>
nextVars == <<next_scheduled_time_utc, next_timestamp>>

OFF == -1

-----------------------------------------------------------------------------
(* Calendar (external: localtime_r and mktime) and C's bit operations on     *)
(* masks of at most 16 bits.                                                 *)

Slot(t)  == t % TicksPerDay                             \* hour, minute, second
Wday(t)  == (t \div TicksPerDay) % 7                    \* Sunday is 0
Mday(t)  == ((t \div TicksPerDay) % DaysPerMonth) + 1
Month(t) == (((t \div TicksPerDay) \div DaysPerMonth) % 12) + 1
Year(t)  == (t \div TicksPerDay) \div (DaysPerMonth * 12)

\* Months past 12 carry into the year.
mktime(year, month, mday, slot) ==
    ((year * 12 + month - 1) * DaysPerMonth + mday - 1) * TicksPerDay + slot

Bit(i)       == 2^i                                      \* 1 << i
HasBit(x, i) == (x \div Bit(i)) % 2 = 1                  \* x & (1 << i)
Clear(x, i)  == IF HasBit(x, i) THEN x - Bit(i) ELSE x   \* x & ~(1 << i)
Above(x, i)  == x - (x % Bit(i + 1))                     \* x & (-1 << (i + 1))

Bits(x)   == {i \in 0..15 : HasBit(x, i)}
ffs(x)    == IF x = 0 THEN 0 ELSE 1 + CHOOSE i \in Bits(x) : \A j \in Bits(x) : i <= j
fls(x)    == IF x = 0 THEN 0 ELSE 1 + CHOOSE i \in Bits(x) : \A j \in Bits(x) : i >= j

-----------------------------------------------------------------------------
(* When the schedule triggers next. *)

Today == (Wday(now) + 7 - 1) % 7       \* Monday is 0

\* Mutant: the week begins on Sunday, as in struct tm.
NoOfDaysFromSunday ==
    LET days == trig.repeat_days IN
    IF days = 0 THEN (IF trig.slot > Slot(now) THEN 0 ELSE 1)
    ELSE IF Wday(now) \in Bits(days) /\ trig.slot > Slot(now) THEN 0
    ELSE IF ffs(days) - 1 = Wday(now) THEN 7 ELSE ((7 - Wday(now) + ffs(days) - 1) % 7) + 1

\* Days until the next day of the week that the schedule names.
esp_schedule_get_no_of_days ==
    LET days == trig.repeat_days
    IN IF days = 0 THEN (IF trig.slot > Slot(now) THEN 0 ELSE 1)
       ELSE IF HasBit(days, Today) /\ trig.slot > Slot(now) THEN 0
       ELSE IF Clear(days, Today) > Bit(Today) THEN ffs(Above(days, Today)) - 1 - Today
       ELSE IF ffs(days) - 1 = Today THEN 7 ELSE 7 - Today + ffs(days) - 1

\* The schedule's day is still to come in the current month.
StillThisMonth ==
    \/ trig.day = Mday(now) /\ trig.slot > Slot(now)
    \/ trig.day > Mday(now)

\* The months are used up and the year does not repeat.
NoMonthLeft ==
    /\ trig.type = "DATE" /\ trig.repeat_months # 0
    /\ trig.year <= Year(now) /\ ~trig.repeat_every_year
    /\ ~(HasBit(trig.repeat_months, Month(now) - 1) /\ StillThisMonth)
    /\ Clear(trig.repeat_months, Month(now) - 1) <= Bit(Month(now) - 1)

\* Mutant: the year is over for a schedule whose last month this is.
NextMonthThisYear ==
    IF trig.repeat_months = 0 THEN Month(now) + (IF StillThisMonth THEN 0 ELSE 1)
    ELSE ffs(trig.repeat_months)

\* The next month of the schedule, 13 and on in the next year; 0 if there is none.
esp_schedule_get_next_month ==
    LET months == trig.repeat_months
        this   == Month(now) - 1
    IN IF months = 0 THEN Month(now) + (IF StillThisMonth THEN 0 ELSE 1)
       ELSE IF trig.year > Year(now) THEN ffs(months)
       ELSE IF HasBit(months, this) /\ StillThisMonth THEN Month(now)
       ELSE IF Clear(months, this) > Bit(this) THEN ffs(Above(months, this))
       ELSE IF NoMonthLeft THEN 0
       ELSE ffs(months) + 12

esp_schedule_get_next_year == IF trig.year > Year(now) THEN trig.year ELSE Year(now)

\* The time of the next trigger; a relative one keeps the time once it is set.
NextTime ==
    CASE trig.type = "RELATIVE" ->
           IF next_scheduled_time_utc > 0 THEN next_scheduled_time_utc ELSE now + trig.seconds
      [] trig.type = "DAYS_OF_WEEK" ->
           now - Slot(now) + trig.slot + esp_schedule_get_no_of_days * TicksPerDay
      [] OTHER ->
           LET month == esp_schedule_get_next_month IN
           mktime(esp_schedule_get_next_year, IF month = 0 THEN Month(now) + 1 ELSE month,
                  trig.day, trig.slot)

OneTime(tr) ==
    CASE tr.type = "RELATIVE"     -> TRUE
      [] tr.type = "DAYS_OF_WEEK" -> tr.repeat_days = 0
      [] OTHER                    -> tr.repeat_months = 0

\* Both layers' is_expired, each with its own record of the next trigger.
esp_schedule_is_expired(next) ==
    IF OneTime(trig) THEN next > 0 /\ next <= now
    ELSE /\ trig.type = "DATE" /\ ~trig.repeat_every_year
         /\ mktime(trig.year, fls(trig.repeat_months), trig.day, trig.slot) < now

-----------------------------------------------------------------------------
(* Operations. *)

\* The timer's period for d ticks, from 32-bit milliseconds: past their range it wraps.
\* The range is no whole number of ticks, so that what is left may end a tick later.
Period(d) ==
    LET left == d % PeriodRange IN
    IF d \in 0..(PeriodRange - 1) THEN {d} ELSE {left, left + 1}

\* Times the timer; the other layer hears of the time of one-time schedules.
esp_schedule_start_timer ==
    /\ timer' \in Period(NextTime - now)
    /\ wrapped' = (NextTime - now >= PeriodRange) /\ lost' = FALSE
    /\ next_scheduled_time_utc' = NextTime
    /\ next_timestamp' = IF OneTime(trig) THEN NextTime ELSE next_timestamp
    /\ unexpected' = (unexpected \/ NoMonthLeft)

\* operation_disable's reset of next_timestamp included.
esp_schedule_disable ==
    /\ timer' = OFF
    /\ next_scheduled_time_utc' = 0 /\ next_timestamp' = 0
    /\ wrapped' = FALSE /\ lost' = FALSE
    /\ UNCHANGED unexpected

\* Whether other tasks run inside the timer's callback.
MayRun == Preempted \/ tcb = "idle"

\* esp_rmaker_schedule_operation_enable: one that has expired is disabled again.
esp_rmaker_schedule_operation_enable ==
    /\ MayRun
    /\ enabled' = ~esp_schedule_is_expired(next_timestamp)
    /\ IF esp_schedule_is_expired(next_timestamp) THEN esp_schedule_disable ELSE esp_schedule_start_timer
    /\ since' = IF enabled /\ trig.type = "RELATIVE" THEN since ELSE now
    /\ UNCHANGED <<now, trig, tcb, queued, firing>>

esp_rmaker_schedule_operation_disable ==
    /\ MayRun
    /\ enabled' = FALSE
    /\ esp_schedule_disable
    /\ UNCHANGED <<now, trig, tcb, queued, since, firing>>

\* esp_schedule_common_timer_cb calls trigger_cb.  A work queue that is full, of these
\* triggers or of other work, refuses the trigger, and nobody looks.
trigger_common_cb ==
    /\ timer = 0 /\ tcb = "idle"
    /\ timer' = OFF /\ tcb' = "triggered" /\ firing' = TRUE
    /\ \/ queued < MaxQueued /\ queued' = queued + 1 /\ UNCHANGED lost
       \/ lost' = TRUE /\ UNCHANGED queued
    /\ UNCHANGED <<now, trig, enabled, nextVars, since, wrapped, unexpected>>

\* The rest of the callback: go on, unless that was the last time.
esp_schedule_common_timer_cb ==
    /\ tcb = "triggered" /\ tcb' = "idle"
    /\ IF esp_schedule_is_expired(next_scheduled_time_utc)
       THEN UNCHANGED <<timer, nextVars, wrapped, lost, unexpected>>
       ELSE esp_schedule_start_timer
    /\ UNCHANGED <<now, trig, enabled, queued, since, firing>>

\* Mutant: an expired schedule stays enabled.
WorkKeepsEnabled ==
    /\ MayRun /\ queued > 0 /\ queued' = queued - 1
    /\ UNCHANGED <<enabled, timer, nextVars, wrapped, lost, unexpected, now, trig, tcb, since, firing>>

\* esp_rmaker_schedule_trigger_work_cb, whenever the work queue comes to it: run
\* the action; disable the schedule if that was its last time.
trigger_work_cb ==
    /\ MayRun /\ queued > 0 /\ queued' = queued - 1
    /\ IF esp_schedule_is_expired(next_timestamp)
       THEN enabled' = FALSE /\ esp_schedule_disable
       ELSE UNCHANGED <<enabled, timer, nextVars, wrapped, lost, unexpected>>
    /\ UNCHANGED <<now, trig, tcb, since, firing>>

Tick ==
    /\ now < MaxNow /\ timer # 0 /\ tcb = "idle"
    /\ now' = now + 1 /\ firing' = FALSE
    /\ timer' = IF timer = OFF THEN OFF ELSE timer - 1
    /\ UNCHANGED <<trig, enabled, tcb, nextVars, queued, since, wrapped, lost, unexpected>>

-----------------------------------------------------------------------------
\* A schedule has been added and is not enabled yet.
ScheduleInit ==
    /\ now = TicksPerDay /\ trig \in Triggers
    /\ enabled = FALSE /\ timer = OFF /\ tcb = "idle"
    /\ next_scheduled_time_utc = 0 /\ next_timestamp = 0
    /\ queued = 0 /\ since = 0 /\ firing = FALSE /\ wrapped = FALSE
    /\ lost = FALSE /\ unexpected = FALSE

ScheduleNext ==
    \/ esp_rmaker_schedule_operation_enable \/ esp_rmaker_schedule_operation_disable
    \/ trigger_common_cb \/ esp_schedule_common_timer_cb \/ trigger_work_cb \/ Tick

ScheduleSpec == ScheduleInit /\ [][ScheduleNext]_scheduleVars

ScheduleTypeOK ==
    /\ now \in 0..MaxNow /\ trig \in Triggers
    /\ enabled \in BOOLEAN /\ firing \in BOOLEAN
    /\ wrapped \in BOOLEAN /\ lost \in BOOLEAN /\ unexpected \in BOOLEAN
    /\ tcb \in {"idle", "triggered"} /\ timer \in {OFF} \cup Nat
    /\ next_scheduled_time_utc \in Nat /\ next_timestamp \in Nat
    /\ queued \in 0..MaxQueued /\ since \in 0..MaxNow

-----------------------------------------------------------------------------
(* Properties. *)

\* The instants the settings name, said without looking for the next one.
Named(t) ==
    CASE trig.type = "RELATIVE"     -> t = since + trig.seconds
      [] trig.type = "DAYS_OF_WEEK" -> /\ Slot(t) = trig.slot
                                       /\ trig.repeat_days = 0 \/ (Wday(t) + 6) % 7 \in Bits(trig.repeat_days)
      [] OTHER -> /\ Slot(t) = trig.slot /\ Mday(t) = trig.day
                  /\ \/ trig.repeat_months = 0
                     \/ /\ Month(t) - 1 \in Bits(trig.repeat_months)
                        /\ Year(t) = trig.year \/ (trig.repeat_every_year /\ Year(t) > trig.year)

\* An enabled schedule triggers at every instant its settings name, a one-time
\* schedule at the first (esp_schedule_get_next_schedule_time_diff and the
\* starting of the timer again after each trigger).
NoTriggerMissed ==
    (/\ enabled /\ since < now /\ Named(now)
     /\ OneTime(trig) => \A t \in (since + 1)..(now - 1) : ~Named(t))
        => firing \/ timer = 0

\* And at no other, unless the timer's period was past its range of 49 days.
NoStrayTrigger == tcb = "triggered" /\ ~wrapped => Named(now)

\* The time told to timestamp_cb, "timestamp at which the schedule will trigger next"
\* (esp_schedule.h:44), is when it triggers.  (It is not, for a date that is further
\* away than the timer reaches: esp_schedule_start_timer's 32-bit milliseconds.)
TriggersWhenTold == tcb = "triggered" => next_scheduled_time_utc = now

\* A schedule that is shown as enabled has its timer running, once the work
\* queue has caught up: whichever layer finds it expired, both stop.  Only one whose
\* last trigger was refused stays enabled without a timer.
EnabledIsArmed == enabled /\ queued = 0 /\ tcb = "idle" => timer # OFF \/ lost

\* A schedule that is disabled does not trigger again ("This schedule does not
\* repeat anymore. Disable it", esp_rmaker_schedule.c:301).
DisabledIsStopped == ~enabled /\ tcb = "idle" => timer = OFF

\* esp_schedule_get_next_month is not asked for a month that does not exist
\* ("Schedule does not repeat next year, but get_next_month has been called",
\* esp_schedule.c:141).
NextMonthExists == ~unexpected

\* The two layers agree on whether a schedule is over: it is shown as enabled exactly
\* while its timer runs, but for a last trigger that the work queue has refused;
\* every variable has its type.
LayersAgree == ScheduleTypeOK /\ EnabledIsArmed /\ DisabledIsStopped
=============================================================================
