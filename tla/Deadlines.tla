------------------------------ MODULE Deadlines -----------------------------
(***************************************************************************)
(* When a letter's reminders fire (internal/reminders/plan.go), from the   *)
(* preview that tells the user whether the deadline is overdue, over Save, *)
(* which plans the reminders, to the days on which they are sent.          *)
(*                                                                         *)
(* Time is counted in hours of UTC and days are numbered: hour h lies in   *)
(* day h \div 24 of UTC, and in day BerlinDay(h) on a wall calendar in     *)
(* Berlin.  A deadline is a day.                                           *)
(***************************************************************************)
EXTENDS Integers, Sequences

CONSTANTS
    Horizon,            \* bound: the last hour
    SummerStart,        \* the hours at which Europe/Berlin goes to summer
    SummerEnd,          \*   time and back; both changes are at 01:00 UTC
    Deadlines           \* the days that are deadlines

Urgencies == {"high", "medium", "low", "other"}

ASSUME ConstantsAssumption ==
    /\ Horizon \in Nat
    /\ SummerStart \in Nat /\ SummerStart % 24 = 1
    /\ SummerEnd \in Nat /\ SummerEnd % 24 = 1
    /\ SummerStart < SummerEnd
    /\ Deadlines \subseteq Nat

VARIABLES
    now,                \* the hour
    phase,              \* what has happened to the letter
    deadline,           \* its deadline
    urgency,            \* its urgency, as the LLM classified it
    overdue,            \* whether the preview called the deadline overdue
    schedules,          \* its schedules in EventBridge
    saved,              \* history: the hour it was saved at
    sent                \* history: the reminders that have been sent

letterVars == <<deadline, urgency>>
vars == <<now, phase, deadline, urgency, overdue, schedules, saved, sent>>

-----------------------------------------------------------------------------
\* Hours that Berlin is ahead of UTC, and the date there.
Offset(h) == IF SummerStart <= h /\ h < SummerEnd THEN 2 ELSE 1

BerlinDay(h) == (h + Offset(h)) \div 24

BerlinHour(h) == (h + Offset(h)) % 24

\* The kinds of reminders, and how many days before the deadline each fires.
DaysBefore == [advance_7d |-> 7, advance_3d |-> 3, advance_1d |-> 1,
               due_day |-> 0]

Kinds == DOMAIN DaysBefore

\* How many days the headline of each kind says are left (reminderLeadIn).
LeadIn == [advance_7d |-> 7, advance_3d |-> 3, advance_1d |-> 1, due_day |-> 0]

\* Variant, for mutation: a high urgency without the reminder of the last day.
OffsetsForWithoutEve(u) ==
    CASE u = "high"   -> <<"advance_7d">>
      [] u = "medium" -> <<"advance_3d">>
      [] OTHER        -> <<"due_day">>

\* offsetsFor
OffsetsFor(u) ==
    CASE u = "high"   -> <<"advance_7d", "advance_1d">>
      [] u = "medium" -> <<"advance_3d">>
      [] OTHER        -> <<"due_day">>

\* Variant, for mutation: the offset of the winter, all year.
EightInBerlinWinter(day) == 24 * day + 8 - 1

\* The hour at which it is 08:00 on that day in Berlin (time.Date in berlin):
\* whether it is summer there is settled long before, at 01:00 UTC.
EightInBerlin(day) == LET h == 24 * day + 8 IN h - Offset(h - 2)

FireAt(kind, dl) == EightInBerlin(dl - DaysBefore[kind])

\* Variant, for mutation: no reminder is dropped.
PlanEverything(dl, at, u) ==
    {OffsetsFor(u)[i] : i \in DOMAIN OffsetsFor(u)}

\* Plan: the reminders of that urgency that are still ahead.
Plan(dl, at, u) ==
    {k \in {OffsetsFor(u)[i] : i \in DOMAIN OffsetsFor(u)} : FireAt(k, dl) > at}

\* isOverdue of handleProcessedImages compares with the date of UTC.
IsOverdue(dl, at) == dl < at \div 24

Init ==
    /\ now = 0
    /\ phase = "new"
    /\ deadline \in Deadlines
    /\ urgency \in Urgencies
    /\ overdue = FALSE
    /\ schedules = {}
    /\ saved = 0
    /\ sent = {}

\* handleProcessedImages shows the preview.
Preview ==
    /\ phase = "new"
    /\ phase' = "previewed"
    /\ overdue' = IsOverdue(deadline, now)
    /\ UNCHANGED <<now, letterVars, schedules, saved, sent>>

\* handleConfirmSave plans the reminders and ScheduleAll creates schedules.
Save ==
    /\ phase = "previewed"
    /\ phase' = "saved"
    /\ schedules' = Plan(deadline, now, urgency)
    /\ saved' = now
    /\ UNCHANGED <<now, letterVars, overdue, sent>>

\* EventBridge fires a schedule at its time, and reminder-sender sends it.
Fire(k) ==
    /\ k \in schedules
    /\ now = FireAt(k, deadline)
    /\ schedules' = schedules \ {k}
    /\ sent' = sent \cup {[kind |-> k, at |-> now]}
    /\ UNCHANGED <<now, phase, letterVars, overdue, saved>>

\* Time passes, but not past a schedule that is due.
Tick ==
    /\ now < Horizon
    /\ \A k \in schedules : FireAt(k, deadline) # now
    /\ now' = now + 1
    /\ UNCHANGED <<phase, letterVars, overdue, schedules, saved, sent>>

Next == Preview \/ Save \/ Tick \/ \E k \in Kinds : Fire(k)

Spec == Init /\ [][Next]_vars

-----------------------------------------------------------------------------
(* Properties.                                                             *)

\* Every variable has its type, and no schedule lies in the past.
TypeOK ==
    /\ now \in Nat
    /\ phase \in {"new", "previewed", "saved"}
    /\ deadline \in Nat
    /\ urgency \in Urgencies
    /\ overdue \in BOOLEAN
    /\ schedules \subseteq Kinds
    /\ \A k \in schedules : now <= FireAt(k, deadline)
    /\ saved \in 0..now
    /\ sent \subseteq [kind : Kinds, at : 0..now]

(***************************************************************************)
(* A reminder says "today", "tomorrow", "in three days" or "in a week", and*)
(* is right on the calendar of its reader: in Berlin, at eight o'clock, in *)
(* summer and winter, also when the clocks change before the deadline.     *)
(***************************************************************************)
HeadlineIsTrue ==
    \A s \in sent : /\ BerlinDay(s.at) + LeadIn[s.kind] = deadline
                    /\ BerlinHour(s.at) = 8

(***************************************************************************)
(* A letter that was shown as overdue, by the date of UTC, has no reminder *)
(* that is planned by the clock of Berlin, whenever it is saved.           *)
(***************************************************************************)
OverdueHasNoReminder == overdue => schedules = {} /\ sent = {}

(***************************************************************************)
(* Whoever saves an urgent letter two days before its deadline or earlier  *)
(* has been reminded of it when the day comes.                             *)
(***************************************************************************)
UrgentIsReminded ==
    (phase = "saved" /\ urgency = "high"
        /\ BerlinDay(saved) + 2 <= deadline /\ BerlinDay(now) >= deadline)
    => [kind |-> "advance_1d", at |-> EightInBerlin(deadline - 1)] \in sent
=============================================================================
