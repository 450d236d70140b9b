-------------------------- MODULE Deadlines_proofs --------------------------
(***************************************************************************)
(* Theorems about Deadlines: for every length of time, every summer, every *)
(* deadline and every urgency.                                             *)
(***************************************************************************)
EXTENDS Deadlines, TLAPS

-----------------------------------------------------------------------------
(* The clock of Berlin.                                                    *)

\* At the hour EightInBerlin names it is eight there, on that day.
LEMMA EightIsEight ==
    ASSUME NEW day \in Int
    PROVE  /\ EightInBerlin(day) \in Int
           /\ BerlinDay(EightInBerlin(day)) = day
           /\ BerlinHour(EightInBerlin(day)) = 8
  <1> DEFINE h == 24 * day + 8
  <1>1. h \in Int /\ Offset(h - 2) \in {1, 2}
    BY ConstantsAssumption DEF Offset
  <1>2. Offset(h - Offset(h - 2)) = Offset(h - 2)
    <2>1. PICK a \in Int, b \in Int :
              SummerStart = 24 * a + 1 /\ SummerEnd = 24 * b + 1
      BY ConstantsAssumption
    <2>2. SummerStart <= h - 2 <=> SummerStart <= h - 1
      BY <2>1
    <2>3. h - 2 < SummerEnd <=> h - 1 < SummerEnd
      BY <2>1
    <2> QED
      BY <1>1, <2>2, <2>3 DEF Offset
  <1>3. EightInBerlin(day) = h - Offset(h - 2)
    BY DEF EightInBerlin
  <1>4. EightInBerlin(day) + Offset(EightInBerlin(day)) = h
    BY <1>1, <1>2, <1>3
  <1>5. h \div 24 = day /\ h % 24 = 8
    OBVIOUS
  <1> QED
    BY <1>1, <1>3, <1>4, <1>5 DEF BerlinDay, BerlinHour

\* The hour of a reminder lies before nine on the day of the deadline.
LEMMA FireAtBounds ==
    ASSUME NEW k \in Kinds, NEW dl \in Nat
    PROVE  /\ FireAt(k, dl) \in Int
           /\ FireAt(k, dl) < 24 * dl + 8
           /\ DaysBefore[k] \in Nat
  <1>1. DaysBefore[k] \in Nat
    BY DEF Kinds, DaysBefore
  <1>2. \A d \in Int : EightInBerlin(d) \in Int /\ EightInBerlin(d) < 24 * d + 8
    BY DEF EightInBerlin, Offset
  <1> QED
    BY <1>1, <1>2 DEF FireAt

\* The reminders that are planned are reminders that are still ahead.
LEMMA PlanIsAhead ==
    ASSUME NEW dl \in Nat, NEW at \in Nat, NEW u
    PROVE  Plan(dl, at, u) \subseteq {k \in Kinds : FireAt(k, dl) > at}
  <1>1. {OffsetsFor(u)[i] : i \in DOMAIN OffsetsFor(u)} \subseteq Kinds
    BY DEF OffsetsFor, Kinds, DaysBefore
  <1> QED
    BY <1>1 DEF Plan

-----------------------------------------------------------------------------
(* The types, and what the properties need beyond them.                    *)

\* Every variable has its type, and no schedule is left behind by the clock.
THEOREM TypeCorrect == Spec => []TypeOK
  <1>1. Init => TypeOK
    <2> SUFFICES ASSUME Init
                 PROVE  TypeOK
      OBVIOUS
    <2>1. deadline \in Nat /\ urgency \in Urgencies
      BY ConstantsAssumption DEF Init
    <2>2. overdue \in BOOLEAN
      BY DEF Init
    <2>3. schedules = {} /\ sent = {}
      BY DEF Init
    <2>4. now \in Nat /\ saved \in 0..now /\ phase \in {"new", "previewed", "saved"}
      BY DEF Init
    <2> QED
      BY <2>1, <2>2, <2>3, <2>4 DEF TypeOK
  <1>2. TypeOK /\ [Next]_vars => TypeOK'
    <2> SUFFICES ASSUME TypeOK, [Next]_vars
                 PROVE  TypeOK'
      OBVIOUS
    <2> USE DEF TypeOK, letterVars
    <2>1. CASE Preview
      BY <2>1 DEF Preview, IsOverdue
    <2>2. CASE Save
      <3>1. \A k \in Plan(deadline, now, urgency) :
                k \in Kinds /\ FireAt(k, deadline) > now
        BY PlanIsAhead
      <3>2. \A k \in Kinds : FireAt(k, deadline) \in Int
        BY FireAtBounds
      <3> QED
        BY <2>2, <3>1, <3>2 DEF Save
    <2>3. CASE Tick
      <3>1. \A k \in schedules : FireAt(k, deadline) \in Int
        BY FireAtBounds
      <3>2. \A k \in schedules : now + 1 <= FireAt(k, deadline)
        BY <2>3, <3>1 DEF Tick
      <3>3. sent \subseteq [kind : Kinds, at : 0..(now + 1)]
        OBVIOUS
      <3> QED
        BY <2>3, <3>2, <3>3 DEF Tick
    <2>4. ASSUME NEW k \in Kinds, Fire(k)
          PROVE  TypeOK'
      BY <2>4 DEF Fire
    <2>5. CASE UNCHANGED vars
      BY <2>5 DEF vars
    <2> QED
      BY <2>1, <2>2, <2>3, <2>4, <2>5 DEF Next
  <1> QED
    BY <1>1, <1>2, PTL DEF Spec

-----------------------------------------------------------------------------
(* The headline.                                                           *)

\* Every reminder was sent at the hour that was planned for it.
SentOnTime == \A s \in sent : s.at = FireAt(s.kind, deadline)

\* Every reminder is sent on the day its headline names, at eight in Berlin.
THEOREM HeadlinesAreTrue == Spec => []HeadlineIsTrue
  <1>1. Init => SentOnTime
    BY DEF Init, SentOnTime
  <1>2. SentOnTime /\ [Next]_vars => SentOnTime'
    BY DEF SentOnTime, Next, Preview, Save, Fire, Tick, vars, letterVars
  <1>3. TypeOK /\ SentOnTime => HeadlineIsTrue
    <2> SUFFICES ASSUME TypeOK, SentOnTime, NEW s \in sent
                 PROVE  /\ BerlinDay(s.at) + LeadIn[s.kind] = deadline
                        /\ BerlinHour(s.at) = 8
      BY DEF HeadlineIsTrue
    <2> DEFINE day == deadline - DaysBefore[s.kind]
    <2>1. s.kind \in Kinds /\ deadline \in Nat
      BY DEF TypeOK
    <2>2. DaysBefore[s.kind] \in Nat /\ day \in Int
      BY <2>1, FireAtBounds
    <2>5. LeadIn[s.kind] = DaysBefore[s.kind]
      BY DEF LeadIn, DaysBefore
    <2>3. s.at = EightInBerlin(day)
      BY DEF SentOnTime, FireAt
    <2>4. BerlinDay(s.at) = day /\ BerlinHour(s.at) = 8
      BY <2>2, <2>3, EightIsEight
    <2> QED
      BY <2>1, <2>2, <2>4, <2>5
  <1> QED
    BY <1>1, <1>2, <1>3, TypeCorrect, PTL DEF Spec

-----------------------------------------------------------------------------
(* Overdue letters.                                                        *)

\* A letter shown as overdue is overdue for good, and has no reminder.
OverdueInv ==
    overdue => /\ 24 * (deadline + 1) <= now
               /\ schedules = {}
               /\ sent = {}

\* Nothing is planned for a letter whose deadline is over by the date of UTC.
LEMMA OverdueStep ==
    TypeOK /\ OverdueInv /\ (phase = "new" => schedules = {} /\ sent = {})
        /\ [Next]_vars => OverdueInv'
  <1> SUFFICES ASSUME TypeOK, OverdueInv, [Next]_vars,
                      phase = "new" => schedules = {} /\ sent = {}
               PROVE  OverdueInv'
    OBVIOUS
  <1> USE DEF OverdueInv, letterVars
  <1>1. now \in Nat /\ deadline \in Nat
    BY DEF TypeOK
  <1>2. CASE Preview
    <2>1. deadline < now \div 24 => 24 * (deadline + 1) <= now
      BY <1>1
    <2> QED
      BY <1>2, <2>1 DEF Preview, IsOverdue
  <1>3. CASE Save
    <2>1. SUFFICES ASSUME overdue
                   PROVE  Plan(deadline, now, urgency) = {}
      BY <1>3 DEF Save
    <2>2. \A k \in Kinds : FireAt(k, deadline) < 24 * deadline + 8
                             /\ FireAt(k, deadline) \in Int
      BY <1>1, FireAtBounds
    <2>3. \A k \in Kinds : ~(FireAt(k, deadline) > now)
      BY <1>1, <2>1, <2>2
    <2> QED
      BY <1>1, <2>3, PlanIsAhead
  <1>4. CASE Tick
    BY <1>1, <1>4 DEF Tick
  <1>5. ASSUME NEW k \in Kinds, Fire(k)
        PROVE  OverdueInv'
    BY <1>5 DEF Fire
  <1>6. CASE UNCHANGED vars
    BY <1>6 DEF vars
  <1> QED
    BY <1>2, <1>3, <1>4, <1>5, <1>6 DEF Next

\* A letter that the preview called overdue is never reminded of.
THEOREM OverdueIsNotReminded == Spec => []OverdueHasNoReminder
  <1> DEFINE Untouched == phase = "new" => schedules = {} /\ sent = {}
  <1>1. Init => OverdueInv /\ Untouched
    BY DEF Init, OverdueInv
  <1>2. Untouched /\ [Next]_vars => Untouched'
    BY DEF Next, Preview, Save, Fire, Tick, vars, letterVars
  <1>3. TypeOK /\ OverdueInv /\ Untouched /\ [Next]_vars => OverdueInv'
    BY OverdueStep
  <1>4. OverdueInv => OverdueHasNoReminder
    BY DEF OverdueInv, OverdueHasNoReminder
  <1> QED
    BY <1>1, <1>2, <1>3, <1>4, TypeCorrect, PTL DEF Spec

-----------------------------------------------------------------------------
(* Urgent letters.                                                         *)

\* The reminder of the day before the deadline.
Eve == [kind |-> "advance_1d", at |-> EightInBerlin(deadline - 1)]

\* An urgent letter that was saved in time awaits that reminder or has had it.
UrgentInv ==
    phase = "saved" /\ urgency = "high" /\ BerlinDay(saved) + 2 <= deadline
        => "advance_1d" \in schedules \/ Eve \in sent

\* The eve's reminder comes after midnight in Berlin and before the next one.
LEMMA EveBounds ==
    ASSUME NEW dl \in Nat, NEW h \in Nat
    PROVE  /\ FireAt("advance_1d", dl) = EightInBerlin(dl - 1)
           /\ BerlinDay(h) + 2 <= dl => FireAt("advance_1d", dl) > h
           /\ BerlinDay(h) >= dl => FireAt("advance_1d", dl) < h
  <1>1. DaysBefore["advance_1d"] = 1
    BY DEF DaysBefore
  <1>2. Offset(h) \in {1, 2} /\ Offset(24 * (dl - 1) + 6) \in {1, 2}
    BY DEF Offset
  <1>3. EightInBerlin(dl - 1) \in {24 * (dl - 1) + 7, 24 * (dl - 1) + 6}
    BY <1>2 DEF EightInBerlin
  <1>4. (h + Offset(h)) \div 24 + 2 <= dl => h < 24 * (dl - 1)
    BY <1>2
  <1>5. (h + Offset(h)) \div 24 >= dl => h > 24 * (dl - 1) + 7
    BY <1>2
  <1> QED
    BY <1>1, <1>3, <1>4, <1>5 DEF FireAt, BerlinDay

\* Whoever saves an urgent letter in time has been reminded when the day comes.
THEOREM UrgentIsRemindedInTime == Spec => []UrgentIsReminded
  <1>1. Init => UrgentInv
    BY DEF Init, UrgentInv
  <1>2. TypeOK /\ UrgentInv /\ [Next]_vars => UrgentInv'
    <2> SUFFICES ASSUME TypeOK, UrgentInv, [Next]_vars
                 PROVE  UrgentInv'
      OBVIOUS
    <2> USE DEF UrgentInv, Eve, letterVars
    <2>1. now \in Nat /\ deadline \in Nat
      BY DEF TypeOK
    <2>2. CASE Preview
      BY <2>2 DEF Preview
    <2>3. CASE Save
      <3> SUFFICES ASSUME urgency = "high", BerlinDay(now) + 2 <= deadline
                   PROVE  "advance_1d" \in Plan(deadline, now, urgency)
        BY <2>3 DEF Save
      <3>1. OffsetsFor(urgency)[2] = "advance_1d" /\ 2 \in DOMAIN OffsetsFor(urgency)
        BY DEF OffsetsFor
      <3>2. FireAt("advance_1d", deadline) > now
        BY <2>1, EveBounds
      <3> QED
        BY <3>1, <3>2 DEF Plan
    <2>4. CASE Tick
      BY <2>4 DEF Tick
    <2>5. ASSUME NEW k \in Kinds, Fire(k)
          PROVE  UrgentInv'
      <3>1. FireAt("advance_1d", deadline) = EightInBerlin(deadline - 1)
        BY <2>1, EveBounds
      <3>2. CASE k = "advance_1d"
        BY <2>5, <3>1, <3>2 DEF Fire
      <3>3. CASE k # "advance_1d"
        BY <2>5, <3>3 DEF Fire
      <3> QED
        BY <3>2, <3>3
    <2>6. CASE UNCHANGED vars
      BY <2>6 DEF vars
    <2> QED
      BY <2>2, <2>3, <2>4, <2>5, <2>6 DEF Next
  <1>3. TypeOK /\ UrgentInv => UrgentIsReminded
    <2> SUFFICES ASSUME TypeOK, UrgentInv,
                        phase = "saved", urgency = "high",
                        BerlinDay(saved) + 2 <= deadline,
                        BerlinDay(now) >= deadline
                 PROVE  Eve \in sent
      BY DEF UrgentIsReminded, Eve
    <2>1. now \in Nat /\ deadline \in Nat
      BY DEF TypeOK
    <2>2. "advance_1d" \notin schedules
      <3>1. FireAt("advance_1d", deadline) < now
        BY <2>1, EveBounds
      <3>2. "advance_1d" \in Kinds
        BY DEF Kinds, DaysBefore
      <3>3. FireAt("advance_1d", deadline) \in Int
        BY <2>1, <3>2, FireAtBounds
      <3> QED
        BY <2>1, <3>1, <3>3 DEF TypeOK
    <2> QED
      BY <2>2 DEF UrgentInv
  <1> QED
    BY <1>1, <1>2, <1>3, TypeCorrect, PTL DEF Spec
=============================================================================
