------------------------------ MODULE CronForm ------------------------------
(***************************************************************************)
(* The schedule in the form of the cron panel, the plain English the form    *)
(* puts beside it, and what the backend's parser makes of the same schedule, *)
(* which has six fields (seconds first) or five.                            *)
(***************************************************************************)
EXTENDS Naturals, Sequences

CONSTANTS
    Typed   \* the schedules that are typed into the form

\* A field of a schedule: any value, one value, or every n-th.
Star == [kind |-> "star", n |-> 0]
At(n) == [kind |-> "at", n |-> n]
Every(n) == [kind |-> "every", n |-> n]

\* The buttons of the form.
PRESETS == {<<Every(10), Star, Star, Star, Star, Star>>,
            <<Every(30), Star, Star, Star, Star, Star>>,
            <<At(0), Star, Star, Star, Star, Star>>,
            <<At(0), Every(5), Star, Star, Star, Star>>,
            <<At(0), At(0), Star, Star, Star, Star>>}

IsEvery(f) == f.kind = "every"

Says(unit, n) == [unit |-> unit, n |-> n]

\* The days are wild: day of month, month and day of week.
Wild(p) == \A i \in Len(p) - 2 .. Len(p) : p[i] = Star

\* Mutant: the days are not looked at.
DescribeSixAnyDay(p) ==
    CASE IsEvery(p[1]) /\ p[2] = Star /\ p[3] = Star -> Says("seconds", p[1].n)
      [] p[1] = At(0) /\ IsEvery(p[2]) /\ p[3] = Star -> Says("minutes", p[2].n)
      [] p[1] = At(0) /\ p[2] = At(0) /\ IsEvery(p[3]) -> Says("hours", p[3].n)
      [] p[1] = At(0) /\ p[2] = Star /\ p[3] = Star -> Says("minutes", 1)
      [] p[1] = At(0) /\ p[2] = At(0) /\ p[3] = Star -> Says("hours", 1)
      [] p[1] = At(0) /\ p[2] = At(0) /\ p[3] = At(0) -> Says("hours", 24)
      [] OTHER -> Says("custom", 0)

\* Daily at midnight is every 24 hours.
DescribeSix(p) ==
    IF ~Wild(p) THEN Says("custom", 0)
    ELSE CASE IsEvery(p[1]) /\ p[2] = Star /\ p[3] = Star -> Says("seconds", p[1].n)
           [] p[1] = At(0) /\ IsEvery(p[2]) /\ p[3] = Star -> Says("minutes", p[2].n)
           [] p[1] = At(0) /\ p[2] = At(0) /\ IsEvery(p[3]) -> Says("hours", p[3].n)
           [] p[1] = At(0) /\ p[2] = Star /\ p[3] = Star -> Says("minutes", 1)
           [] p[1] = At(0) /\ p[2] = At(0) /\ p[3] = Star -> Says("hours", 1)
           [] p[1] = At(0) /\ p[2] = At(0) /\ p[3] = At(0) -> Says("hours", 24)
           [] OTHER -> Says("custom", 0)

\* Five fields: the days, and mostly the hour, are not looked at.
DescribeFive(p) ==
    CASE IsEvery(p[1]) -> Says("minutes", p[1].n)
      [] p[1] = Star -> Says("minutes", 1)
      [] p[1] = At(0) /\ IsEvery(p[2]) -> Says("hours", p[2].n)
      [] p[1] = At(0) /\ p[2] = Star -> Says("hours", 1)
      [] OTHER -> Says("custom", 0)

describeSchedule(p) == IF Len(p) = 6 THEN DescribeSix(p) ELSE DescribeFive(p)
-----------------------------------------------------------------------------
(* The meaning of a schedule, and of the text.                              *)

Matches(f, v) ==
    \/ f.kind = "star"
    \/ f.kind = "at" /\ v = f.n
    \/ f.kind = "every" /\ v % f.n = 0

\* Five fields mean second 0.
SixFields(p) == IF Len(p) = 6 THEN p ELSE <<At(0)>> \o p

FiresAt(p, hour, minute, second) ==
    LET q == SixFields(p) IN
    Matches(q[1], second) /\ Matches(q[2], minute) /\ Matches(q[3], hour)

UnitSeconds(unit) == CASE unit = "seconds" -> 1 [] unit = "minutes" -> 60 [] unit = "hours" -> 3600

\* "every n units" is every moment that n units divide, counted from any midnight.
RightAt(p, text, hour, minute, second) ==
    FiresAt(p, hour % 24, minute, second) <=>
        (3600 * hour + 60 * minute + second) % (text.n * UnitSeconds(text.unit)) = 0

\* The days are open: "*/1" is every day too.
OpenDays(p) == \A i \in Len(p) - 2 .. Len(p) : p[i] \in {Star, Every(1)}

\* The text is right on all days at every moment, past the next midnight too.
TextHolds(p) ==
    LET text == describeSchedule(p) IN
    text.unit = "custom" \/
        /\ OpenDays(p)
        /\ \A hour \in 0..24, minute \in 0..59, second \in 0..59 :
             RightAt(p, text, hour, minute, second)

-----------------------------------------------------------------------------
VARIABLE schedule   \* what the form holds

\* A new form holds the first preset.
Init == schedule = <<Every(10), Star, Star, Star, Star, Star>>

\* A preset is chosen, something is typed, or the page opens anew.
setSchedule(s) == schedule' = s

Next == \E s \in PRESETS \cup Typed : setSchedule(s)

Spec == Init /\ [][Next]_schedule

-----------------------------------------------------------------------------
(* The schedules whose text is wrong.                                       *)

\* Six fields with a step that does not divide the next larger unit: "*/7".
UnevenStep(p) ==
    \E i \in 1..3 :
        /\ \A k \in 1 .. i - 1 : p[k] = At(0)
        /\ IsEvery(p[i]) /\ <<60, 60, 24>>[i] % p[i].n # 0
        /\ \A k \in i + 1 .. 6 : p[k] = Star

\* The hours are those a count of n minutes reaches on the hour, and n minutes are a
\* whole part of an hour, or whole hours.
FitsHours(n, hours) ==
    /\ 60 % n = 0 \/ n % 60 = 0
    /\ \A hour \in 0..24 : Matches(hours, hour % 24) <=> (60 * hour) % n = 0

\* Five fields that have words: with a Monday ("*/15 * * * 1"), with an hour
\* ("*/15 9 * * *"), or with an uneven step.
WrongFive(p) ==
    \/ /\ p[1] = Star \/ IsEvery(p[1]) \/ (p[1] = At(0) /\ (p[2] = Star \/ IsEvery(p[2])))
       /\ ~OpenDays(p)
    \/ p[1] = Star /\ ~FitsHours(1, p[2])
    \/ IsEvery(p[1]) /\ ~FitsHours(p[1].n, p[2])
    \/ p[1] = At(0) /\ IsEvery(p[2]) /\ 24 % p[2].n # 0

WrongWords(p) == IF Len(p) = 6 THEN UnevenStep(p) ELSE WrongFive(p)

\* The English beside a schedule in the form is when the backend fires the job, but for
\* uneven steps, and five fields that choose days or hours: for these it is wrong, and
\* for no others.
DescribesExactly == TextHolds(schedule) <=> ~WrongWords(schedule)
=============================================================================
