---------------------------- MODULE CronDaysProofs ----------------------------
(***************************************************************************)
(* The translation of day-of-week fields is exact for every field that can *)
(* be written, and what follows for the days on which lists are imported.  *)
(***************************************************************************)
EXTENDS CronDays, TLAPS, FiniteSetTheorems

\* Every n-th member of an interval is a distance from its start.
LEMMA EveryNthOfInterval ==
  ASSUME NEW a \in Int, NEW b \in Int, NEW n \in Nat \ {0}
  PROVE  EveryNth(a..b, n) = {v \in a..b : (v - a) % n = 0}
<1>1. ASSUME NEW v \in a..b
      PROVE  Cardinality({u \in a..b : u < v}) = v - a
  <2>1. {u \in a..b : u < v} = a..(v - 1)
    OBVIOUS
  <2>2. Cardinality(a..(v - 1)) = IF a > v - 1 THEN 0 ELSE (v - 1) - a + 1
    BY FS_Interval
  <2>3. Cardinality(a..(v - 1)) = v - a
    BY <2>2
  <2> QED
    BY <2>1, <2>3, Zenon
<1> QED
  BY <1>1 DEF EveryNth

\* A term is parsed into the days of its POSIX reading.
LEMMA TermExact ==
  ASSUME NEW t \in Terms, Written(t), t.from <= t.to
  PROVE  ParseTerm(t) = PosixTermDays(t)
<1> USE DEF Numbers
<1>0. t.from \in 0..7 /\ t.to \in 0..7 /\ t.step \in Nat
  BY DEF Terms
<1> USE <1>0
<1>1. Items(t) = t.from..t.to
  BY DEF Items, Written
<1>2. CASE t.step = 0
  BY <1>1, <1>2 DEF Stepped, ParseTerm, PosixTermDays, Last, Weekdays
<1>3. CASE t.step # 0
  <2>1. Items(t) = {t.from} <=> t.from = t.to
    BY <1>1
  <2>2. Stepped(t) = EveryNth(t.from..Last(t), t.step)
    BY <1>1, <1>3, <2>1 DEF Stepped, Last
  <2>3. Last(t) \in Int
    BY DEF Last
  <2>4. Stepped(t) = {v \in t.from..Last(t) : (v - t.from) % t.step = 0}
    BY <1>3, <2>2, <2>3, EveryNthOfInterval, SMTT(30)
  <2>5. \A v \in Stepped(t) : v % 7 \in Weekdays
    <3>1. \A v \in Stepped(t) : v \in Int
      BY <2>3, <2>4
    <3>2. \A v \in Int : v % 7 \in Weekdays
      BY DEF Weekdays
    <3> QED
      BY <3>1, <3>2
  <2> QED
    BY <1>3, <2>4, <2>5, ZenonT(30) DEF ParseTerm, PosixTermDays
<1> QED
  BY <1>2, <1>3

\* So is a term without a digit, by APScheduler, where it accepts the term.
LEMMA NamesExact ==
  ASSUME NEW t \in Terms, Written(t), t.from <= t.to, ~ HasDigit(t), ApTermBuilds(t)
  PROVE  ApTermDays(t) = PosixTermDays(t)
<1> USE DEF Terms, Numbers, Weekdays, Weeks, Written, HasDigit, Ends
<1>1. t.step = 0 /\ PosixTermDays(t) = {d \in Weekdays : \E v \in t.from..t.to : v % 7 = d}
  BY DEF PosixTermDays, Last
<1>2. CASE t.star
  <2>0. \A d \in Weekdays : (t.step # 0 => FromMonday(d) % t.step = 0)
    BY <1>1
  <2>1. ApTermDays(t) = Weekdays
    BY <1>2, <2>0 DEF ApTermDays
  <2>2. t.from = 0 /\ t.to = 7
    BY <1>2
  <2>3. \A d \in Weekdays : d \in 0..7 /\ d % 7 = d
    OBVIOUS
  <2> QED
    BY <1>1, <2>1, <2>2, <2>3
<1>3. CASE ~ t.star
  <2>1. t.from \in Weekdays /\ t.to \in Weekdays
    BY <1>3
  <2>4. t.names = Ends /\ FromMonday(t.from) <= FromMonday(t.to)
    BY <1>3 DEF ApTermBuilds, ApNamed, ApNamedLast
  <2>2. PosixTermDays(t) = {d \in Weekdays : t.from <= d /\ d <= t.to}
    BY <1>1, <2>1
  <2>3. \A d \in Weekdays : FromMonday(d) = IF d = 0 THEN 6 ELSE d - 1
    BY DEF FromMonday
  <2> QED
    BY <1>3, <2>1, <2>2, <2>3, <2>4 DEF ApTermDays, ApNamed, ApNamedLast
<1> QED
  BY <1>2, <1>3

\* For every field without "#", of any length, with any steps: where both
\* libraries accept it, the trigger fires on its POSIX days.
THEOREM TranslationIsExact == \A f \in Fields : TranslationExact(f)
<1> SUFFICES ASSUME NEW f \in Fields, PosixParses(f), ApBuilds(f), Weekly(f), NEW w \in Weeks
             PROVE  ApDays(f) = PosixDays(f, w)
  BY DEF TranslationExact
<1>1. \A i \in DOMAIN f : f[i] \in Terms /\ Written(f[i]) /\ TermParses(f[i])
  BY DEF Fields, PosixParses, Weekly, TermParses
<1>2. PosixDays(f, w) = UNION {PosixTermDays(f[i]) : i \in DOMAIN f}
  BY DEF PosixDays, PosixTermDays, Weekly
<1>3. CASE Translated(f)
  BY <1>1, <1>2, <1>3, TermExact DEF ApDays, TermParses
<1>4. CASE ~ Translated(f)
  BY <1>1, <1>2, <1>4, NamesExact DEF ApDays, Translated, ApBuilds, TermParses
<1> QED
  BY <1>3, <1>4

----------------------------------------------------------------------------
\* Both libraries accept the field of an expression.
Accepted(e) == PosixParses(e.dow) /\ ApBuilds(e.dow)

\* A plain expression that restricts the days in one way has the same days for both.
LEMMA SameDays ==
  ASSUME NEW e \in Crons, Accepted(e), Plain(e)
  PROVE  /\ \A n \in Days : ApDay(e, n) => PosixDay(e, n)
         /\ ~ Mixed(e) => \A n \in Days : ApDay(e, n) <=> PosixDay(e, n)
         /\ ~ Mixed(e) => ApSet[e] = PosixSet[e]
         /\ ApSet[e] \subseteq PosixSet[e]
<1>0. \A n \in Days : WeekOf(n) \in Weeks
  BY CalendarAssumption DEF Days, WeekOf, Weeks, Cycle
<1>1. \A w \in Weeks : ApDays(e.dow) = PosixDays(e.dow, w)
  BY TranslationIsExact, CronsAssumption DEF Accepted, TranslationExact, Plain
<1>2. \A n \in Days : ApDay(e, n) => PosixDay(e, n)
  BY <1>0, <1>1 DEF ApDay, PosixDay, OnPosixDow, Plain
<1>3. ~ Mixed(e) => \A n \in Days : ApDay(e, n) <=> PosixDay(e, n)
  BY <1>0, <1>1 DEF ApDay, PosixDay, OnPosixDow, Plain
<1> QED
  BY <1>2, <1>3 DEF ApSet, PosixSet

LEMMA ValidImplies ==
  ASSUME NEW e \in Crons, NEW n \in Days, Valid(e, n)
  PROVE  Accepted(e)
BY DEF Valid, Accepted

\* If such an expression is accepted on one day, it is on all of them.
LEMMA ValidForever ==
  ASSUME NEW e \in Crons, NEW n \in Days, NEW m \in Days, Valid(e, n),
         Plain(e), ~ Mixed(e)
  PROVE  Valid(e, m)
BY ValidImplies, SameDays DEF Valid

\* What is stored or scheduled was valid on some day, and is scheduled unless
\* a request is about to or it is mixed.
Accepts(e) == e \in Crons /\ \E n \in Days : Valid(e, n)

CronInv ==
    /\ now \in Days
    /\ active \in BOOLEAN /\ pending \in BOOLEAN
    /\ cron # NoCron => Accepts(cron)
    /\ job # NoCron => Accepts(job)
    /\ pending => active /\ cron # NoCron
    /\ ~ active => job = NoCron
    /\ AcceptedStaysScheduled

LEMMA DaysAdvance == \A n \in Days : (n + 1) % Cycle \in Days
<1>1. Cycle \in Nat \ {0}
  BY CalendarAssumption DEF Cycle
<1> QED
  BY <1>1 DEF Days

LEMMA InitCron == Init => CronInv
BY DEF Init, CronInv, AcceptedStaysScheduled

LEMMA NextCron == CronInv /\ [Next]_vars => CronInv'
<1> SUFFICES ASSUME CronInv, [Next]_vars
             PROVE  CronInv'
  OBVIOUS
<1> USE DEF CronInv, AcceptedStaysScheduled
<1>0. NoCron \notin Crons
  BY CronsAssumption
<1>1. CASE \E e \in Crons : StoreCron(e)
  BY <1>0, <1>1 DEF StoreCron, Accepts
<1>2. CASE ClearCron
  BY <1>2 DEF ClearCron
<1>3. CASE Toggle
  BY <1>3 DEF Toggle
<1>4. CASE ScheduleList
  <2>1. Accepts(cron)
    BY <1>4 DEF ScheduleList
  <2>2. Plain(cron) /\ ~ Mixed(cron) => Valid(cron, now)
    BY <2>1, ValidForever DEF Accepts
  <2> QED
    BY <1>4, <2>1, <2>2 DEF ScheduleList
<1>5. CASE Reconcile
  <2>1. cron # NoCron /\ Plain(cron) /\ ~ Mixed(cron) => Valid(cron, now)
    BY ValidForever DEF Accepts
  <2> QED
    BY <1>5, <2>1 DEF Reconcile
<1>6. CASE Day
  BY <1>6, DaysAdvance DEF Day
<1>7. CASE UNCHANGED vars
  BY <1>7 DEF vars
<1> QED
  BY <1>1, <1>2, <1>3, <1>4, <1>5, <1>6, <1>7 DEF Next

LEMMA CronInvariant == Spec => []CronInv
BY InitCron, NextCron, PTL DEF Spec

\* An accepted cron that is plain and restricts the days in one way is never
\* dropped: at every later validation it is accepted again.
THEOREM AcceptedStays == Spec => []AcceptedStaysScheduled
<1>1. CronInv => AcceptedStaysScheduled
  BY DEF CronInv
<1> QED
  BY <1>1, CronInvariant, PTL

\* Imports happen on POSIX days of a plain cron that is scheduled, and on all of
\* them unless it restricts both kinds of days.
THEOREM FiringIsPosix == Spec => FiresOnPosixDays
<1>1. CronInv /\ [Next]_vars =>
        [Day /\ job # NoCron /\ Plain(job) =>
            /\ ran' => PosixDay(job, now)
            /\ PosixDay(job, now) /\ ~ Mixed(job) => ran']_vars
  <2> SUFFICES ASSUME CronInv, Day, job # NoCron, Plain(job)
               PROVE  /\ ran' => PosixDay(job, now)
                      /\ PosixDay(job, now) /\ ~ Mixed(job) => ran'
    OBVIOUS
  <2>1. now \in Days /\ job \in Crons /\ Accepted(job)
    BY ValidImplies DEF CronInv, Accepts
  <2>2. ran' <=> ApDay(job, now)
    BY <2>1 DEF Day, ApSet
  <2> QED
    BY <2>1, <2>2, SameDays
<1> QED
  BY <1>1, CronInvariant, PTL DEF Spec, FiresOnPosixDays

----------------------------------------------------------------------------
\* A nonempty set of naturals with a bound has a least element: finite sets
\* are well-founded by inclusion, so some 0..n with n in the set is smallest.
LEMMA Least ==
  ASSUME NEW c \in Nat, NEW S, S \subseteq 0..c, S # {}
  PROVE  \E m \in S : \A n \in S : m <= n
<1> DEFINE T == {0..n : n \in S}
<1>1. IsWellFoundedOn(StrictSubsetOrdering(0..c), SUBSET (0..c))
  <2>1. IsFiniteSet(0..c)
    BY FS_Interval
  <2>2. FiniteSubsetsOf(0..c) = SUBSET (0..c)
    BY <2>1, FS_FiniteSubsetsOfFinite
  <2>3. IsWellFoundedOn(StrictSubsetOrdering(0..c), FiniteSubsetsOf(0..c))
    BY FS_StrictSubsetOrderingWellFounded
  <2> QED
    BY <2>2, <2>3, Zenon
<1>2. T \subseteq SUBSET (0..c)
  <2>1. ASSUME NEW n \in S
        PROVE  0..n \subseteq 0..c
    OBVIOUS
  <2> QED
    BY <2>1
<1>3. PICK x \in T : \A y \in T : ~ (<<y, x>> \in StrictSubsetOrdering(0..c))
  <2>1. T # {}
    OBVIOUS
  <2> HIDE DEF T
  <2> QED
    BY <1>1, <1>2, <2>1, WFMin
<1>4. PICK m \in S : x = 0..m
  BY <1>3
<1>5. ASSUME NEW n \in S, n < m
      PROVE  FALSE
  <2>1. 0..n \in T /\ 0..n \subseteq 0..m /\ 0..n # 0..m
    BY <1>5
  <2>2. 0..n \subseteq 0..c /\ 0..m \subseteq 0..c
    OBVIOUS
  <2>3. <<0..n, 0..m>> \in StrictSubsetOrdering(0..c)
    BY <2>1, <2>2 DEF StrictSubsetOrdering
  <2> QED
    BY <1>3, <1>4, <2>1, <2>3
<1> QED
  BY <1>5

\* The wait ends on a day of the set, or after a cycle, and not before one.
LEMMA WaitIsLeast ==
  ASSUME NEW S, NEW n \in Nat
  PROVE  /\ Wait(S, n) \in 0..Cycle
         /\ Wait(S, n) = Cycle \/ (n + Wait(S, n)) % Cycle \in S
         /\ \A c \in 0..(Wait(S, n) - 1) : (n + c) % Cycle \notin S
<1> DEFINE Fits(d) == d = Cycle \/ (n + d) % Cycle \in S
           D == {d \in 0..Cycle : Fits(d)}
<1>1. Cycle \in Nat \ {0}
  BY CalendarAssumption DEF Cycle
<1>2. PICK m \in D : \A d \in D : m <= d
  <2>1. D \subseteq 0..Cycle /\ D # {}
    BY <1>1
  <2> HIDE DEF D
  <2> QED
    BY <1>1, <2>1, Least
<1>3. m \in 0..Cycle /\ Fits(m) /\ \A c \in 0..(m - 1) : (n + c) % Cycle \notin S
  BY <1>1, <1>2
<1> QED
  BY <1>3 DEF Wait

\* With more days the next one is not later.
LEMMA WaitShrinks ==
  ASSUME NEW S, NEW T, S \subseteq T, NEW n \in Nat
  PROVE  Wait(T, n) <= Wait(S, n)
<1>1. Cycle \in Nat
  BY CalendarAssumption DEF Cycle
<1> DEFINE s == Wait(S, n)
           t == Wait(T, n)
<1>2. /\ s \in 0..Cycle /\ (s = Cycle \/ (n + s) % Cycle \in S)
      /\ t \in 0..Cycle /\ \A c \in 0..(t - 1) : (n + c) % Cycle \notin T
  BY WaitIsLeast
<1> HIDE DEF s, t
<1>3. t <= s
  BY <1>1, <1>2
<1> QED
  BY <1>3 DEF s, t

\* While nobody changes the list, the process of the scheduler and the others
\* name the same next run, if the cron is plain and restricts the days in one
\* way; if it is plain and restricts both, the others may name an earlier one.
THEOREM NextRunsAgree == Spec => []NextRunAgrees
<1>1. CronInv => NextRunAgrees
  <2> SUFFICES ASSUME CronInv, job = cron \/ ~ active, ~ pending, cron # NoCron => Plain(cron)
               PROVE  /\ NextRunOfRow <= NextRunOfJob
                      /\ cron # NoCron /\ ~ Mixed(cron) => NextRunOfRow = NextRunOfJob
    BY DEF NextRunAgrees
  <2>1. Cycle \in Nat /\ now \in Nat
    BY CalendarAssumption DEF Cycle, CronInv, Days
  <2>2. CASE job = NoCron
    <3>1. NextRunOfRow = Cycle /\ NextRunOfJob = Cycle
      BY <2>2 DEF NextRunOfRow, NextRunOfJob
    <3> QED
      BY <2>1, <3>1
  <2>3. CASE job # NoCron
    <3>1. active /\ job = cron /\ cron \in Crons /\ Accepted(cron) /\ Plain(cron)
      BY <2>3, CronsAssumption, ValidImplies DEF CronInv, Accepts
    <3>2. NextRunOfRow = Wait(PosixSet[cron], now) /\ NextRunOfJob = Wait(ApSet[cron], now)
      BY <2>3, <3>1 DEF NextRunOfRow, NextRunOfJob
    <3>3. ApSet[cron] \subseteq PosixSet[cron]
      BY <3>1, SameDays
    <3>4. NextRunOfRow <= NextRunOfJob
      BY <2>1, <3>2, <3>3, WaitShrinks
    <3>5. ~ Mixed(cron) => NextRunOfRow = NextRunOfJob
      BY <3>1, <3>2, SameDays
    <3> QED
      BY <3>4, <3>5
  <2> QED
    BY <2>2, <2>3
<1> QED
  BY <1>1, CronInvariant, PTL

----------------------------------------------------------------------------
\* A quotient and a remainder are unique.
LEMMA ModUnique ==
  ASSUME NEW c \in Nat \ {0}, NEW q \in Int, NEW r \in 0..(c - 1)
  PROVE  (c * q + r) % c = r
<1> DEFINE n == c * q + r
           p == n \div c
           s == n % c
<1>1. n \in Int /\ p \in Int /\ s \in 0..(c-1) /\ n = c * p + s
  OBVIOUS
<1>2. c * q + r = c * p + s
  BY <1>1
<1> HIDE DEF n, p, s
<1>3. c * (q - p) = s - r
  BY <1>1, <1>2
<1>4. CASE q - p >= 1
  BY <1>1, <1>3, <1>4
<1>5. CASE q - p <= -1
  BY <1>1, <1>3, <1>5
<1>6. CASE q = p
  BY <1>1, <1>3, <1>6 DEF n, s
<1> QED
  BY <1>1, <1>4, <1>5, <1>6

\* A calendar that repeats after c days shows the same day c days later.
LEMMA ModShift ==
  ASSUME NEW c \in Nat \ {0}, NEW k \in Int
  PROVE  (c + k) % c = k % c
<1> DEFINE p == k \div c
           s == k % c
<1>1. p \in Int /\ s \in 0..(c-1) /\ k = c * p + s
  OBVIOUS
<1> HIDE DEF p, s
<1>2. c + k = c * (p + 1) + s
  BY <1>1
<1>3. (c * (p + 1) + s) % c = s
  <2>1. p + 1 \in Int
    BY <1>1
  <2> QED
    BY <1>1, <2>1, ModUnique, Zenon
<1> QED
  BY <1>2, <1>3 DEF s

\* If some day of the calendar is in the set, the wait ends on such a day.
LEMMA WaitEnds ==
  ASSUME NEW S, S \subseteq Days, S # {}, NEW n \in Nat
  PROVE  /\ Wait(S, n) \in 0..(Cycle - 1)
         /\ (n + Wait(S, n)) % Cycle \in S
<1>1. Cycle \in Nat \ {0}
  BY CalendarAssumption DEF Cycle
<1>2. PICK s \in S : s \in 0..(Cycle - 1)
  BY DEF Days
<1> DEFINE p == n \div Cycle
           r == n % Cycle
           d == IF s >= r THEN s - r ELSE Cycle + s - r
<1>3. p \in Int /\ r \in 0..(Cycle - 1) /\ n = Cycle * p + r
  BY <1>1
<1> HIDE DEF p, r
<1>4. d \in 0..(Cycle - 1)
  BY <1>1, <1>2, <1>3
<1>5. n + d = Cycle * p + s \/ n + d = Cycle * (p + 1) + s
  BY <1>1, <1>2, <1>3
<1> HIDE DEF d
<1>6. (Cycle * p + s) % Cycle = s
  BY <1>1, <1>2, <1>3, ModUnique
<1>7. (Cycle * (p + 1) + s) % Cycle = s
  <2>1. p + 1 \in Int
    BY <1>3
  <2> QED
    BY <1>1, <1>2, <2>1, ModUnique, Zenon
<1>8. (n + d) % Cycle \in S
  BY <1>2, <1>5, <1>6, <1>7
<1> DEFINE w == Wait(S, n)
<1>9. /\ w \in 0..Cycle
      /\ w = Cycle \/ (n + w) % Cycle \in S
      /\ \A c \in 0..(w - 1) : (n + c) % Cycle \notin S
  BY WaitIsLeast
<1> HIDE DEF w
<1>10. w \in 0..(Cycle - 1) /\ (n + w) % Cycle \in S
  BY <1>1, <1>4, <1>8, <1>9
<1> QED
  BY <1>10 DEF w

\* So do three waits in a row.
LEMMA NextThreeEnd ==
  ASSUME NEW S, S \subseteq Days, S # {}, NEW n \in Nat, NEW i \in 1..3
  PROVE  NextThree(S, n)[i] \in Nat /\ (n + NextThree(S, n)[i]) % Cycle \in S
<1>1. Cycle \in Nat \ {0}
  BY CalendarAssumption DEF Cycle
<1> DEFINE first == Wait(S, n)
           second == first + 1 + Wait(S, n + first + 1)
           third == second + 1 + Wait(S, n + second + 1)
<1>2. first \in Nat /\ (n + first) % Cycle \in S
  BY <1>1, WaitEnds
<1>3. second \in Nat /\ (n + second) % Cycle \in S
  <2> HIDE DEF first
  <2> DEFINE w == Wait(S, n + first + 1)
  <2>1. n + first + 1 \in Nat
    BY <1>2
  <2>2. w \in 0..(Cycle - 1) /\ ((n + first + 1) + w) % Cycle \in S
    BY <2>1, WaitEnds
  <2> HIDE DEF w
  <2>3. first + 1 + w \in Nat /\ (n + first + 1) + w = n + (first + 1 + w)
    BY <1>1, <1>2, <2>2
  <2>4. first + 1 + w \in Nat /\ (n + (first + 1 + w)) % Cycle \in S
    BY <2>2, <2>3
  <2> QED
    BY <2>4 DEF w
<1>4. third \in Nat /\ (n + third) % Cycle \in S
  <2> HIDE DEF second
  <2> DEFINE w == Wait(S, n + second + 1)
  <2>1. n + second + 1 \in Nat
    BY <1>3
  <2>2. w \in 0..(Cycle - 1) /\ ((n + second + 1) + w) % Cycle \in S
    BY <2>1, WaitEnds
  <2> HIDE DEF w
  <2>3. second + 1 + w \in Nat /\ (n + second + 1) + w = n + (second + 1 + w)
    BY <1>1, <1>3, <2>2
  <2>4. second + 1 + w \in Nat /\ (n + (second + 1 + w)) % Cycle \in S
    BY <2>2, <2>3
  <2> QED
    BY <2>4 DEF w
<1>5. NextThree(S, n) = <<first, second, third>>
  BY DEF NextThree
<1> HIDE DEF first, second, third
<1> QED
  BY <1>2, <1>3, <1>4, <1>5

\* Where the trigger's next three days are those of the expression, the runs
\* that are shown are days of the trigger.
LEMMA ShownAreFired ==
  ASSUME NEW e \in Crons, NEW n \in Days, Valid(e, n), NEW i \in 1..3
  PROVE  /\ NextThree(PosixSet[e], n)[i] \in Nat
         /\ (n + NextThree(PosixSet[e], n)[i]) % Cycle \in ApSet[e]
<1>1. Cycle \in Nat \ {0} /\ n \in Nat
  BY CalendarAssumption DEF Cycle, Days
<1>2. NextThree(ApSet[e], n) = NextThree(PosixSet[e], n) /\ PosixSet[e] # {}
  BY DEF Valid
<1>3. PosixSet[e] \subseteq Days /\ ApSet[e] \subseteq Days
  BY DEF PosixSet, ApSet
<1>4. ApSet[e] # {}
  <2>1. Wait(PosixSet[e], n) \in 0..(Cycle - 1)
    BY <1>1, <1>2, <1>3, WaitEnds
  <2>2. Wait(ApSet[e], n) = Wait(PosixSet[e], n)
    <3>1. NextThree(ApSet[e], n)[1] = Wait(ApSet[e], n)
      BY DEF NextThree
    <3>2. NextThree(PosixSet[e], n)[1] = Wait(PosixSet[e], n)
      BY DEF NextThree
    <3> QED
      BY <1>2, <3>1, <3>2
  <2> DEFINE w == Wait(ApSet[e], n)
  <2>3. w = Cycle \/ (n + w) % Cycle \in ApSet[e]
    BY <1>1, WaitIsLeast
  <2>4. w \in 0..(Cycle - 1)
    BY <2>1, <2>2
  <2> HIDE DEF w
  <2> QED
    BY <1>1, <2>3, <2>4
<1> QED
  BY <1>1, <1>2, <1>3, <1>4, NextThreeEnd

\* Whatever is still shown is a day on which the trigger of the cron fires.
ShownInv ==
    /\ shown # {} => cron \in Crons
    /\ \A d \in shown : d \in Nat /\ (now + d) % Cycle \in ApSet[cron]

LEMMA NextShown == CronInv /\ ShownInv /\ [Next]_vars => ShownInv'
<1> SUFFICES ASSUME CronInv, ShownInv, [Next]_vars
             PROVE  ShownInv'
  OBVIOUS
<1>0. Cycle \in Nat \ {0} /\ now \in Days /\ now \in 0..(Cycle - 1)
  BY CalendarAssumption DEF Cycle, CronInv, Days
<1>1. ASSUME NEW e \in Crons, StoreCron(e)
      PROVE  ShownInv'
  <2>1. \A i \in 1..3 : /\ NextThree(PosixSet[e], now)[i] \in Nat
                        /\ (now + NextThree(PosixSet[e], now)[i]) % Cycle \in ApSet[e]
    BY <1>0, <1>1, ShownAreFired DEF StoreCron
  <2>2. /\ cron' = e /\ now' = now
        /\ shown' = {NextThree(PosixSet[e], now)[i] : i \in 1..3}
    BY <1>1 DEF StoreCron
  <2> QED
    BY <2>1, <2>2 DEF ShownInv
<1>2. CASE ClearCron
  BY <1>2 DEF ClearCron, ShownInv
<1>3. CASE Toggle
  BY <1>3 DEF Toggle, ShownInv
<1>4. CASE ScheduleList \/ Reconcile \/ UNCHANGED vars
  BY <1>4 DEF ScheduleList, Reconcile, vars, ShownInv
<1>5. CASE Day
  <2>1. now' = (now + 1) % Cycle /\ cron' = cron /\ shown' = {d - 1 : d \in shown \ {0}}
    BY <1>5 DEF Day
  <2>2. shown' # {} => cron' \in Crons
    BY <2>1 DEF ShownInv
  <2>3. ASSUME NEW d \in shown \ {0}
        PROVE  d - 1 \in Nat /\ (now' + (d - 1)) % Cycle \in ApSet[cron]
    <3>1. d \in Nat \ {0} /\ (now + d) % Cycle \in ApSet[cron]
      BY <2>3 DEF ShownInv
    <3>2. CASE now + 1 < Cycle
      <4>1. now' = now + 1
        BY <1>0, <2>1, <3>2
      <4>2. now' + (d - 1) = now + d
        BY <1>0, <3>1, <4>1
      <4> QED
        BY <3>1, <4>2
    <3>3. CASE now + 1 = Cycle
      <4>1. now' = 0
        BY <1>0, <2>1, <3>3
      <4>2. d - 1 \in Int /\ now + d = Cycle + (d - 1) /\ now' + (d - 1) = d - 1
        BY <1>0, <3>1, <3>3, <4>1
      <4>3. (Cycle + (d - 1)) % Cycle = (d - 1) % Cycle
        BY <1>0, <4>2, ModShift, Zenon
      <4> QED
        BY <3>1, <4>2, <4>3
    <3> QED
      BY <1>0, <3>1, <3>2, <3>3
  <2> QED
    BY <2>1, <2>2, <2>3 DEF ShownInv
<1> QED
  BY <1>1, <1>2, <1>3, <1>4, <1>5 DEF Next

\* The user is told the truth: as long as the stored cron is the scheduled one,
\* each of the three runs shown for it takes place on its day, whatever the
\* cron restricts and however long the calendar.
THEOREM ShownRunsTakePlace == Spec => ShownRunsHappen
<1>1. Init => ShownInv
  BY DEF Init, ShownInv
<1>2. CronInv /\ ShownInv /\ [Next]_vars => [Day /\ job = cron /\ 0 \in shown => ran']_vars
  <2> SUFFICES ASSUME CronInv, ShownInv, Day, job = cron, 0 \in shown
               PROVE  ran'
    OBVIOUS
  <2>1. Cycle \in Nat \ {0} /\ now \in 0..(Cycle - 1)
    BY CalendarAssumption DEF Cycle, CronInv, Days
  <2>2. cron \in Crons /\ (now + 0) % Cycle \in ApSet[cron]
    BY DEF ShownInv
  <2>3. now + 0 = now /\ now % Cycle = now
    BY <2>1
  <2>4. job # NoCron /\ now \in ApSet[job]
    BY <2>2, <2>3, CronsAssumption
  <2> QED
    BY <2>4 DEF Day
<1> QED
  BY <1>1, <1>2, NextShown, CronInvariant, PTL DEF Spec, ShownRunsHappen

=============================================================================
