------------------------------ MODULE CronField ------------------------------
(***************************************************************************)
(* Day-of-week fields of cron expressions, as two libraries read them:     *)
(* cronsim, whose POSIX reading users are shown, and APScheduler, whose    *)
(* triggers fire.  listarr/services/scheduler.py translates in between.    *)
(***************************************************************************)
EXTENDS Integers, FiniteSets, Sequences

Weekdays == 0..6    \* POSIX: 0 is Sunday
Numbers == 0..7     \* ... and so is 7
Weeks == 1..5       \* of a month

\* A term is "*", a day or a range, with a step or without (0), or the nth such
\* day of a month (nth # 0).  The ends in names are written as names, which
\* stand for the numbers of cronsim.
Ends == {"from", "to"}
Terms == [star : BOOLEAN, names : SUBSET Ends, from : Numbers, to : Numbers,
          step : Nat, nth : {0} \cup Weeks]

\* What can be written: no name stands for 7, "*" has no ends, "#" follows one
\* day.  (A range from a day to itself is written as the day, and cronsim's L is
\* left out: APScheduler refuses it wherever it stands.)
Written(t) ==
    /\ \A end \in t.names : t[end] # 7
    /\ t.star => t.names = {} /\ t.from = 0 /\ t.to = 7
    /\ t.nth # 0 => t.from = t.to /\ t.step = 0 /\ t.names \in {{}, Ends}

Fields == Seq({t \in Terms : Written(t)}) \ {<< >>}

Span(lo, hi) ==
    [star |-> FALSE, names |-> {}, from |-> lo, to |-> hi, step |-> 0, nth |-> 0]
Names(lo, hi) == [Span(lo, hi) EXCEPT !.names = Ends]
Star == [Span(0, 7) EXCEPT !.star = TRUE]
Every(t, n) == [t EXCEPT !.step = n]
Nth(t, n) == [t EXCEPT !.nth = n]

HasDigit(t) == t.step # 0 \/ t.nth # 0 \/ (~ t.star /\ t.names # Ends)

----------------------------------------------------------------------------
(* The POSIX reading: every step-th number from the first one on; a single  *)
(* number with a step goes on to the end of the week.                       *)

Last(t) == IF t.step # 0 /\ t.from = t.to THEN 7 ELSE t.to

PosixTermDays(t) ==
    {d \in Weekdays : \E v \in t.from..Last(t) :
        v % 7 = d /\ (t.step # 0 => (v - t.from) % t.step = 0)}

\* In the w-th week of the month, the one in which each day comes for the w-th time.
PosixDays(f, w) ==
    {d \in Weekdays : \E i \in DOMAIN f : f[i].nth \in {0, w} /\ d \in PosixTermDays(f[i])}

\* cronsim refuses a range that runs backwards.
PosixParses(f) == \A i \in DOMAIN f : f[i].from <= f[i].to

----------------------------------------------------------------------------
(* The translation                                                         *)

\* sorted(items)[::n]
EveryNth(S, n) == {v \in S : Cardinality({u \in S : u < v}) % n = 0}

Items(t) == IF t.star THEN Numbers ELSE t.from..t.to

Stepped(t) ==
    IF t.step = 0 THEN Items(t)
    ELSE IF Items(t) = {t.from} THEN EveryNth(t.from..7, t.step)
    ELSE EveryNth(Items(t), t.step)

\* Mutant: 7 stays what it is.
ParseTermUnfolded(t) == Stepped(t)

\* 7 is folded into 0.
ParseTerm(t) == {v % 7 : v \in Stepped(t)}

\* The parser knows neither "#" nor a range that runs backwards.
TermParses(t) == t.nth = 0 /\ t.from <= t.to

\* A field without a digit is left as it is, and one with a term that the parser
\* does not know as well.
Translated(f) ==
    /\ \E i \in DOMAIN f : HasDigit(f[i])
    /\ \A i \in DOMAIN f : TermParses(f[i])

----------------------------------------------------------------------------
(* What APScheduler makes of the result.  It numbers days from Monday, in   *)
(* names and in digits, and ignores whatever follows a name or two: a step, *)
(* the nth week, an end in digits.                                          *)

FromMonday(d) == (d + 6) % 7

ApNamed(t) == "from" \in t.names
ApNamedLast(t) == IF "to" \in t.names THEN t.to ELSE t.from

\* A number with a step goes on to the end of its week, which is 6.
ApLast(t) == IF t.step # 0 /\ t.from = t.to THEN 6 ELSE t.to

ApTermDays(t) ==
    {d \in Weekdays :
        LET k == FromMonday(d) IN
        IF t.star THEN t.step # 0 => k % t.step = 0
        ELSE IF ApNamed(t) THEN k \in FromMonday(t.from)..FromMonday(ApNamedLast(t))
        ELSE k \in t.from..ApLast(t) /\ (t.step # 0 => (k - t.from) % t.step = 0)}

\* It refuses a range that runs backwards in its own numbers, a digit that is
\* followed by a name or "#", 7, and a step beyond the end.
ApTermBuilds(t) ==
    IF t.star THEN t.step <= 6
    ELSE IF ApNamed(t) THEN FromMonday(t.from) <= FromMonday(ApNamedLast(t))
    ELSE /\ t.names = {} /\ t.nth = 0
         /\ t.from <= ApLast(t) /\ ApLast(t) <= 6
         /\ t.step <= ApLast(t) - t.from

ApDays(f) ==
    IF Translated(f) THEN UNION {ParseTerm(f[i]) : i \in DOMAIN f}
    ELSE UNION {ApTermDays(f[i]) : i \in DOMAIN f}

ApBuilds(f) == Translated(f) \/ \A i \in DOMAIN f : ApTermBuilds(f[i])

----------------------------------------------------------------------------
\* A field without "#" that both libraries accept fires on the days that the
\* POSIX reading names.  With one it is handed over untranslated, and only the
\* comparison of the next three runs is left.
Weekly(f) == \A i \in DOMAIN f : f[i].nth = 0

TranslationExact(f) ==
    PosixParses(f) /\ ApBuilds(f) /\ Weekly(f) =>
        \A w \in Weeks : ApDays(f) = PosixDays(f, w)

=============================================================================
