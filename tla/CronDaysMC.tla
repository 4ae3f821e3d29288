----------------------------- MODULE CronDaysMC -----------------------------
(* Instances of CronDays for TLC: expressions that exercise ranges, steps,  *)
(* lists, both Sundays, names, days of the month, months, and weekdays of   *)
(* one week of the month.                                                   *)
EXTENDS CronDays

AnyDom == [star |-> TRUE, builds |-> TRUE, days |-> 1..MonthLen]
OddDom == [star |-> TRUE, builds |-> TRUE, days |-> {d \in 1..MonthLen : d % 2 = 1}]
Dom(S) == [star |-> FALSE, builds |-> TRUE, days |-> S]
LastDom == [star |-> FALSE, builds |-> FALSE, days |-> {MonthLen}]

AnyMonth == [posix |-> 1..YearLen, ap |-> 1..YearLen]
FirstMonth == [posix |-> {1}, ap |-> {1}]
OddMonth == [posix |-> {m \in 1..YearLen : m % 2 = 1}, ap |-> 1..YearLen]

In(month, dom, dow) == [month |-> month, dom |-> dom, dow |-> dow]
On(dom, dow) == In(AnyMonth, dom, dow)

MCCrons == {
    On(AnyDom, <<Span(7, 7)>>),                         \* 7
    On(AnyDom, <<Every(Span(1, 5), 2), Span(6, 6)>>),   \* 1-5/2,6
    On(AnyDom, <<Every(Names(1, 5), 2)>>),              \* mon-fri/2
    On(AnyDom, <<Every(Span(2, 2), 3)>>),               \* 2/3
    On(AnyDom, <<Every(Star, 3)>>),                     \* */3
    On(AnyDom, <<Span(1, 1), Names(3, 3)>>),            \* 1,wed
    On(AnyDom, <<Names(1, 5)>>),                        \* mon-fri
    On(AnyDom, <<Names(0, 2)>>),                        \* sun-tue
    On(AnyDom, <<Span(5, 1)>>),                         \* 5-1
    On(OddDom, <<Span(0, 3)>>),                         \* */2 and 0-3
    On(Dom({1, 3}), <<Star>>),                          \* 1,3
    On(Dom({MonthLen + 1}), <<Star>>),                  \* no day of any month
    On(LastDom, <<Star>>),                              \* L
    On(Dom(1..(MonthLen - 2)), <<Names(1, 5)>>),        \* both: 1-6 and mon-fri
    On(Dom({1}), <<Span(0, 0)>>),                       \* both: 1 and 0
    In(FirstMonth, AnyDom, <<Span(5, 7)>>),             \* jan and 5-7
    In(OddMonth, AnyDom, <<Star>>),                     \* jan-dec/2
    On(AnyDom, <<Nth(Names(1, 1), 1)>>),                \* mon#1
    On(AnyDom, <<Nth(Names(1, 1), 1), Span(2, 2)>>),    \* mon#1,2
    On(AnyDom, <<Nth(Span(1, 1), 1)>>)}                 \* 1#1

=============================================================================
