--------------------------- MODULE ListSettingsMC ---------------------------
(* Instances of ListSettings for TLC.                                       *)
EXTENDS ListSettings, TLC

CONSTANTS o1, o2, a, t1, t2

Symmetry == Permutations(Tabs)

Flag(m, s, n) == [f \in Flags |->
    CASE f = "monitored" -> m [] f = "search" -> s [] f = "season" -> n]

\* Two lists, one with a monitor mode that was edited by hand.
MCRows == {
    [option |-> None, tag |-> 0, flag |-> Flag(None, 0, 1), mode |-> "pilot"],
    [option |-> o2, tag |-> 1, flag |-> Flag(0, None, 1), mode |-> Junk]}

\* No defaults, and defaults older than the monitor mode, whose search the
\* settings page clears until Monitor is changed.
MCDefaults == {
    None,
    [option |-> o1, tag |-> 1, flag |-> Flag(FALSE, TRUE, FALSE), mode |-> None]}

=============================================================================
