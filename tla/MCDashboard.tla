----------------------------- MODULE MCDashboard -----------------------------
(***************************************************************************)
(* Instances of Dashboard for TLC.                                         *)
(***************************************************************************)
EXTENDS Dashboard

CONSTANTS c1, c2, m1, m2

Plain(m, n) == [meter |-> m, count |-> n, sum |-> n, fault |-> "none"]

Window(c, total, metrics) ==
    [shape |-> "window", collector |-> c, total |-> total, metrics |-> metrics]

\* Regular windows of two collectors, of a meter with two readings and of two meters.
Windows == {Window(c1, 1, <<Plain(m1, 1)>>),
            Window(c2, 3, <<Plain(m1, 2), Plain(m2, 1)>>)}

\* A message of another shape; of the last two total_count is looked at.
Other(shape) == [Window(c1, 1, <<Plain(m1, 1)>>) EXCEPT !.shape = shape]

\* What a metric may have wrong: no meter, no count, or a field that raises.
Odd(n) ==
    {Plain(NoMeter, n), [Plain(m2, 0) EXCEPT !.sum = n]}
    \cup {[Plain(m2, n) EXCEPT !.fault = f] : f \in {"id", "count", "bounds"}}

\* A window with an odd metric, alone or after a plain one.
AllMessages ==
    Windows
    \cup {Other(shape) : shape \in {"malformed", "scalar", "early", "unhashable"}}
    \cup {Window(c1, 2, <<Plain(m1, 1), metric>>) : metric \in Odd(1)}
    \cup {Window(c2, 1, <<metric>>) : metric \in Odd(2)}
    \cup {Window(c2, 0, <<>>)}
=============================================================================
