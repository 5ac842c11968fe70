----------------------------- MODULE MCRecording -----------------------------
(* Recording with one lens of two tiers and a handful of requests.           *)
EXTENDS Recording

Plain(m) == [mode |-> m, start |-> 0, end |-> 0]
Window(m, s, e) == [mode |-> m, start |-> s, end |-> e]

CONSTANTS main, sub

\* main is scheduled: a window that runs past midnight, one that begins where
\* it ends, and a daily one that wraps; sub is recorded on demand, on alerts
\* or by a daily window inside the day
MCRequests ==
  [k \in {main, sub} |->
     IF k = main
     THEN {Window("once", 2, 4), Window("once", 4, 5), Window("daily", 2, 1)}
     ELSE {Plain("continuous"), Plain("event"), Window("daily", 0, 1)}]
=============================================================================
