--------------------------- MODULE TradeLifecycle ---------------------------
(***************************************************************************)
(* What the rows of a trade promise of its way, with no process, snapshot  *)
(* or quantity: the lifecycle takes the transitions of LEGAL_TRANSITIONS;  *)
(* the trade is closed and reviewed only when its exit is pending and some *)
(* of it has been sold; one lesson is drawn from one postmortem; and the   *)
(* lifecycle ends behind the lesson.  PositionBook implements this.        *)
(***************************************************************************)
EXTENDS Naturals

VARIABLES
    lc,         \* position_lifecycle.state, "none" when there is no row
    exited,     \* the broker has sold some of the position
    closed,     \* trades.status is CLOSED
    reviewed,   \* there is a row in postmortems
    lessons     \* rows in lessons

lifecycleVars == <<lc, exited, closed, reviewed, lessons>>

Path == <<"OPEN", "PROTECTED", "PROFITABLE", "TRAILING">>

Ending == {"EXIT_PENDING", "CLOSED"}

Init ==
    /\ lc = "none" /\ exited = FALSE /\ closed = FALSE
    /\ reviewed = FALSE /\ lessons = 0

Create ==
    /\ lc = "none" /\ lc' = "OPEN"
    /\ UNCHANGED <<exited, closed, reviewed, lessons>>

Advance ==
    /\ \E i \in 1..3 : lc = Path[i] /\ lc' = Path[i + 1]
    /\ UNCHANGED <<exited, closed, reviewed, lessons>>

RequestExit ==
    /\ \E i \in 1..4 : lc = Path[i]
    /\ lc' = "EXIT_PENDING"
    /\ UNCHANGED <<exited, closed, reviewed, lessons>>

Sell == ~exited /\ exited' = TRUE /\ UNCHANGED <<lc, closed, reviewed, lessons>>

CloseTrade ==
    /\ exited /\ lc \in Ending
    /\ closed' = TRUE
    /\ UNCHANGED <<lc, exited, reviewed, lessons>>

\* A reconciliation that was overtaken writes the status it arrived at, over the
\* CLOSED of another.
Overwrite == closed' = FALSE /\ UNCHANGED <<lc, exited, reviewed, lessons>>

Review ==
    /\ exited /\ lc \in Ending /\ ~reviewed
    /\ reviewed' = TRUE
    /\ UNCHANGED <<lc, exited, closed, lessons>>

Learn ==
    /\ reviewed /\ lessons = 0
    /\ lessons' = 1
    /\ UNCHANGED <<lc, exited, closed, reviewed>>

End ==
    /\ lc = "EXIT_PENDING" /\ lessons = 1
    /\ lc' = "CLOSED"
    /\ UNCHANGED <<exited, closed, reviewed, lessons>>

Next == \/ Create \/ Advance \/ RequestExit \/ End
        \/ Sell \/ CloseTrade \/ Overwrite \/ Review \/ Learn

Spec == Init /\ [][Next]_lifecycleVars
=============================================================================
