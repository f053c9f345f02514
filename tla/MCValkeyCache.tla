--------------------------- MODULE MCValkeyCache ---------------------------
\* Instances of ValkeyCache for TLC.
EXTENDS ValkeyCache, TLC

OnePod == [c1 |-> "A", c2 |-> "A"]
TwoPods == [c1 |-> "A", c2 |-> "B"]

Plain(op) == [op |-> op, key |-> "k", arg |-> NoAsk]
SetTo(v) == [op |-> "set", key |-> "k", arg |-> v]

\* A counter that grows to its limit, and one that is only ever created.
Grow == [op |-> "update", key |-> "k",
         arg |-> [x \in Cells |-> IF x = Absent THEN 0 ELSE IF x + 1 \in Values THEN x + 1 ELSE Keep]]
CreateOnce == [op |-> "update", key |-> "k", arg |-> [x \in Cells |-> IF x = Absent THEN 0 ELSE Keep]]

Menu(uncycled, home, first, second) ==
    [uncycled |-> uncycled, home |-> home, asks |-> [c1 |-> first, c2 |-> second]]

AllMenus ==
    {Menu(TRUE, TwoPods, {Grow, Plain("decrement")}, {CreateOnce, Grow, Plain("delete")}),
     Menu(TRUE, OnePod, {SetTo(1), Plain("take")}, {Plain("take"), Plain("get"), Plain("decrement")}),
     Menu(FALSE, OnePod, {SetTo(1)}, {Plain("take"), Plain("delete"), Plain("get")})}
=============================================================================
