--------------------------- MODULE MCPackageImages ---------------------------
\* Instances of PackageImages for TLC.
EXTENDS PackageImages

Exact(v) == [want |-> v, exact |-> TRUE]
RangeFrom(v) == [want |-> v, exact |-> FALSE]

Calm == [asks |-> {Exact(1), Exact(2)}, edits |-> 1, stale |-> 0, fails |-> 0, lost |-> 0, blips |-> 0,
         lags |-> 0, discards |-> 0]

\* A registry that lags; pods that fail; pods that are lost; status writes of the
\* host that are lost; an image registry that cannot be read for a while; packages
\* that go and come back; an image the author built.
Lagging == [Calm EXCEPT !.stale = 1]
Crashing == [Calm EXCEPT !.asks = {Exact(1), RangeFrom(1)}, !.fails = 2]
Losing == [Calm EXCEPT !.lost = 1, !.lags = 1]
Discarding == [Calm EXCEPT !.lost = 1, !.discards = 1]
Blipping == [Calm EXCEPT !.blips = 2, !.discards = 1]
Returning == [Calm EXCEPT !.asks = {Exact(1), Exact(2), NoRefs}, !.edits = 2]
Pinned == [Calm EXCEPT !.asks = {Exact(1), Prebuilt}, !.discards = 1]

\* Two faults together, which the code does not survive.
Poisoned == {[Calm EXCEPT !.edits = 0, !.stale = 1, !.blips = 1]}
Stranded == {[Calm EXCEPT !.edits = 0, !.fails = 1, !.lost = 1]}
Recreated == {[Calm EXCEPT !.asks = {RangeFrom(1), RangeFrom(2), NoRefs}, !.edits = 2]}
JustReturning == {Returning}
JustPinned == {Pinned}
JustDiscarding == {[Calm EXCEPT !.edits = 0, !.lost = 1, !.discards = 1]}

AllSettings == {Lagging, Crashing, Losing, Discarding, Blipping, Returning, Pinned}
===============================================================================
