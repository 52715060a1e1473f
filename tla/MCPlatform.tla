----------------------------- MODULE MCPlatform -----------------------------
EXTENDS Platform

\* A kernel of two segments.
MCSegments == <<{1}, {2}>>

\* The resolution asked for is offered after one of its width, after a smaller
\* one of its height, or not at all.
MCPreferredMode == <<8, 6>>
MCModeLists ==
    { << <<4, 3>>, <<8, 4>>, <<8, 6>> >>,
      << <<6, 6>>, <<8, 5>>, <<8, 6>> >>,
      << <<9, 5>>, <<7, 9>> >> }

At(y, mo, d, h, mi, s) == [year |-> y, month |-> mo, day |-> d, hour |-> h, minute |-> mi, second |-> s]

\* Shortly before a minute, an hour, midnight, and the ends of a month and a year,
\* in universal time; the code's zone is eight hours behind.
MCPowerOnTimes ==
    { At(24, 2, 1, 8, 59, 59), At(24, 3, 10, 7, 59, 58), At(24, 12, 31, 7, 30, 0),
      At(23, 11, 30, 7, 59, 58), At(24, 12, 30, 7, 59, 57), At(21, 5, 15, 23, 59, 59),
      At(21, 5, 15, 20, 58, 59), At(22, 1, 29, 9, 0, 10) }

MCMoves == {-2, 1, Overflow}
=============================================================================
