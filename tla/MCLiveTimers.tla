---------------------------- MODULE MCLiveTimers ----------------------------
(* LiveTimers on small instances. *)
EXTENDS LiveTimers

MCUnits == [ms |-> 1, s |-> 2, m |-> 6, h |-> 12]

Text(number, letters) == [number |-> number, letters |-> letters]

\* A millisecond would be over before the first look at the clock; the rest is
\* refused or never over.
MCIdleTexts ==
  {Text(4, <<"m", "s">>), Text(2, <<"s">>), Text(0, <<"m">>), Text(Unordered, <<"s">>)}

MCLifetimeTexts ==
  {Text(3, <<"s">>), Text(1, <<"m">>), Text(1, <<"s", "m">>), Text(2, <<>>),
   Text(-1, <<"h">>), Text(NotNumber, <<"h">>), Text(Unordered, <<"h">>)}
=============================================================================
