------------------------------- MODULE Timer --------------------------------
(* Timers (timer.h, timer.cpp).  The code keeps the time point of the last  *)
(* Reset and compares it with a steady clock; the model keeps the age, the  *)
(* whole ticks gone by since that Reset, which is all the code tells apart. *)
EXTENDS Naturals

\* Timer::Reset
Reset == 0

\* Mutated form of IntervalElapsed: the comparison is not strict.
IntervalElapsedAt(age, interval) == age >= interval

\* Timer::IntervalElapsed (ServerEntry::Expired, Expirable::Expired): the
\* comparison with the clock is strict.
IntervalElapsed(age, interval) == age > interval

\* One tick of std::chrono::steady_clock, seen by every timer of a map.
Aged(map) == [k \in DOMAIN map |-> [map[k] EXCEPT !.age = @ + 1]]

\* Mutated form of Expired: nothing is ever found expired.
ExpiredNever(map, interval) == {}

\* The keys of the entries of a map whose timer ran past the interval.
Expired(map, interval) ==
    {k \in DOMAIN map : IntervalElapsed(map[k].age, interval)}
=============================================================================
