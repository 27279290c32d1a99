------------------------------ MODULE TraceReplay ------------------------------
(* GET /traces/{trace_id} and .../replay (engine/api/routes/traces.py) over the *)
(* trace a run of AgentEngine stored: the spans sorted again and their          *)
(* durations added up.  Every span reads time.time() when its handler begins    *)
(* and again when it has ended; the clock may stand still and may be set back.  *)
EXTENDS AgentEngine

\* get_trace finds something; 404 otherwise.
Found == trace # <<>>

\* int(t * 1000) of a time t, here in microseconds: cut towards zero.
Ms(t) == IF t >= 0 THEN t \div 1000 ELSE -((-t) \div 1000)

\* The readings around the i-th handler; others are its neighbours'.
StartOf(clock, i) == clock[2 * i - 1]
EndOf(clock, i) == clock[2 * i]

\* The spans as stored.
Timed(clock) ==
  [i \in DOMAIN trace |->
     [span |-> trace[i], place |-> i, timestamp_ms |-> Ms(StartOf(clock, i)),
      duration_ms |-> Ms(EndOf(clock, i) - StartOf(clock, i))]]

\* Mutant of Before: the timestamp alone.
BeforeByClock(a, b) ==
  \/ a.timestamp_ms < b.timestamp_ms
  \/ a.timestamp_ms = b.timestamp_ms /\ a.place < b.place

\* The order of sorted(trace.spans, key = (step, timestamp_ms)), which is stable.
Before(a, b) ==
  \/ a.span.step < b.span.step
  \/ /\ a.span.step = b.span.step
     /\ \/ a.timestamp_ms < b.timestamp_ms
        \/ a.timestamp_ms = b.timestamp_ms /\ a.place < b.place

\* sorted(): a span goes where as many spans come before it.
Sorted(s) ==
  LET timed == {s[i] : i \in DOMAIN s}
      ranked == {[rank |-> Cardinality({b \in timed : Before(b, a)}), span |-> a] : a \in timed}
  IN [n \in DOMAIN s |-> (CHOOSE r \in ranked : r.rank = n - 1).span]

\* The sums of the first numbers of d, up to the n-th.
UpTo(d, n) ==
  LET sum[k \in 0..n] == IF k = 0 THEN 0 ELSE sum[k - 1] + d[k]
  IN sum

\* cumulative_ms after each of the first n spans.
Cumulative(s, n) == UpTo([k \in 1..n |-> s[k].duration_ms], n)

\* replay_trace: the sorted spans, each with the durations up to its end.
Replay(clock) ==
  LET sorted == Sorted(Timed(clock))
      upTo == Cumulative(sorted, Len(trace))
  IN [n \in DOMAIN trace |-> [span |-> sorted[n].span, cumulative_duration_ms |-> upTo[n]]]

\* Readings of the clock: stopped; 0.9 and 1.5 ms apart; set back by 6 ms once, at
\* every third reading, so in a handler as well as between two.
Readings ==
  LET moments == 1..(2 * Len(trace))
  IN {[m \in moments |-> step * m] : step \in {0, 900, 1500}}
       \cup {[m \in moments |-> IF m < k THEN 1500 * m ELSE 1500 * m - 6000] :
               k \in {m \in moments : m % 3 = 0}}

NeverBack(clock) == \A m \in 1..(2 * Len(trace) - 1) : clock[m] <= clock[m + 1]

\* The time spent in the first handlers, to the microsecond.
InHandlers(clock) ==
  UpTo([i \in 1..Len(trace) |-> EndOf(clock, i) - StartOf(clock, i)], Len(trace))

\* Whatever the clock did, the replay shows every span once and no step after a
\* later one, and counts every duration of the stored spans once.  While the
\* clock does not go back, the replay is the run, in the order the spans ended,
\* and the time it tells of a span never goes down, is never more than the time
\* since the run began, and falls short of the time its handlers took by less
\* than a millisecond each (replay_trace over execute's spans).
Retells(clock) ==
  LET replay == Replay(clock)
      last == Len(trace)
      spent == InHandlers(clock)
      told(i) == replay[i].cumulative_duration_ms
  IN /\ \A i \in 1..(last - 1) : replay[i].span.step <= replay[i + 1].span.step
     /\ {replay[i].span : i \in 1..last} = {trace[i] : i \in 1..last}
     /\ told(last) = Cumulative(Timed(clock), last)[last]
     /\ NeverBack(clock) =>
          /\ \A i \in 1..last : /\ replay[i].span = trace[i]
                                /\ 1000 * told(i) <= EndOf(clock, i) - StartOf(clock, 1)
                                /\ 1000 * told(i) > spent[i] - 1000 * i
          /\ \A i \in 1..(last - 1) : told(i) <= told(i + 1)

\* Every stored trace is retold, for these readings of the clock.
ReplayRetells == Found => \A clock \in Readings : Retells(clock)
=============================================================================
