---------------------------- MODULE GraphSamples ----------------------------
(***************************************************************************)
(* The graph command of the client (wid_graph in Client.cpp): an interval  *)
(* of whole seconds, 0 .. total - 1, is divided into samples; for each, one *)
(* query counts the entries between its ends and one those at its begin.   *)
(*                                                                         *)
(* Fractions of a second are counted in units of 1/samples: the rounding   *)
(* of floating point numbers is left out, and numbers that a long can not  *)
(* hold.                                                                   *)
(***************************************************************************)
EXTENDS Integers, FiniteSetsExt

\* (long) of a number of units.
Whole(samples, r) == IF r >= 0 THEN r \div samples ELSE -((-r) \div samples)

\* Mutant of Rest: the whole seconds are added again with each sample.
RestKept(samples, total, r) == r + (total % samples)

\* What is left over for the next sample.
Rest(samples, total, r) ==
    (IF r >= samples THEN r % samples ELSE r) + (total % samples)

\* Where the samples begin: sample i from begin[i].t to begin[i + 1].t.  The
\* variable rest is never initialised: rest0 may be any number.
Begins(samples, total, rest0) ==
    LET begin[i \in 0 .. samples] ==
            IF i = 0 THEN [t |-> 0, rest |-> rest0]
            ELSE LET b == begin[i - 1]
                 IN  [t |-> b.t + total \div samples + Whole(samples, b.rest),
                      rest |-> Rest(samples, total, b.rest)]
    IN  begin

\* The entries, one at each of some seconds, that a query counts: "> t2 & < t1"
\* and "= t2".  Dates of one year are in the order of their texts.
Between(begin, i, entries) == {x \in entries : begin[i].t < x /\ x < begin[i + 1].t}
At(begin, i, entries) == entries \cap {begin[i].t}

\* What the graph shows for a sample if the queries in failed, which are numbered
\* as the threads are, had no number for an answer.
Shown(begin, i, entries, failed) ==
    LET first == IF 2 * i \in failed THEN -10 ELSE Cardinality(Between(begin, i, entries))
    IN  IF 2 * i + 1 \in failed THEN -10 ELSE first + Cardinality(At(begin, i, entries))

-----------------------------------------------------------------------------
(* Property.                                                               *)

\* Whatever rest begins with, no sample is shorter than the first or the whole
\* seconds in total / samples, and each of which no query failed shows the entries of
\* its seconds, or of the one where it begins if it has none.  What rest holds too
\* much is added to the interval: the samples divide it, but for its last second at
\* most, if rest happens to begin as zero or a fraction.  (A negative one is taken
\* off each sample, until the fractions have made up for it.)
SamplesPartition(samples, total, rest0, entries, failed) ==
    LET begin == Begins(samples, total, rest0)
        end == total + rest0 \div samples
        whole == total \div samples
        shortest == IF begin[1].t < whole THEN begin[1].t ELSE whole
        Inside(i) == {x \in entries : begin[i].t <= x /\ x < begin[i + 1].t}
    IN  /\ begin[0].t = 0
        /\ rest0 >= 0 => begin[samples].t \in {end - 1, end}
        /\ \A i \in 0 .. samples - 1 :
              /\ begin[i].t + shortest <= begin[i + 1].t
              /\ {2 * i, 2 * i + 1} \cap failed = {} =>
                    Shown(begin, i, entries, failed) =
                    Cardinality(IF begin[i].t < begin[i + 1].t THEN Inside(i)
                                ELSE At(begin, i, entries))
=============================================================================
