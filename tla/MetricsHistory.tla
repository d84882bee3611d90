--------------------------- MODULE MetricsHistory ---------------------------
(***************************************************************************)
(* The dashboard's charts (cli/relay/metrics/history.go): one goroutine    *)
(* samples the registry into a ring of points and a coarser rollup ring,   *)
(* and hands each new point to the live viewers; /admin/api/history joins  *)
(* the two rings into columns.  A sample is the set of series that had a   *)
(* value; the values themselves are left out.  A tick may come late, so    *)
(* samples are not evenly spaced.                                          *)
(***************************************************************************)
EXTENDS Naturals, Sequences, FiniteSets, SequencesExt

CONSTANTS Keys,         \* series
          Always,       \* the gauges every sample has
          RawCap,       \* window / interval, at least Step
          Step,         \* the rollup step, in sampling intervals
          RollCap,      \* rollup window / step
          MaxSkip,      \* bound: intervals a late tick skips
          Viewers, MaxSubscribers,
          MaxTime

VARIABLES now,          \* time of the last sample, in intervals
          raw, rollup,  \* rings: [times, series], series a partial function
          bucket, acc,  \* History.bucket and the keys of History.acc
          taken,        \* times of every sample taken
          subs          \* History.subs: viewer -> the point waiting in its channel

vars == <<now, raw, rollup, bucket, acc, taken, subs>>

EmptyRing == [times |-> <<>>, series |-> [k \in {} |-> <<>>]]

Init == /\ now = 0
        /\ raw = EmptyRing /\ rollup = EmptyRing
        /\ bucket = 0 /\ acc = {}
        /\ taken = {}
        /\ subs = [v \in {} |-> 0]

----------------------------------------------------------------------------
\* ring.append: the oldest point goes when it is full; every column gets a
\* cell, and a new series starts with blanks.
AppendedUntrimmed(r, cap, t, values) ==
    LET full  == Len(r.times) = cap
        times == Append(IF full THEN Tail(r.times) ELSE r.times, t)
    IN  [times  |-> times,
         series |-> [k \in DOMAIN r.series \cup values |->
             IF k \in DOMAIN r.series THEN Append(r.series[k], k \in values)
             ELSE [i \in 1..Len(times) |-> i = Len(times)]]]

Appended(r, cap, t, values) ==
    LET full  == Len(r.times) = cap
        times == Append(IF full THEN Tail(r.times) ELSE r.times, t)
        kept(col) == IF full /\ col # <<>> THEN Tail(col) ELSE col
    IN  [times  |-> times,
         series |-> [k \in DOMAIN r.series \cup values |->
             IF k \in DOMAIN r.series THEN Append(kept(r.series[k]), k \in values)
             ELSE [i \in 1..Len(times) |-> i = Len(times)]]]

BucketOf(t) == t - (t % Step)

\* History.roll: the bucket closes when a sample falls in another one.
RollSkips(t, values) ==
    IF BucketOf(t) # bucket /\ acc # {}
      THEN /\ rollup' = IF BucketOf(t) = bucket + Step THEN Appended(rollup, RollCap, bucket, acc) ELSE rollup
           /\ acc' = values /\ bucket' = BucketOf(t)
      ELSE /\ acc' = acc \cup values /\ bucket' = BucketOf(t) /\ UNCHANGED rollup

Roll(t, values) ==
    IF BucketOf(t) # bucket /\ acc # {}
      THEN /\ rollup' = Appended(rollup, RollCap, bucket, acc)
           /\ acc' = values /\ bucket' = BucketOf(t)
      ELSE /\ acc' = acc \cup values /\ bucket' = BucketOf(t) /\ UNCHANGED rollup

\* Sample: the rings, then publish, which skips a viewer whose channel
\* still holds a point.
Sample(t, values) ==
    /\ now' = t
    /\ raw' = Appended(raw, RawCap, t, values)
    /\ Roll(t, values)
    /\ taken' = taken \cup {t}
    /\ subs' = [v \in DOMAIN subs |-> IF subs[v] = 0 THEN t ELSE subs[v]]

Tick == \E t \in (now + 1)..(now + 1 + MaxSkip), values \in SUBSET Keys :
          t <= MaxTime /\ Always \subseteq values /\ Sample(t, values)

\* serveStream: Subscribe, points written as they come, cancel.
Subscribe(v) == /\ v \notin DOMAIN subs /\ Cardinality(DOMAIN subs) < MaxSubscribers
                /\ subs' = [w \in DOMAIN subs \cup {v} |-> IF w = v THEN 0 ELSE subs[w]]
                /\ UNCHANGED <<now, raw, rollup, bucket, acc, taken>>

Write(v) == /\ v \in DOMAIN subs /\ subs[v] # 0
            /\ subs' = [subs EXCEPT ![v] = 0]
            /\ UNCHANGED <<now, raw, rollup, bucket, acc, taken>>

Cancel(v) == /\ v \in DOMAIN subs
             /\ subs' = [w \in DOMAIN subs \ {v} |-> subs[w]]
             /\ UNCHANGED <<now, raw, rollup, bucket, acc, taken>>

Next == Tick \/ \E v \in Viewers : Subscribe(v) \/ Write(v) \/ Cancel(v)

Spec == Init /\ [][Next]_vars

----------------------------------------------------------------------------
\* Columns: the rollup points older than the first raw sample, then the raw
\* ones, and one column per series of either ring.
OldInclusive == Len(SelectSeq(rollup.times, LAMBDA t : raw.times = <<>> \/ t <= raw.times[1]))

Old == Len(SelectSeq(rollup.times, LAMBDA t : raw.times = <<>> \/ t < raw.times[1]))

Times == SubSeq(rollup.times, 1, Old) \o raw.times

Column(k) ==
    LET part(r, n) == IF k \in DOMAIN r.series THEN SubSeq(r.series[k], 1, n) ELSE [i \in 1..n |-> FALSE]
    IN  part(rollup, Old) \o part(raw, Len(raw.times))

(***************************************************************************)
(* The joined history is a chart: one time axis, strictly ascending, and   *)
(* every series exactly as long, whatever series came and went and         *)
(* whichever ring is full (ring.append, Columns).                          *)
(***************************************************************************)
ChartIsAligned ==
    /\ \A i \in 1..(Len(Times) - 1) : Times[i] < Times[i + 1]
    /\ \A k \in DOMAIN raw.series \cup DOMAIN rollup.series :
         Len(Column(k)) = Len(Times)
    /\ \A r \in {raw, rollup} : \A k \in DOMAIN r.series : Len(r.series[k]) = Len(r.times)

\* The rollup ring has room for buckets back to this one.
Retained(t) == BucketOf(t) + RollCap * Step >= bucket

(***************************************************************************)
(* No sample falls between the rings: within the rollup's window each is   *)
(* shown itself or through its bucket, at the moments a bucket closes and  *)
(* the raw ring drops a point included, and after late ticks               *)
(* (History.roll, Columns).                                                *)
(***************************************************************************)
NoSampleLost == \A t \in taken : Retained(t) => \E i \in DOMAIN Times : Times[i] \in {t, BucketOf(t)}
=============================================================================
