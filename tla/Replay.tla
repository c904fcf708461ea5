-------------------------------- MODULE Replay --------------------------------
(***************************************************************************)
(* The replay harness (replay.py): a graph is rebuilt from an event log,   *)
(* sampled at checkpoints and compared with a recorded fingerprint.  A run *)
(* is what its graph shows before the log and after each event: two runs   *)
(* of one log agree only if the graph is a function of the log.  A digest  *)
(* stands for what it was taken of.                                        *)
(***************************************************************************)
EXTENDS Integers, Sequences, FiniteSets, SequencesExt

CONSTANTS
  Label,
  Observation,  \* what a graph can show: functions of some labels
  MaxSeq, Stride, InitialSeq, None

VARIABLES
  log,          \* ReplayLog.events, by their seq
  fingerprint,  \* the recorded one: [log, stride, points], None before
  verdict,      \* the last check's: [kind, found]
  recorded,     \* ghost: the run the fingerprint was recorded from
  replayed      \* ghost: the run last checked against it
vars == <<log, fingerprint, verdict, recorded, replayed>>

\* What a graph shows before the log and after each event.
Runs(l) == [0..Len(l) -> Observation]

\* Mutant: the last event is sampled only when it is a stride-th.
SampledEvenly(l, stride) == {i \in 0..Len(l) : i % stride = 0}
\* How many events have been applied when a replay samples: none, every
\* stride-th and all.  The checkpoints are in this order.
Sampled(l, stride) == {0} \cup {i \in 1..Len(l) : i % stride = 0 \/ i = Len(l)}
EventSeq(l, i) == IF i = 0 THEN InitialSeq ELSE l[i]
Drive(l, stride, run) ==
  [i \in Sampled(l, stride) |-> [seq |-> EventSeq(l, i), cells |-> run[i]]]
FingerprintOf(l, stride, run) == [log |-> l, stride |-> stride, points |-> Drive(l, stride, run)]

\* The cells of one checkpoint that differ, and how.
Cell(o, x) == IF x \in DOMAIN o THEN o[x] ELSE None
Differences(want, got) ==
  {[seq |-> want.seq, label |-> x,
    kind |-> CASE Cell(got.cells, x) = None -> "missing"
               [] Cell(want.cells, x) = None -> "unexpected"
               [] OTHER -> "value"] :
     x \in {y \in Label : Cell(want.cells, y) # Cell(got.cells, y)}}
\* _compare: only the first checkpoint that differs is reported.
Compare(want, got) ==
  LET apart == {i \in DOMAIN want.points \cap DOMAIN got.points :
                  Differences(want.points[i], got.points[i]) # {}}
      first == CHOOSE i \in apart : \A j \in apart : i <= j
  IN IF apart = {} THEN {} ELSE Differences(want.points[first], got.points[first])
\* _revalidate, then the comparison: a fingerprint of another log or stride
\* is refused before any value is looked at.
Verdict(want, got) ==
  CASE want.log # got.log -> [kind |-> "other_log", found |-> {}]
    [] want.log = got.log /\ want.stride # got.stride -> [kind |-> "other_stride", found |-> {}]
    [] OTHER -> [kind |-> "compared", found |-> Compare(want, got)]

-----------------------------------------------------------------------------
Nothing == [kind |-> "none", found |-> {}]
Init ==
  /\ log = <<>> /\ fingerprint = None /\ verdict = Nothing
  /\ recorded = None /\ replayed = None

NewLog == verdict' = Nothing /\ replayed' = None /\ UNCHANGED <<fingerprint, recorded>>

\* The log grows with a later seq, or an outbox has dropped its prefix.
Append_(s) ==
  /\ log # <<>> => s > Last(log)
  /\ log' = Append(log, s) /\ NewLog
Truncate ==
  /\ log # <<>> /\ log' = Tail(log) /\ NewLog

Record(stride, run) ==
  /\ fingerprint' = FingerprintOf(log, stride, run) /\ recorded' = run
  /\ verdict' = Nothing /\ replayed' = None /\ UNCHANGED log
Check(stride, run) ==
  /\ fingerprint # None /\ replayed = None
  /\ verdict' = Verdict(fingerprint, FingerprintOf(log, stride, run)) /\ replayed' = run
  /\ UNCHANGED <<log, fingerprint, recorded>>

Next ==
  \/ \E s \in 0..MaxSeq : Append_(s)
  \/ Truncate
  \/ \E stride \in Stride, run \in Runs(log) : (fingerprint = None /\ Record(stride, run)) \/ Check(stride, run)
Spec == Init /\ [][Next]_vars

-----------------------------------------------------------------------------
\* What a report on one observation against another has to list.
Due(seq, was, now) ==
  {[seq |-> seq, label |-> x,
    kind |-> CASE x \notin DOMAIN now -> "missing"
               [] x \notin DOMAIN was -> "unexpected"
               [] OTHER -> "value"] :
     x \in {y \in DOMAIN was \cup DOMAIN now : y \in DOMAIN was \cap DOMAIN now => was[y] # now[y]}}
\* A replay passes only for the recorded log and stride, and exactly if the two
\* runs showed the same before the log, at every stride-th event and after the
\* last one: a run that ends differently is caught whatever the stride.  What is
\* reported is every label that differs at the first of these points where one
\* does, no more and no fewer, each with its kind (ReplayHarness._drive and
\* _compare).
ReplayCatches ==
  verdict.kind = "compared" =>
    LET l == fingerprint.log
        differ == {i \in DOMAIN recorded : recorded[i] # replayed[i]}
        Seen(i) == i % fingerprint.stride = 0 \/ i = Len(l)
    IN /\ DOMAIN recorded = DOMAIN replayed
       /\ verdict.found = {} <=> \A i \in differ : ~Seen(i)
       /\ verdict.found # {} =>
            \E i \in differ : /\ Seen(i) /\ \A j \in differ : Seen(j) => i <= j
                              /\ verdict.found = Due(EventSeq(l, i), recorded[i], replayed[i])
=============================================================================
