---------------------------- MODULE MCTransfers ----------------------------
(* Small instances of Transfers for TLC: runs r1, r2, r3 of manifest a, and
   s1 of manifest b, which competes for the slots. *)
EXTENDS Transfers

CONSTANTS a, b, r1, r2, r3, s1

TwoIds == {a, b}
OneId == {a}
TwoRunsAndRival == {r1, r2, s1}
ThreeRuns == {r1, r2, r3}
TwoRuns == {r1, r2}
RunAndRival == {r1, s1}

RivalIdOf == [t \in TwoRunsAndRival |-> IF t = s1 THEN b ELSE a]
SameIdOf == [t \in ThreeRuns |-> a]
PairIdOf == [t \in TwoRuns |-> a]
DuelIdOf == [t \in RunAndRival |-> IF t = s1 THEN b ELSE a]
============================================================================
