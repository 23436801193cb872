---------------------------- MODULE MCSyncEngine ----------------------------
(* Instances of SyncEngine for TLC. *)
EXTENDS SyncEngine, TLC

CONSTANTS s1, s2, s3

ThreeRows == <<s1, s2, s3>>
TwoRows == <<s1, s2>>
NoStocks == {}
FirstStock == {s1}
BothFaults == {"api", "db"}
ApiFaults == {"api"}

IdSymmetry == Permutations(TaskIds)
WorkerSymmetry == Permutations(Workers)
TaskSymmetry == IdSymmetry \cup WorkerSymmetry
=============================================================================
