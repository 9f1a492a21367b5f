-------------------------------- MODULE Output --------------------------------
(***************************************************************************)
(* What an output promises across runs and crashes, without its files: an  *)
(* id has no record, an error or a result; a record never gets worse (the  *)
(* reader rule: a result wins over an error); and the completion marker is *)
(* only written when every id that was asked for has a record.             *)
(***************************************************************************)
EXTENDS Naturals

CONSTANTS Ids, Asked

VARIABLES record, marked

Kinds   == {"none", "error", "ok"}
Rank(k) == CASE k = "none" -> 0 [] k = "error" -> 1 [] k = "ok" -> 2

Init == record = [i \in Ids |-> "none"] /\ marked = FALSE

\* Some ids get a record, or a better one.
Store ==
  /\ record' \in [Ids -> Kinds]
  /\ \A i \in Ids : Rank(record[i]) <= Rank(record'[i])
  /\ UNCHANGED marked

Mark ==
  /\ \A i \in Asked : record[i] # "none"
  /\ marked' = TRUE /\ UNCHANGED record

Next == Store \/ Mark

Spec == Init /\ [][Next]_<<record, marked>>
=============================================================================
