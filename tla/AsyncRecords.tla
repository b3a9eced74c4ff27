---------------------------- MODULE AsyncRecords ----------------------------
(***************************************************************************)
(* The table of asynchronous task records that AsyncHandler keeps in       *)
(* memory (src/lib/asyncHandler.js), as operators on a table that maps     *)
(* every task name to its record or to Absent.                             *)
(*                                                                         *)
(* A record's timestamp is abstracted to a number that orders the records  *)
(* by their creation; horizon is the largest stamp that is EXPIRE_TIME, a  *)
(* week, old.  What the record says of the results is left out.            *)
(***************************************************************************)
EXTENDS Naturals, FiniteSets

CONSTANTS Tasks,        \* the names a record may have (asyncUuid)
          MaxRecords    \* MAX_RECORDS

Statuses == {"none", "pending", "complete", "cancelled"}

Absent == [status |-> "none", stamp |-> 0]

TaskTables == [Tasks -> [status : Statuses, stamp : Nat]]

NoRecords == [t \in Tasks |-> Absent]

(* handleRecord 'POST' for each name of a set, at the times of stamp. *)
PostRecords(table, names, stamp) ==
    [t \in Tasks |->
        IF t \in names THEN [status |-> "pending", stamp |-> stamp[t]]
                       ELSE table[t]]

(* handleRecord 'PATCH' for each name of a set; every record must exist.   *)
PatchRecords(table, names) ==
    [t \in Tasks |->
        IF t \in names THEN [table[t] EXCEPT !.status = "complete"]
                       ELSE table[t]]

(* reportError on a refused request assigns the status of one record.      *)
CancelRecord(table, name) == [table EXCEPT ![name].status = "cancelled"]

(* The k members of S with the largest stamps. *)
Newest(table, S, k) ==
    {t \in S : Cardinality({u \in S : table[u].stamp > table[t].stamp}) < k}

(* Mutant of CleanRecords: pending records count for the limit as well. *)
CleanAllAlike(table, horizon) ==
    LET fresh == {t \in Tasks : /\ table[t].status # "none"
                                /\ table[t].stamp > horizon}
        kept  == Newest(table, fresh, MaxRecords)
    IN  [t \in Tasks |-> IF t \in kept THEN table[t] ELSE Absent]

(* cleanRecords: expired records go, whatever their status; pending ones   *)
(* stay; of the others the newest MaxRecords stay.                         *)
CleanRecords(table, horizon) ==
    LET fresh   == {t \in Tasks : /\ table[t].status # "none"
                                  /\ table[t].stamp > horizon}
        pending == {t \in fresh : table[t].status = "pending"}
        kept    == pending \cup Newest(table, fresh \ pending, MaxRecords)
    IN  [t \in Tasks |-> IF t \in kept THEN table[t] ELSE Absent]

(* getAsyncResponse for one task: what a client that polls it is told. *)
PollResult(table, name) ==
    CASE table[name].status = "none"      -> "no record found"
      [] table[name].status = "pending"   -> "in progress"
      [] table[name].status = "cancelled" -> "task cancelled"
      [] table[name].status = "complete"  -> "results"

=============================================================================
