------------------------------ MODULE Stations ------------------------------
(***************************************************************************)
(* The production statuses of a line item, the moves advance_item allows   *)
(* (db/repo/admin.py) and the order of the prod_status enum, by which the  *)
(* trigger of store.order_items takes minima.                              *)
(***************************************************************************)
EXTENDS Integers, Sequences, SequencesExt

STATION_ORDER ==
  <<"queued", "printing", "printed", "mounting", "framing", "qc", "packed">>

(* create type prod_status as enum: the declaration order is the order     *)
(* min() uses.                                                             *)
prod_status ==
  <<"queued", "blocked", "printing", "printed", "mounting", "framing", "qc",
    "reprint", "packed", "cancelled">>

Stations == Range(STATION_ORDER)

Station == Range(prod_status)

NoStation == "none"   \* no station: a form without one, or SQL null

(* NEXT_STATION.get(current), as the set of at most one next station.      *)
NextStation(s) ==
  {STATION_ORDER[k+1] : k \in {n \in 1 .. Len(STATION_ORDER) - 1 : STATION_ORDER[n] = s}}

(* Faulty variant: None stays among the targets of a packed item.          *)
BugAllowed(s) ==
  NextStation(s) \cup {"blocked", "cancelled", "reprint"}
    \cup (IF s = "blocked" THEN Stations ELSE {})
    \cup (IF s = "packed" THEN {NoStation} ELSE {})

(* The legal targets of advance_item; a station without a next one adds    *)
(* None to the set, which the code removes before it compares.             *)
Allowed(s) ==
  NextStation(s) \cup {"blocked", "cancelled", "reprint"}
    \cup (IF s = "blocked" THEN Stations ELSE {})
    \cup (IF s = "reprint" THEN {"printing"} ELSE {})

(* Faulty variant: cancelled items are not excluded.                       *)
BugLeastAdvanced(statuses) ==
  LET ranks == {k \in 1 .. Len(prod_status) : prod_status[k] \in statuses}
  IN IF ranks = {} THEN NoStation
     ELSE prod_status[CHOOSE k \in ranks : \A n \in ranks : k <= n]

(* roll_up_production: min() over the non-cancelled statuses, null if      *)
(* there is none.                                                          *)
LeastAdvanced(statuses) ==
  LET ranks == {k \in 1 .. Len(prod_status) : prod_status[k] \in statuses \ {"cancelled"}}
  IN IF ranks = {} THEN NoStation
     ELSE prod_status[CHOOSE k \in ranks : \A n \in ranks : k <= n]
=============================================================================
