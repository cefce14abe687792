-------------------------- MODULE MCStreamQueryGroup --------------------------
(***************************************************************************)
(* Rows of one business key that tie, supersede each other, jump ahead in  *)
(* time or fail the contract, and topics that hold two or three of them.   *)
(***************************************************************************)
EXTENDS StreamQueryGroup

MCFields == {"event_id", "event_ts", "event_type", "schema_version", "reservation_id"}

Good == [f \in MCFields |-> "ok"]

Row(id, version, updated, time, fields) ==
    [event_id |-> id, business_key |-> "r1", version |-> version, updated |-> updated,
     time |-> time, fields |-> fields]

booked == Row("e1", 1, 1, 1, Good)
amended == Row("e2", 2, 0, 1, Good)
ahead == Row("e3", 2, 1, 3, Good)
mistyped == Row("e4", 1, 1, 3, [Good EXCEPT !["event_type"] = "other"])

MCRows == {booked, amended, ahead, mistyped}
MCStreams == {<<amended, ahead, booked>>, <<booked, ahead, booked>>,
              <<amended, booked>>, <<mistyped, booked>>}
MCQueryGroups == <<<<"other">>, <<"raw", "clean", "quarantine", "merge">>>>
MCObserved == {{"raw"}, {"clean", "quarantine"}, {"merge"}}
===============================================================================
