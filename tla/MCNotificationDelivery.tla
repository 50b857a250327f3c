------------------------ MODULE MCNotificationDelivery ------------------------
(***************************************************************************)
(* The jobs of cmd/server/main.go that send deliveries.                    *)
(***************************************************************************)
EXTENDS NotificationDelivery

\* The per-minute job, within an hour and across the end of one; the daily
\* digest, which DailyAt lets run in one hour of the day.
WithinAnHour == [digest |-> "immediate", at |-> Nil, hours |-> 1]
AcrossHours == [digest |-> "immediate", at |-> Nil, hours |-> 2]
DailyDigest == [digest |-> "daily", at |-> 1, hours |-> 2]

RunJobs == {WithinAnHour, DailyDigest}
HourChangeJobs == {AcrossHours}

OneImmediateTwoDaily == [digest \in {"immediate", "daily"} |-> IF digest = "daily" THEN 2 ELSE 1]
=============================================================================
