---------------------------- MODULE MCIngestRuns ----------------------------
(* Small values for the constants of IngestRuns.                           *)
EXTENDS IngestRuns

\* Each upload shares a ticket with the other, and one of them with the shipped dataset.
MCTickets == {"T1", "T2"}
MCShippedList == <<"T1">>
MCUploads == {<<"T1", "T2">>, <<"T2">>}
=============================================================================
