---------------------------- MODULE MCCsvReader -----------------------------
(* All files of up to five rows, with gaps and repetitions in their numbers. *)
EXTENDS CsvReader

\* One server cut off, or none.
ServerColumns == {{"S1"}, {"S1", "S2"}}
=============================================================================
