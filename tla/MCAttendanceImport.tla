------------------------- MODULE MCAttendanceImport -------------------------
(***************************************************************************)
(* Small instances of AttendanceImport for TLC.                            *)
(***************************************************************************)
EXTENDS AttendanceImport, TLC

CONSTANTS p1, p2, day, night

\* One CSV of one row, and one of two whose first row differs.
TwoCsvs == {<<day>>, <<night, day>>}

\* CSVs of one and of two rows, one of which lacks a field.
HoledCsvs == {<<day>>, <<night, Blank>>}

\* CSVs of the same length.
EvenCsvs == {<<day>>, <<night>>}

PostSymmetry == Permutations(Posts)

=============================================================================
