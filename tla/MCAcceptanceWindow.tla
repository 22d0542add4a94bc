-------------------------- MODULE MCAcceptanceWindow --------------------------
(***************************************************************************)
(* Six years of notes over eight years of calendar, 2025's one-off rule    *)
(* inside both ranges.                                                     *)
(***************************************************************************)
EXTENDS AcceptanceWindow

MCNoteYears  == 2023 .. 2028
MCFirstMonth == MonthIndex(2022, January)
MCLastMonth  == MonthIndex(2030, December)
===============================================================================
