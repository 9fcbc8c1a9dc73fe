------------------------------- MODULE MC_Div -------------------------------
(***************************************************************************)
(* An instance of Div.  When the unit is idle nothing reads its registers,   *)
(* so the view forgets them.                                                *)
(***************************************************************************)
EXTENDS Div

View == IF active THEN divVars ELSE << >>
=============================================================================
