---------------------------- MODULE Preferences ----------------------------
(***************************************************************************)
(* What Settings promises its callers: a set of changes made so far, some   *)
(* of them saved.  A program that stops loses at most what is not saved, a  *)
(* program that exits loses nothing, and what is saved stays.               *)
(***************************************************************************)
CONSTANT Changes  \* what a user may change, once each

VARIABLES
  life,  \* the program: "on", "exited" regularly, or "off"
  made,  \* the changes in effect
  saved  \* the changes a later launch will find

vars == <<life, made, saved>>

Init == life = "off" /\ made = {} /\ saved = {}

Launch == life # "on" /\ life' = "on" /\ made' = saved /\ UNCHANGED saved

Change ==
  /\ life = "on"
  /\ \E c \in Changes \ made : made' = made \cup {c}
  /\ UNCHANGED <<life, saved>>

\* At any time, everything made so far is saved at once.
Save == life = "on" /\ saved' = made /\ UNCHANGED <<life, made>>

Crash == life = "on" /\ life' = "off" /\ UNCHANGED <<made, saved>>

\* A regular exit ends with everything saved.
Exit == life = "on" /\ life' = "exited" /\ saved' = made /\ UNCHANGED made

Next == Launch \/ Change \/ Save \/ Crash \/ Exit

Spec == Init /\ [][Next]_vars
=============================================================================
