------------------------------- MODULE Jukebox -------------------------------
(***************************************************************************)
(* What the player promises, whatever the way it drives its backend: one   *)
(* item of the list is shown as the current one, and only that item is     *)
(* ever on.  Editing the list does not disturb the item that is on, unless *)
(* it is that item that is taken away.                                     *)
(***************************************************************************)
EXTENDS Media, Sequences, SequencesExt

VARIABLES
  list,   \* the items
  shown,  \* the item shown as current
  on      \* the item that plays

jukeboxVars == <<list, shown, on>>

\* What is on is what is shown, and what is shown is in the list.
Consistent ==
  /\ shown \in ToSet(list) \cup {None}
  /\ on \in {shown, None}

Init ==
  /\ list \in Seq(Urls)
  /\ shown = None
  /\ on = None

\* The shown item begins to play.
Begin ==
  /\ on = None /\ shown # None
  /\ on' = shown
  /\ UNCHANGED <<list, shown>>

\* What is on goes off, and something else may be shown.
GoOff ==
  /\ on' = None
  /\ shown' \in ToSet(list) \cup {None}
  /\ UNCHANGED list

\* The list is edited.
Edit ==
  /\ list' \in Seq(Urls)
  /\ IF on \in ToSet(list')
     THEN UNCHANGED <<shown, on>>
     ELSE on' = None /\ shown' \in ToSet(list') \cup {None}

Next == Begin \/ GoOff \/ Edit

Spec == Init /\ [][Next]_jukeboxVars
=============================================================================
