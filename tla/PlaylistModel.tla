---------------------------- MODULE PlaylistModel ----------------------------
(***************************************************************************)
(* The playlist: class PlaylistModel of src/common/playlist_model.{h,cpp}. *)
(* Its list has 0-based indices, -1 stands for no item.  What "next" and   *)
(* "previous" do is a decision taken from the list, the mode and whether   *)
(* the engine is idle; the engine carries it out (module Player), for it   *)
(* may first have to wait for mpv.                                         *)
(*                                                                         *)
(* Left out: _loopCount, which nothing reads, the thumbnails and media     *)
(* information of an item, and the signals to the widgets.  The flag       *)
(* _userRequestingItem, which keeps an end the user asked for from being   *)
(* taken for the end of a film, is true exactly while the engine polls for *)
(* that end (thread = "poll" in Player).                                   *)
(***************************************************************************)
EXTENDS Media, Integers, FiniteSets, SequencesExt

CONSTANTS
  Modes   \* the play modes the user chooses from in the checked instance

AllModes == {"OrderPlay", "ShufflePlay", "SinglePlay", "SingleLoop", "ListLoop"}

ASSUME ModesAssumption == Modes \subseteq AllModes

VARIABLES
  infos,      \* _infos
  current,    \* _current: the item shown as playing
  last,       \* _last: the item from which "next" counts
  playMode,   \* _playMode
  playOrder   \* _playOrder

listVars == <<infos, playMode, playOrder>>
playlistVars == <<listVars, current, last>>

count == Len(infos)
Indices == 0 .. count - 1
Item(i) == infos[i + 1]

PlaylistTypeOK ==
  /\ infos \in Seq(Urls)
  /\ current \in Nat \cup {-1}
  /\ last \in Nat \cup {-1}
  /\ playMode \in AllModes
  /\ playOrder \in Seq(Nat)

\* The constructor: an empty list, or the one loadPlaylist finds saved.
SavedLists == UNION {Injection(1 .. n, Urls) : n \in 0 .. Cardinality(Urls)}

PlaylistInit ==
  /\ infos \in SavedLists
  /\ current = -1
  /\ last = -1
  /\ playMode = "OrderPlay"
  /\ playOrder = <<>>

-----------------------------------------------------------------------------
(* The list.                                                               *)

\* reshuffle(), called with the new mode and the length of the new list.
KeepOrder(mode, n) == UNCHANGED playOrder
Reshuffle(mode, n) ==
  IF mode # "ShufflePlay" \/ n = 0
  THEN UNCHANGED playOrder
  ELSE playOrder' \in Bijection(1 .. n, 0 .. n - 1)

SetPlayMode(mode) ==
  /\ playMode # mode
  /\ playMode' = mode
  /\ Reshuffle(mode, count)
  /\ UNCHANGED <<infos, current, last>>

\* append(): a url that is already listed, or whose file cannot be opened, is
\* ignored.  AutoSearchSimilar appends more items the same way.
AppendUrl(url) ==
  /\ ~ Contains(infos, url)
  /\ infos' = Append(infos, url)
  /\ Reshuffle(playMode, count + 1)
  /\ UNCHANGED <<playMode, current, last>>

\* What remove() makes of _current, and leaves of _last in a list of n items.
Unshifted(i, pos) == i
IndexAfterRemoval(i, pos) == IF pos < i THEN i - 1 ELSE i
LastWithin(l, n) == IF l >= n THEN -1 ELSE l

-----------------------------------------------------------------------------
(* Decisions of playNext() and playPrev().                                 *)

\* Play item c, counting from l, after the end of the present file or at once.
Play(l, c, wait) == [do |-> "play", last |-> l, current |-> c, wait |-> wait]
PlayAtOnce(i)   == Play(i, i, FALSE)
PlayAfterEnd(i) == Play(i, i, TRUE)
StopEngine == [do |-> "stop", last |-> last, current |-> current, wait |-> FALSE]
ClearAll   == [do |-> "clear", last |-> -1, current |-> -1, wait |-> FALSE]
NoPlan     == [do |-> "nothing", last |-> -1, current |-> -1, wait |-> FALSE]
Ignore(l)  == [do |-> "nothing", last |-> l, current |-> current, wait |-> FALSE]

\* The place of _last in the shuffled order; none before the first item is
\* played or after a removal reset _last.  The loop then ends with i =
\* _playOrder.size() and reads past the list: whatever number is there is
\* taken for an index (count stands for every number that is not one).
PlacesOfLast == {i \in DOMAIN playOrder : playOrder[i] = last}
ReadPastOrder == {PlayAfterEnd(n) : n \in 0 .. count}

FirstIfNone == IF last = -1 THEN 0 ELSE last

\* Stepping off either end of the list in ListLoop.
WrapEarly(i) == IF i >= count - 1 THEN 0 ELSE i
WrapAbove(i) == IF i = count THEN 0 ELSE i
NoWrap(i)    == i
WrapBelow(i) == IF i < 0 THEN count - 1 ELSE i

NextPlans(fromUser, idle) ==
  CASE playMode = "SinglePlay" ->
         IF ~fromUser THEN {ClearAll}
         ELSE IF last + 1 < count THEN {PlayAfterEnd(last + 1)} ELSE {Ignore(last)}
    [] playMode = "SingleLoop" ->
         IF ~fromUser \/ idle THEN {PlayAtOnce(FirstIfNone)}
         ELSE IF last + 1 < count THEN {PlayAfterEnd(last + 1)} ELSE {StopEngine}
    [] playMode = "ShufflePlay" ->
         IF PlacesOfLast = {} THEN ReadPastOrder
         ELSE {PlayAfterEnd(playOrder[IF i = Len(playOrder) THEN 1 ELSE i + 1]) :
                 i \in PlacesOfLast}
    [] playMode = "ListLoop" ->
         {PlayAfterEnd(WrapAbove(last + 1))}
    [] OTHER ->
         IF last + 1 = count THEN {ClearAll} ELSE {PlayAfterEnd(last + 1)}

\* playPrev() is only called for the user.
PrevPlans(idle) ==
  CASE playMode = "SinglePlay" ->
         IF last - 1 >= 0 THEN {PlayAfterEnd(last - 1)} ELSE {Ignore(last)}
    [] playMode = "SingleLoop" ->
         IF idle THEN {PlayAtOnce(FirstIfNone)}
         ELSE IF last - 1 >= 0 THEN {PlayAfterEnd(last - 1)} ELSE {StopEngine}
    [] playMode = "ShufflePlay" ->
         IF PlacesOfLast = {} THEN ReadPastOrder
         ELSE {PlayAfterEnd(playOrder[IF i = 1 THEN Len(playOrder) ELSE i - 1]) :
                 i \in PlacesOfLast}
    [] playMode = "ListLoop" ->
         {PlayAfterEnd(WrapBelow(last - 1))}
    [] OTHER ->
         IF last - 1 < 0 THEN {Ignore(0)} ELSE {PlayAfterEnd(last - 1)}

\* changeCurrent(pos): "next" will count from the item that was current.
SelectPlan(pos) == Play(current, pos, TRUE)
=============================================================================
