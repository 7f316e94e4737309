-------------------------------- MODULE Media --------------------------------
(***************************************************************************)
(* What the player plays: files and network streams, each named by a url   *)
(* (class QUrl; PlayItemInfo::url of src/common/playlist_model.h).         *)
(***************************************************************************)
CONSTANTS
  Urls,  \* the urls there are
  None   \* no url

ASSUME MediaAssumption == None \notin Urls
=============================================================================
