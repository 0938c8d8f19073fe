------------------------------- MODULE Artwork -------------------------------
(***************************************************************************)
(* The images of episodes and streamers (routes/upload.ts and              *)
(* services/storage.service.ts) next to the requests of EpisodeDrafts: an  *)
(* upload deletes the old file, stores the new one and writes its URL into *)
(* the row, in three awaits, and so overlaps with other uploads, with      *)
(* PATCH, with the launch and with the deletion of the draft.              *)
(*                                                                         *)
(* A key of the store is the sequence of its segments, and a URL is a host *)
(* and a key: what is cut out of a URL matters here.                       *)
(***************************************************************************)
EXTENDS EpisodeDrafts

CONSTANTS
  Streamer,       \* the owner of the avatar
  MaxImages       \* bound: requests about images in a run

ASSUME StreamerIsNoEpisode == Streamer \notin Episodes /\ MaxImages \in Nat

VARIABLES
  files,          \* keys in the store
  image,          \* episodes.artworkUrl and users.avatarUrl, or Null
  hashed,         \* episodes with an artworkHash
  images          \* requests about images so far

imageVars == <<files, image, hashed>>
allVars == <<vars, imageVars, images>>

Owners == Episodes \cup {Streamer}
Folder(o) == IF o = Streamer THEN "avatars" ELSE "episodes"

Url(key) == <<"host">> \o key
Elsewhere == <<"elsewhere", "some", "picture">>

\* uploadFile's key: the folder, the owner's id, a fresh name.
Key(o, n) == <<Folder(o), o, n>>

ASSUME NullIsNoUrl == \A o \in Owners, n \in 0..MaxImages : Null # Url(Key(o, n))

\* Variant for the checks: all that follows the host.
OldKey_Whole(url) == Tail(url)

\* The key that deleteFile is given: the last two segments of the URL, though a
\* key has three.
OldKey(url) == SubSeq(url, Len(url) - 1, Len(url))

InitImages ==
  /\ files = {} /\ images = 0
  /\ image = [o \in Owners |-> Null] /\ hashed = {}

-----------------------------------------------------------------------------
StartImage(r, kind, o) ==
  /\ o \in Episodes => IsDraft(o)
  /\ images < MaxImages /\ images' = images + 1
  /\ req[r].pc = "idle" /\ starts < MaxStarts /\ starts' = starts + 1
  /\ req' = [req EXCEPT ![r] = [Idle EXCEPT !.pc = "checked", !.kind = kind, !.key = o,
                                             !.seen = image[o], !.number = images + 1]]
  /\ NoBridge /\ UNCHANGED <<draftVars, configured, early, imageVars>>

\* POST /artwork and /avatar, up to the read of the row.
UploadRead(r, o) == StartImage(r, "upload", o)

\* DELETE /artwork/:episodeId, up to the read of the row.
ClearRead(r, e) == e \in Episodes /\ StartImage(r, "clear", e)

\* An upload replaces only what was uploaded before, a deletion any image.
HasOld(r) ==
  /\ req[r].seen # Null
  /\ \/ req[r].kind = "clear"
     \/ req[r].key \in hashed
     \/ req[r].key = Streamer /\ "avatars" \in Range(req[r].seen)

Image(r, pc) == req[r].kind \in {"upload", "clear"} /\ req[r].pc = pc

\* deleteFile; the store says nothing about a key it does not have, and its
\* errors are caught.
OldDeleted(r) ==
  /\ Image(r, "checked")
  /\ \/ HasOld(r) /\ files' = files \ {OldKey(req[r].seen)}
     \/ UNCHANGED files
  /\ req' = [req EXCEPT ![r] = [req[r] EXCEPT !.pc = "cleared"]]
  /\ NoBridge /\ UNCHANGED <<draftVars, configured, early, starts, image, hashed, images>>

\* uploadFile, or its error and the answer.
Uploaded(r) ==
  /\ req[r].kind = "upload" /\ req[r].pc = "cleared"
  /\ \/ /\ files' = files \cup {Key(req[r].key, req[r].number)}
        /\ req' = [req EXCEPT ![r] = [req[r] EXCEPT !.pc = "stored"]]
        /\ UNCHANGED <<configured, early, starts>>
     \/ Finish(r) /\ UNCHANGED files
  /\ NoBridge /\ UNCHANGED <<draftVars, image, hashed, images>>

\* The row is written, whatever its status by now; if it is gone, an error.
HasRow(o) == o = Streamer \/ o \in Existing

UploadSave(r) ==
  /\ req[r].kind = "upload" /\ req[r].pc = "stored"
  /\ LET o == req[r].key IN
     IF HasRow(o)
     THEN /\ image' = [image EXCEPT ![o] = Url(Key(o, req[r].number))]
          /\ hashed' = (hashed \cup {o}) \ {Streamer}
     ELSE UNCHANGED <<image, hashed>>
  /\ Finish(r) /\ NoBridge /\ UNCHANGED <<draftVars, files, images>>

ClearSave(r) ==
  /\ req[r].kind = "clear" /\ req[r].pc = "cleared"
  /\ LET e == req[r].key IN
     IF HasRow(e)
     THEN image' = [image EXCEPT ![e] = Null] /\ hashed' = hashed \ {e}
     ELSE UNCHANGED <<image, hashed>>
  /\ Finish(r) /\ NoBridge /\ UNCHANGED <<draftVars, files, images>>

\* PATCH /:id with an artworkUrl in its body: any URL, or null; the hash stays.
PatchImage(r, v, url) ==
  /\ images < MaxImages /\ images' = images + 1
  /\ req[r].key \in Existing /\ PatchWrite(r, v)
  /\ image' = [image EXCEPT ![req[r].key] = url]
  /\ UNCHANGED <<files, hashed>>

-----------------------------------------------------------------------------
ImageStep(r) ==
  \/ \E o \in Owners : UploadRead(r, o) \/ ClearRead(r, o)
  \/ OldDeleted(r) \/ Uploaded(r) \/ UploadSave(r) \/ ClearSave(r)
  \/ \E v \in Valid, url \in {Null, Elsewhere} : PatchImage(r, v, url)

StudioNext ==
  \/ Next /\ UNCHANGED <<imageVars, images>>
  \/ \E r \in Requests : ImageStep(r)

StudioSpec == Init /\ InitImages /\ [][StudioNext]_allVars

-----------------------------------------------------------------------------
\* The image a row shows is in the store, whatever uploads, deletions, failed
\* uploads and restarts came between.  It is so because no file is ever
\* deleted: the handlers delete the old file before the new one is stored and
\* the row written (upload.ts:67-91), under a key cut short (upload.ts:69).
ImageIsStored ==
  \A o \in Owners : \A n \in 0..MaxImages : image[o] = Url(Key(o, n)) => Key(o, n) \in files
=============================================================================
