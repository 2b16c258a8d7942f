----------------------------- MODULE TileDownloads -----------------------------
(***************************************************************************)
(* Downloads of one image tile by threads of several processes             *)
(* (infrastructure/imagery/copernicus.py: download_tile, download_dem_tile *)
(* and the token they share) through the tile cache (imagery/cache.py).    *)
(*                                                                         *)
(* The cache writes an entry under one temporary name per tile, which all  *)
(* writers of the tile share: who opens it truncates the file another has  *)
(* written, and who renames it publishes what another still writes.  The   *)
(* picture itself is written under a temporary name of its own.            *)
(*                                                                         *)
(* Abstracted: image contents.  A file is torn while it is written, whole, *)
(* or "bad", an answer that is no image.  A file is named by the download  *)
(* that created it, so that one being written can be renamed or removed.   *)
(***************************************************************************)
EXTENDS Naturals

CONSTANTS
    Download,      \* downloads of the tile; each runs once
    MaxRetries,    \* max_retries
    MaxLapses,     \* bound: the access token lapses or is revoked
    MaxTileFaults, \* bound: requests and file operations that fail, deaths
    NoInode        \* no file has the name

ASSUME TileAssumption ==
    /\ {MaxRetries, MaxLapses, MaxTileFaults} \subseteq Nat
    /\ NoInode \notin Download

VARIABLES
    entry,      \* the file of the cache entry, <key>.png
    tmpEntry,   \* the file of <key>.tmp
    content,    \* per file of the cache: what is in it
    download,   \* per download: where it is, its failed attempts, its image
    handle,     \* per download: the cache file it has open
    draft,      \* per temporary name of _save_png_atomically: what is in it
    picture,    \* the output path
    token,      \* _access_token: none (or expired by its date), valid, revoked
    lapses, tileFaults

tileVars == <<entry, tmpEntry, content, download, handle, draft, picture, token, lapses, tileFaults>>

Content == {"torn", "bad", "whole"}

(* look: at the cache; ask: before an attempt; set, write, rename: in       *)
(* set() of the cache; decode; save, fill, publish: _save_png_atomically;   *)
(* stitch: the caller is about to read the picture.                         *)
Places == {"look", "ask", "set", "write", "rename", "unlink", "decode", "save", "fill", "publish",
           "stitch", "done", "failed"}

TileTypeOK ==
    /\ {entry, tmpEntry} \subseteq Download \cup {NoInode}
    /\ content \in [Download -> Content]
    /\ download \in [Download -> [at : Places, tries : 0..MaxRetries,
                                  image : Content, cached : BOOLEAN]]
    /\ handle \in [Download -> Download \cup {NoInode}]
    /\ draft \in [Download -> Content]
    /\ picture \in Content \cup {"none"}
    /\ token \in {"none", "valid", "revoked"}
    /\ lapses \in 0..MaxLapses /\ tileFaults \in 0..MaxTileFaults

TileInit ==
    /\ entry = NoInode /\ tmpEntry = NoInode
    /\ content = [d \in Download |-> "torn"]
    /\ download = [d \in Download |-> [at |-> "look", tries |-> 0, image |-> "torn",
                                       cached |-> FALSE]]
    /\ handle = [d \in Download |-> NoInode]
    /\ draft = [d \in Download |-> "torn"]
    /\ picture = "none"
    /\ token = "none"
    /\ lapses = 0 /\ tileFaults = 0

Go(d, place) == download' = [download EXCEPT ![d].at = place]
TileFault == tileFaults < MaxTileFaults /\ tileFaults' = tileFaults + 1

SameCache == UNCHANGED <<entry, tmpEntry, content, handle>>
SameOutput == UNCHANGED <<draft, picture>>

-----------------------------------------------------------------------------
(* An entry is used only if it decodes; entries never disappear. *)
LookInCache(d) ==
    /\ download[d].at = "look"
    /\ download' = [download EXCEPT ![d] =
           IF entry # NoInode /\ content[entry] = "whole"
           THEN [@ EXCEPT !.at = "save", !.image = "whole", !.cached = TRUE]
           ELSE [@ EXCEPT !.at = "ask"]]
    /\ SameCache /\ SameOutput /\ UNCHANGED <<token, lapses, tileFaults>>

(***************************************************************************)
(* An attempt: the token of the process, asked for when there is none, and *)
(* the request.  A refused token is renewed and costs an attempt.          *)
(***************************************************************************)
Answered(d) ==
    /\ download[d].at = "ask" /\ token # "revoked"
    /\ token' = "valid"
    /\ \E image \in {"whole", "bad"} :
           /\ download' = [download EXCEPT ![d].at = "set", ![d].image = image]
           /\ IF image = "bad" THEN TileFault ELSE UNCHANGED tileFaults
    /\ SameCache /\ SameOutput /\ UNCHANGED lapses

Unauthorised(d) ==
    /\ download[d].at = "ask" /\ token = "revoked"
    /\ IF download[d].tries < MaxRetries
       THEN /\ download' = [download EXCEPT ![d].tries = @ + 1]
            /\ token' = "valid"
       ELSE /\ Go(d, "failed")
            /\ UNCHANGED token
    /\ SameCache /\ SameOutput /\ UNCHANGED <<lapses, tileFaults>>

(* A transient error is tried again; another error, the identity service's *)
(* included, ends the download.                                             *)
AttemptFails(d) ==
    /\ download[d].at = "ask"
    /\ TileFault
    /\ \/ download[d].tries < MaxRetries /\ download' = [download EXCEPT ![d].tries = @ + 1]
       \/ Go(d, "failed")
    /\ token' \in IF token = "none" THEN {"none", "valid"} ELSE {token}
    /\ SameCache /\ SameOutput /\ UNCHANGED lapses

(* The token's date passes, or the service withdraws it. *)
Lapse ==
    /\ token = "valid" /\ lapses < MaxLapses
    /\ lapses' = lapses + 1
    /\ token' \in {"none", "revoked"}
    /\ SameCache /\ SameOutput /\ UNCHANGED <<download, tileFaults>>

(***************************************************************************)
(* FilesystemTileCache.set: open and truncate <key>.tmp, write it, rename  *)
(* it.  Its failures are swallowed.                                        *)
(***************************************************************************)
OpenEntry(d) ==
    /\ download[d].at = "set"
    /\ LET file == IF tmpEntry = NoInode THEN d ELSE tmpEntry IN
           /\ tmpEntry' = file
           /\ handle' = [handle EXCEPT ![d] = file]
           /\ content' = [content EXCEPT ![file] = "torn"]
    /\ Go(d, "write")
    /\ SameOutput /\ UNCHANGED <<entry, token, lapses, tileFaults>>

(* Over what another writer has put there in the meantime. *)
WriteEntry(d) ==
    /\ download[d].at = "write"
    /\ content' = [content EXCEPT ![handle[d]] =
                       IF @ \in {"torn", download[d].image} THEN download[d].image ELSE "torn"]
    /\ Go(d, "rename")
    /\ SameOutput /\ UNCHANGED <<entry, tmpEntry, handle, token, lapses, tileFaults>>

(* Without a <key>.tmp, which another has renamed or removed, it raises. *)
RenameEntry(d) ==
    /\ download[d].at = "rename"
    /\ IF tmpEntry # NoInode
       THEN entry' = tmpEntry /\ tmpEntry' = NoInode /\ Go(d, "decode")
       ELSE Go(d, "unlink") /\ UNCHANGED <<entry, tmpEntry>>
    /\ SameOutput /\ UNCHANGED <<content, handle, token, lapses, tileFaults>>

SetFails(d) ==
    /\ download[d].at \in {"set", "write", "rename"}
    /\ TileFault
    /\ Go(d, "unlink")
    /\ SameCache /\ SameOutput /\ UNCHANGED <<token, lapses>>

(* The handler of OSError removes <key>.tmp, whoever writes it by now. *)
UnlinkEntry(d) ==
    /\ download[d].at = "unlink"
    /\ tmpEntry' = NoInode
    /\ Go(d, "decode")
    /\ SameOutput /\ UNCHANGED <<entry, content, handle, token, lapses, tileFaults>>

Decode(d) ==
    /\ download[d].at = "decode"
    /\ Go(d, IF download[d].image = "whole" THEN "save" ELSE "failed")
    /\ SameCache /\ SameOutput /\ UNCHANGED <<token, lapses, tileFaults>>

(***************************************************************************)
(* _save_png_atomically: mkstemp, write, rename over the output path.      *)
(***************************************************************************)
(* Slip: a predictable temporary name, as the cache has. *)
SharedDraft(d) == CHOOSE first \in Download : TRUE

DraftOf(d) == d

MakeDraft(d) ==
    /\ download[d].at = "save"
    /\ draft' = [draft EXCEPT ![DraftOf(d)] = "torn"]
    /\ Go(d, "fill")
    /\ SameCache /\ UNCHANGED <<picture, token, lapses, tileFaults>>

FillDraft(d) ==
    /\ download[d].at = "fill"
    /\ draft' = [draft EXCEPT ![DraftOf(d)] = download[d].image]
    /\ Go(d, "publish")
    /\ SameCache /\ UNCHANGED <<picture, token, lapses, tileFaults>>

Publish(d) ==
    /\ download[d].at = "publish"
    /\ picture' = draft[DraftOf(d)]
    /\ Go(d, "stitch")
    /\ SameCache /\ UNCHANGED <<draft, token, lapses, tileFaults>>

(* An image from the cache that cannot be saved is downloaded after all. *)
SaveFails(d) ==
    /\ download[d].at \in {"save", "fill", "publish"}
    /\ TileFault
    /\ download' = [download EXCEPT ![d].at = IF download[d].cached THEN "ask" ELSE "failed",
                                    ![d].cached = FALSE]
    /\ SameCache /\ SameOutput /\ UNCHANGED <<token, lapses>>

(* The caller stitches the tile, if no other caller of the same path has   *)
(* removed it, and removes it (generate_dem.py, create_scan.py).            *)
Stitch(d) ==
    /\ download[d].at = "stitch"
    /\ Go(d, IF picture = "none" THEN "failed" ELSE "done")
    /\ picture' = "none"
    /\ SameCache /\ UNCHANGED <<draft, token, lapses, tileFaults>>

(* The process dies. *)
Die(d) ==
    /\ download[d].at \notin {"done", "failed"}
    /\ TileFault
    /\ Go(d, "failed")
    /\ SameCache /\ SameOutput /\ UNCHANGED <<token, lapses>>

TileNext ==
    \/ Lapse
    \/ \E d \in Download :
           \/ LookInCache(d) \/ Answered(d) \/ Unauthorised(d) \/ AttemptFails(d)
           \/ OpenEntry(d) \/ WriteEntry(d) \/ RenameEntry(d) \/ SetFails(d) \/ UnlinkEntry(d)
           \/ Decode(d)
           \/ MakeDraft(d) \/ FillDraft(d) \/ Publish(d) \/ SaveFails(d) \/ Stitch(d)
           \/ Die(d)

TileSpec == TileInit /\ [][TileNext]_tileVars

-----------------------------------------------------------------------------
(* Whatever the writers of a tile do to its cache entry and to each other,  *)
(* what a reader finds under the output path is a whole image               *)
(* (imagery/copernicus.py:188-223, 470-486).                                *)
PictureIntact == picture \in {"none", "whole"}

(* The cache's entries are whole.  Refuted by two writers of one tile.      *)
EntryIntact == entry # NoInode => content[entry] = "whole"
=============================================================================
