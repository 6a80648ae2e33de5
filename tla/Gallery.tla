------------------------------- MODULE Gallery -------------------------------
(***************************************************************************)
(* Uploaded files and the gallery of one companion (uploads.service.ts,    *)
(* uploads.controller.ts, updatePhotos of profile.service.ts).             *)
(*                                                                         *)
(* A file goes to a store (Cloudinary, S3 or the disk) and then into       *)
(* uploaded_files; the upload of a gallery photo goes on to count the      *)
(* gallery and to add to it.  A file that is refused (for its type, size   *)
(* or content, or for want of a store) changes nothing.                    *)
(***************************************************************************)
EXTENDS Naturals, FiniteSets

CONSTANTS
    Uploader,       \* uploads that may be in progress at once
    GalleryLimit,   \* 9
    MaxBulk,        \* bound: photos given at once, which the service does not limit
    MaxUpload,      \* bound: uploads
    MaxMishap       \* bound: uploads that die

ASSUME GalleryAssumption ==
    /\ IsFiniteSet(Uploader)
    /\ {GalleryLimit, MaxBulk, MaxUpload, MaxMishap} \subseteq Nat

VARIABLES
    gallery,        \* number of companion_photos
    stored,         \* files in the store
    tracked,        \* rows of uploaded_files
    uploader,       \* where each upload is
    bulk,           \* history: most photos given at once
    uploads,        \* bound
    mishaps         \* bound and history: uploads that died

galleryVars == <<gallery, stored, tracked, uploader, bulk, uploads, mishaps>>

GalleryTypeOK ==
    /\ {gallery, stored, tracked} \subseteq Nat
    /\ uploader \in [Uploader -> {"resting", "track", "track_photo", "count", "insert"}]
    /\ bulk \in 0 .. MaxBulk
    /\ uploads \in 0 .. MaxUpload
    /\ mishaps \in 0 .. MaxMishap

GalleryInit ==
    /\ gallery = 0
    /\ stored = 0
    /\ tracked = 0
    /\ uploader = [u \in Uploader |-> "resting"]
    /\ bulk = 0
    /\ uploads = 0
    /\ mishaps = 0

Moves(u, from, to) == uploader[u] = from /\ uploader' = [uploader EXCEPT ![u] = to]

(* The file is stored; track_photo: it is meant for the gallery.           *)
UploadFile(u) ==
    /\ uploads < MaxUpload
    /\ uploads' = uploads + 1
    /\ \E purpose \in {"track", "track_photo"} : Moves(u, "resting", purpose)
    /\ stored' = stored + 1
    /\ UNCHANGED <<gallery, tracked, bulk, mishaps>>

TrackFile(u) ==
    /\ \/ Moves(u, "track", "resting")
       \/ Moves(u, "track_photo", "count")
    /\ tracked' = tracked + 1
    /\ UNCHANGED <<gallery, stored, bulk, uploads, mishaps>>

(* Faulty: the limit is compared after the photo is counted in.            *)
CountPhotosOffByOne(u) ==
    /\ Moves(u, "count", IF gallery > GalleryLimit THEN "resting" ELSE "insert")
    /\ UNCHANGED <<gallery, stored, tracked, bulk, uploads, mishaps>>

CountPhotos(u) ==
    /\ Moves(u, "count", IF gallery >= GalleryLimit THEN "resting" ELSE "insert")
    /\ UNCHANGED <<gallery, stored, tracked, bulk, uploads, mishaps>>

AddGalleryPhoto(u) ==
    /\ Moves(u, "insert", "resting")
    /\ gallery' = gallery + 1
    /\ UNCHANGED <<stored, tracked, bulk, uploads, mishaps>>

DeleteGalleryPhoto ==
    /\ gallery > 0
    /\ gallery' = gallery - 1
    /\ UNCHANGED <<stored, tracked, uploader, bulk, uploads, mishaps>>

(* Replaces the gallery in one transaction.                                *)
ReplaceGallery(n) ==
    /\ gallery' = n
    /\ bulk' = IF n > bulk THEN n ELSE bulk
    /\ UNCHANGED <<stored, tracked, uploader, uploads, mishaps>>

UploadDies(u) ==
    /\ uploader[u] # "resting"
    /\ mishaps < MaxMishap
    /\ mishaps' = mishaps + 1
    /\ uploader' = [uploader EXCEPT ![u] = "resting"]
    /\ UNCHANGED <<gallery, stored, tracked, bulk, uploads>>

GalleryNext ==
    \/ DeleteGalleryPhoto
    \/ \E n \in 0 .. MaxBulk : ReplaceGallery(n)
    \/ \E u \in Uploader :
          UploadFile(u) \/ TrackFile(u) \/ CountPhotos(u) \/ AddGalleryPhoto(u) \/ UploadDies(u)

GallerySpec == GalleryInit /\ [][GalleryNext]_galleryVars

-------------------------------------------------------------------------------
(* Properties *)

Inserting == {u \in Uploader : uploader[u] = "insert"}

(* Uploads that counted the gallery together exceed its limit by at most   *)
(* all of them but one, or what a replacement that was let through made of *)
(* it by as many as had been counting; and only uploads in progress or     *)
(* dead leave a file that no row tells of (addGalleryPhoto, updatePhotos,  *)
(* uploadFile).                                                            *)
GalleryBounded ==
    /\ \/ gallery + Cardinality(Inserting) <= GalleryLimit + Cardinality(Uploader) - 1
       \/ gallery + Cardinality(Inserting) <= bulk + Cardinality(Uploader)
    /\ stored <= tracked + Cardinality({u \in Uploader : uploader[u] \in {"track", "track_photo"}}) + mishaps
=============================================================================
