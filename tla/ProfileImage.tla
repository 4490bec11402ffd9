----------------------------- MODULE ProfileImage -----------------------------
(***************************************************************************)
(* The profile image: an object in the bucket and the column that points   *)
(* to it.  No transaction spans the two: an upload puts the new object,    *)
(* deletes the one the row named when the request was authenticated, and   *)
(* saves the row; the row is saved although the object is gone already.    *)
(***************************************************************************)
EXTENDS Naturals, FiniteSets

CONSTANTS
    Owners, Workers,
    MaxImages,   \* bound: objects put per user
    NoImage      \* profile_img_url = NULL

ASSUME ProfileImageAssumption == MaxImages \in Nat /\ NoImage \notin Owners \X Nat

VARIABLES
    standing,    \* of the account: module AuthSession has the details
    image,       \* column profile_img_url
    bucket,      \* the objects stored
    uploads,     \* how many objects a user has put
    worker,      \* what each web request is doing
    halfDone,    \* history: objects deleted by a request that saved no row
    unsettled    \* history: users whose requests overlapped or failed

imageVars == <<standing, image, bucket, uploads, worker, halfDone, unsettled>>

\* The key of an object holds the user and a UUID
Objects == Owners \X (1..MaxImages)

Resting == [pc |-> "rest"]
Working == [pc: {"put", "delete", "save"}, user: Owners,
            old: Objects \cup {NoImage}, new: Objects \cup {NoImage}]

ProfileImageTypeOK ==
    /\ standing \in [Owners -> {"active", "deleted", "purged"}]
    /\ image \in [Owners -> Objects \cup {NoImage}]
    /\ bucket \subseteq Objects
    /\ uploads \in [Owners -> 0..MaxImages]
    /\ worker \in [Workers -> Working \cup {Resting}]
    /\ \A w \in Workers : worker[w].pc = "delete" => worker[w].old # NoImage
    /\ halfDone \subseteq Objects
    /\ unsettled \subseteq Owners

ProfileImageInit ==
    /\ standing = [u \in Owners |-> "active"]
    /\ image = [u \in Owners |-> NoImage]
    /\ bucket = {}
    /\ uploads = [u \in Owners |-> 0]
    /\ worker = [w \in Workers |-> Resting]
    /\ halfDone = {}
    /\ unsettled = {}

-----------------------------------------------------------------------------
Serve(w, rec) == worker' = [worker EXCEPT ![w] = rec]
Rest(w) == Serve(w, Resting)
BusyFor(u) == {w \in Workers : worker[w].pc # "rest" /\ worker[w].user = u}

\* The row is read with the authentication and not again
Authenticated(w, u, rec) ==
    /\ worker[w].pc = "rest"
    /\ standing[u] = "active"
    /\ Serve(w, rec)
    /\ unsettled' = IF BusyFor(u) = {} THEN unsettled ELSE unsettled \cup {u}
    /\ UNCHANGED <<standing, image, bucket, uploads, halfDone>>

\* mutated form: the old image is forgotten
UploadAndKeep(w, u) ==
    Authenticated(w, u, [pc |-> "put", user |-> u, old |-> NoImage, new |-> NoImage])
Upload(w, u) ==
    Authenticated(w, u, [pc |-> "put", user |-> u, old |-> image[u], new |-> NoImage])

\* mutated form: also without an old image (if old_key is not None dropped)
AfterPutAlways(rec) == "delete"
AfterPut(rec) == IF rec.old = NoImage THEN "save" ELSE "delete"

DeleteImage(w, u) ==
    Authenticated(w, u, [pc |-> IF image[u] = NoImage THEN "save" ELSE "delete",
                    user |-> u, old |-> image[u], new |-> NoImage])

PutObject(w) ==
    /\ worker[w].pc = "put"
    /\ LET u == worker[w].user
           new == <<u, uploads[u] + 1>>
       IN /\ uploads[u] < MaxImages
          /\ bucket' = bucket \cup {new}
          /\ uploads' = [uploads EXCEPT ![u] = @ + 1]
          /\ Serve(w, [worker[w] EXCEPT !.pc = AfterPut(worker[w]), !.new = new])
    /\ UNCHANGED <<standing, image, halfDone, unsettled>>

\* mutated form: the image the row names by now is deleted
DeleteCurrent(w) ==
    /\ worker[w].pc = "delete"
    /\ bucket' = bucket \ {image[worker[w].user]}
    /\ Serve(w, [worker[w] EXCEPT !.pc = "save"])
    /\ UNCHANGED <<standing, image, uploads, halfDone, unsettled>>
\* delete_object of a key that is gone succeeds
DeleteObject(w) ==
    /\ worker[w].pc = "delete"
    /\ bucket' = bucket \ {worker[w].old}
    /\ Serve(w, [worker[w] EXCEPT !.pc = "save"])
    /\ UNCHANGED <<standing, image, uploads, halfDone, unsettled>>

SaveRow(w) ==
    /\ worker[w].pc = "save"
    /\ standing[worker[w].user] # "purged"
    /\ image' = [image EXCEPT ![worker[w].user] = worker[w].new]
    /\ Rest(w)
    /\ UNCHANGED <<standing, bucket, uploads, halfDone, unsettled>>

\* A call to the bucket or the database raises, or the row to save is purged: the
\* response is an error and what was done stays.  A failed call to the bucket may have
\* taken effect all the same.
Abort(w) ==
    /\ worker[w].pc # "rest"
    /\ LET rec == worker[w] IN
         /\ CASE rec.pc = "put" ->
                   \/ UNCHANGED <<bucket, uploads, halfDone>>
                   \/ /\ uploads[rec.user] < MaxImages
                      /\ uploads' = [uploads EXCEPT ![rec.user] = @ + 1]
                      /\ bucket' = bucket \cup {<<rec.user, uploads[rec.user] + 1>>}
                      /\ UNCHANGED halfDone
              [] rec.pc = "delete" ->
                   /\ \/ UNCHANGED <<bucket, halfDone>>
                      \/ bucket' = bucket \ {rec.old} /\ halfDone' = halfDone \cup {rec.old}
                   /\ UNCHANGED uploads
              [] rec.pc = "save" ->
                   /\ halfDone' = halfDone \cup ({rec.old} \ {NoImage})
                   /\ UNCHANGED <<bucket, uploads>>
         /\ unsettled' = unsettled \cup {rec.user}
    /\ Rest(w)
    /\ UNCHANGED <<standing, image>>

-----------------------------------------------------------------------------
\* delete_user_me, restore_user_account and purge_soft_deleted_users: the purge
\* deletes the row and leaves the object
AccountChanges(u) ==
    /\ standing[u] # "purged"
    /\ standing' = [standing EXCEPT ![u] = IF @ = "active" THEN "deleted" ELSE "active"]
    /\ UNCHANGED <<image, bucket, uploads, worker, halfDone, unsettled>>
PurgeAccount(u) ==
    /\ standing[u] = "deleted"
    /\ standing' = [standing EXCEPT ![u] = "purged"]
    /\ image' = [image EXCEPT ![u] = NoImage]
    /\ UNCHANGED <<bucket, uploads, worker, halfDone, unsettled>>

ProfileImageNext ==
    \/ \E w \in Workers :
        \/ \E u \in Owners : Upload(w, u) \/ DeleteImage(w, u)
        \/ PutObject(w) \/ DeleteObject(w) \/ SaveRow(w) \/ Abort(w)
    \/ \E u \in Owners : AccountChanges(u) \/ PurgeAccount(u)

ProfileImageSpec == ProfileImageInit /\ [][ProfileImageNext]_imageVars

-----------------------------------------------------------------------------
(* Properties *)

\* A row that names a missing object is the doing of a request that deleted the object
\* and has not saved the row yet, or failed before it could: two requests that replace
\* one image never leave the row with an object the other one deleted.
MissingOnlyHalfDone ==
    \A u \in Owners :
        image[u] # NoImage /\ image[u] \notin bucket =>
            \/ image[u] \in halfDone
            \/ \E w \in Workers : worker[w].pc = "save" /\ worker[w].old = image[u]

\* While the requests of a user come one at a time and succeed, the bucket holds the
\* object the row names and no other of that user; a purge is the exception.
SerialImagesMatch ==
    \A u \in Owners :
        u \notin unsettled /\ BusyFor(u) = {} /\ standing[u] # "purged" =>
            {o \in bucket : o[1] = u} = {image[u]} \ {NoImage}

\* How far row and bucket may be apart: not at all when requests come one at a time, and
\* otherwise only by what a request has not completed.
ImagesAgree == MissingOnlyHalfDone /\ SerialImagesMatch
=============================================================================
