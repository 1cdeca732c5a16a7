---------------------------- MODULE ChunkStore -----------------------------
(***************************************************************************)
(* The content-addressed chunk store (deltaweave-store lib.rs) and the     *)
(* free-space admission of its writes (DiskAdmission, deltaweave-net       *)
(* lib.rs).  A chunk file is absent, intact or corrupt; hashing finds out  *)
(* which.  Sizes are in units of disk space.                               *)
(***************************************************************************)
EXTENDS Naturals, FiniteSetsExt

CONSTANTS
    Chunk,        \* the distinct chunks of the file's manifest
    Size,         \* chunk -> length
    Reserve,      \* min_free_space_bytes
    Destination,  \* pending destination bytes of the pass
    Rotten,       \* bound: chunks that may be corrupt at the start
    MinFree, MaxFree,  \* bounds: free space at the start
    MaxOutside    \* bound: space other programs take

ASSUME StoreAssumption ==
    /\ IsFiniteSet(Chunk) /\ Size \in [Chunk -> Nat \ {0}]
    /\ Reserve \in Nat /\ Destination \in Nat /\ MinFree \in 0..MaxFree /\ MaxFree \in Nat /\ MaxOutside \in Nat

Content == {"absent", "intact", "corrupt"}

VARIABLES
    content,      \* what is at each chunk path
    unsynced,     \* chunks renamed into place, directory not yet fsynced
    shared,       \* state and destination are on one filesystem
    free,         \* space available there
    outside       \* space other programs took

store == <<content, unsynced, shared, free, outside>>

StoreTypeOK ==
    /\ content \in [Chunk -> Content] /\ unsynced \in SUBSET Chunk
    /\ shared \in BOOLEAN /\ free \in 0..MaxFree /\ outside \in 0..MaxOutside

StoreInit ==
    /\ content \in [Chunk -> Content] /\ unsynced = {}
    /\ \A c \in Chunk \ Rotten : content[c] # "corrupt"
    /\ shared \in BOOLEAN /\ free \in MinFree..MaxFree /\ outside = 0

Bytes(chunks) == MapThenSumSet(LAMBDA c : Size[c], chunks)

\* verify_bounded and read_verified_bounded accept exactly the intact file.
Verified(c) == content[c] = "intact"

\* missing_chunks
Missing == {c \in Chunk : ~Verified(c)}

\* check_filesystem_budget: on one filesystem the pending destination bytes
\* and the write share the room above the reserve.
Budget(write, destination) ==
    IF shared THEN free >= write + destination + Reserve ELSE free >= write + Reserve
CheckState(write) == Budget(write, Destination)

\* install_validated_chunk: an intact file is kept, a corrupt one moved to the
\* trash (it keeps its space); the new one is written and fsynced beside and
\* renamed into place.
Install(c) ==
    /\ free >= Size[c] \/ Verified(c)
    /\ content' = [content EXCEPT ![c] = "intact"]
    /\ unsynced' = IF Verified(c) THEN unsynced ELSE unsynced \cup {c}
    /\ free' = IF Verified(c) THEN free ELSE free - Size[c]
    /\ UNCHANGED <<shared, outside>>

\* sync_directory on the parents of the chunks a call installed.
Sync(chunks) ==
    /\ unsynced' = unsynced \ chunks
    /\ UNCHANGED <<content, shared, free, outside>>

\* put_verified: one chunk, installed and its directory fsynced.
PutVerified(c) ==
    /\ content' = [content EXCEPT ![c] = "intact"]
    /\ free' = IF Verified(c) THEN free ELSE free - Size[c]
    /\ UNCHANGED <<unsynced, shared, outside>>

\* Other programs take space at any time.
Consume ==
    /\ outside < MaxOutside /\ free > 0
    /\ outside' = outside + 1 /\ free' = free - 1
    /\ UNCHANGED <<content, unsynced, shared>>

\* The machine stops: directory entries that were not fsynced may be lost, and
\* the temporary files of one of the sets in `torn` may stay behind.
PowerLoss(torn) ==
    /\ \E lost \in SUBSET unsynced :
          content' = [c \in Chunk |-> IF c \in lost THEN "absent" ELSE content[c]]
    /\ \E t \in torn : Bytes(t) <= free /\ free' = free - Bytes(t)
    /\ unsynced' = {} /\ UNCHANGED <<shared, outside>>
=============================================================================
