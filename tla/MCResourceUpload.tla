-------------------------- MODULE MCResourceUpload --------------------------
(***************************************************************************)
(* Small instances of ResourceUpload and UploadQuota for TLC.  They share  *)
(* no variable, so a behaviour explores one of them, and of UploadQuota    *)
(* one of its counters.                                                    *)
(***************************************************************************)
EXTENDS ResourceUpload, UploadQuota, TLC

VARIABLE part  \* "sessions", or the counter that is looked at

SmallBatches == {[bytes |-> b, files |-> f] : b \in 0 .. 2, f \in 1 .. 2}

MCInit == Init /\ QuotaInit /\ part \in {"sessions"} \cup Meters

\* Counters that are not looked at end as soon as they can, and are asked for as little as possible.
QuotaPart ==
    /\ QuotaNext
    /\ \A m \in Meters \ {part} : lasts[m] = "timed" => counter'[m] = 0
    /\ \A q \in Uploaders :
        /\ uploader'[q].stage # "idle" => (uploader'[q].whole <=> part # "calls")
        /\ part # "bytes" => uploader'[q].bytes = 0
        /\ part # "files" => uploader'[q].files <= 1

MCNext ==
    /\ \/ part = "sessions" /\ Next /\ UNCHANGED quotaVars
       \/ part \in Meters /\ QuotaPart /\ UNCHANGED vars
    /\ UNCHANGED part

MCSpec == MCInit /\ [][MCNext]_<<vars, quotaVars, part>>

\* An upload is let in within its quota, unless requests overlapped, and nobody is refused
\* for more than was asked for; and every variable of both modules has its type.
UploadSound == TypeOK /\ QuotaSound

\* Requests, files, rows and sessions are interchangeable.
Symmetry ==
    Permutations(Procs) \cup Permutations(Files) \cup Permutations(Resources) \cup Permutations(Sessions)
    \cup Permutations(Uploaders)
=============================================================================
