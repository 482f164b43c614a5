------------------------------ MODULE UploadQuota ------------------------------
(***************************************************************************)
(* How much one user may ask for: the counters in Redis that limit calls   *)
(* in an hour, and bytes and files of uploads in a day.                    *)
(*                                                                         *)
(* A call is counted by INCR, and a counter that has no time to live gets  *)
(* one by a command that follows.  Bytes and files are counted as one call *)
(* first, and then the counter is set to what was read, less one, plus     *)
(* what is asked for, with a whole day to live.  Refused requests count    *)
(* like others.  Between two of these commands another request may count,  *)
(* and the counter may end.                                                *)
(***************************************************************************)
EXTENDS FiniteSets, Integers

CONSTANTS
    Uploaders,  \* request goroutines of the user
    Batches,    \* what an upload may ask for: [bytes, files]
    CallLimit,  \* limits of calls, bytes and files
    ByteLimit,
    FileLimit,
    MaxCounter  \* bound: counters, and what is asked for, are not raised beyond

ASSUME QuotaAssumption ==
    /\ Batches \subseteq [bytes : Nat, files : Nat]
    /\ {CallLimit, ByteLimit, FileLimit, MaxCounter} \subseteq Nat

Meters == {"calls", "bytes", "files"}

Limit == [m \in Meters |-> CASE m = "calls" -> CallLimit [] m = "bytes" -> ByteLimit [] m = "files" -> FileLimit]

VARIABLES
    counter,  \* keys ratelimit:*: the value, zero if the key is not there
    lasts,    \* whether the key is not there, lives for ever or for a time
    uploader, \* the request every goroutine is serving
    granted,  \* history: what was let through since the key was made, until it is spoilt by a race
    asked,    \* history: what was asked for since the key was made, until one that ended is carried over
    spoilt,   \* what has come between the commands of a request that set the key
    broken    \* keys whose EXPIRE a request failed to send

quotaVars == <<counter, lasts, uploader, granted, asked, spoilt, broken>>

Spoils == {"raced", "outlived"}

\* whole: an upload, not just a limited call; since: what has happened to the key since current was read.
AtRest ==
    [stage |-> "idle", whole |-> FALSE, meter |-> "calls", bytes |-> 0, files |-> 0, current |-> 0, since |-> {}]

QuotaInit ==
    /\ counter = [m \in Meters |-> 0] /\ lasts = [m \in Meters |-> "ended"]
    /\ uploader = [q \in Uploaders |-> AtRest]
    /\ granted = [m \in Meters |-> 0] /\ asked = [m \in Meters |-> 0]
    /\ spoilt = [m \in Meters |-> {}] /\ broken = {}

\* What a request asks of a counter.
Weight(q) ==
    CASE uploader[q].meter = "calls" -> 1
      [] uploader[q].meter = "bytes" -> uploader[q].bytes
      [] uploader[q].meter = "files" -> uploader[q].files

-----------------------------------------------------------------------------
\* AuthenticatedRateLimit, IPBasedRateLimit, enforceSingleWindowLimit: just one counter.
BeginCall(q) ==
    /\ uploader[q].stage = "idle"
    /\ uploader' = [uploader EXCEPT ![q].stage = "count"]
    /\ UNCHANGED <<counter, lasts, granted, asked, spoilt, broken>>

\* enforceUploadRateLimit, after the access check: three counters, one after the other.
BeginUpload(q, batch) ==
    /\ uploader[q].stage = "idle"
    /\ uploader' = [uploader EXCEPT ![q] =
                       [AtRest EXCEPT !.stage = "count", !.whole = TRUE,
                                      !.bytes = batch.bytes, !.files = batch.files]]
    /\ UNCHANGED <<counter, lasts, granted, asked, spoilt, broken>>

\* What requests that have counted on m and are to set it are left with when event happens.
Noticed(others, m, event) ==
    [r \in Uploaders |->
        IF r \in others /\ m # "calls" /\ uploader[r].meter = m /\ uploader[r].stage \in {"expire", "set"}
        THEN [uploader[r] EXCEPT !.since = @ \cup {event}] ELSE uploader[r]]

\* On to the next counter, if there is one; what was read from the last one is not used again.
Onward(now) ==
    LET next(m, bytes) ==
            [now EXCEPT !.stage = "count", !.meter = m, !.bytes = bytes, !.current = 0, !.since = {}] IN
    CASE ~now.whole \/ now.meter = "files" -> AtRest
      [] now.whole /\ now.meter = "calls" -> next("bytes", now.bytes)
      [] now.whole /\ now.meter = "bytes" -> next("files", 0)

\* A limit is passed once before it holds: UploadSound.
FaultyOver(m, n) == n > Limit[m] + 1

Over(m, n) == n > Limit[m]

\* A refused upload is also counted as abuse: Access.
\* What follows RateLimit: calls above the limit are refused; bytes and files are judged when set.
Judged(now) ==
    CASE now.meter = "calls" /\ Over("calls", now.current) -> AtRest
      [] now.meter = "files" \/ (now.meter = "bytes" /\ now.bytes > 0) -> [now EXCEPT !.stage = "set"]
      [] OTHER -> Onward(now)

\* INCR and TTL in one transaction.
CountCall(q) ==
    LET m == uploader[q].meter
        n == counter[m] + 1
        now == [uploader[q] EXCEPT !.current = n] IN
    /\ uploader[q].stage = "count" /\ {n, asked[m]} \subseteq 0 .. MaxCounter
    /\ counter' = [counter EXCEPT ![m] = n]
    /\ lasts' = [lasts EXCEPT ![m] = IF @ = "ended" THEN "for ever" ELSE @]
    /\ granted' = [granted EXCEPT ![m] = IF m = "calls" /\ ~Over(m, n) THEN @ + 1 ELSE @]
    /\ asked' = [asked EXCEPT ![m] =
                    IF "outlived" \in spoilt[m] THEN 0 ELSE @ + IF Weight(q) = 0 THEN 1 ELSE Weight(q)]
    /\ uploader' = [Noticed(Uploaders \ {q}, m, "raced") EXCEPT ![q] =
                       IF n = 1 \/ lasts[m] # "timed" THEN [now EXCEPT !.stage = "expire"] ELSE Judged(now)]
    /\ UNCHANGED <<spoilt, broken>>

\* A counter gets a time to live only with its first call: UploadSound.
FaultyTimed(m) == IF counter[m] = 1 THEN "timed" ELSE lasts[m]

Timed(m) == IF lasts[m] = "ended" THEN "ended" ELSE "timed"

\* EXPIRE.
ExpireCounter(q) ==
    LET m == uploader[q].meter IN
    /\ uploader[q].stage = "expire"
    /\ lasts' = [lasts EXCEPT ![m] = Timed(m)]
    /\ broken' = broken \ {m}
    /\ uploader' = [uploader EXCEPT ![q] = Judged(@)]
    /\ UNCHANGED <<counter, granted, asked, spoilt>>

\* The call that INCR counted is not taken off: UploadSound.
FaultyRaised(q) == uploader[q].current + Weight(q)

Raised(q) == uploader[q].current - 1 + Weight(q)

\* SET, and the verdict.
SetCounter(q) ==
    LET m == uploader[q].meter
        n == Raised(q)
        spoils == spoilt[m] \cup uploader[q].since IN
    /\ uploader[q].stage = "set"
    /\ counter' = [counter EXCEPT ![m] = n]
    /\ lasts' = [lasts EXCEPT ![m] = "timed"]
    /\ broken' = broken \ {m}
    /\ granted' = [granted EXCEPT ![m] =
                      IF "raced" \in spoils THEN 0 ELSE IF Over(m, n) THEN @ ELSE @ + Weight(q)]
    /\ asked' = [asked EXCEPT ![m] = IF "outlived" \in spoils THEN 0 ELSE @]
    /\ spoilt' = [spoilt EXCEPT ![m] = spoils]
    /\ uploader' = [Noticed(Uploaders \ {q}, m, "raced") EXCEPT ![q] = IF Over(m, n) THEN AtRest ELSE Onward(@)]

\* Redis or the access check fails.
FailUpload(q) ==
    /\ uploader[q].stage # "idle"
    /\ broken' = IF uploader[q].stage = "expire" THEN broken \cup {uploader[q].meter} ELSE broken
    /\ uploader' = [uploader EXCEPT ![q] = AtRest]
    /\ UNCHANGED <<counter, lasts, granted, asked, spoilt>>

EndCounter(m) ==
    /\ lasts[m] = "timed"
    /\ counter' = [counter EXCEPT ![m] = 0] /\ lasts' = [lasts EXCEPT ![m] = "ended"]
    /\ granted' = [granted EXCEPT ![m] = 0] /\ asked' = [asked EXCEPT ![m] = 0]
    /\ spoilt' = [spoilt EXCEPT ![m] = {}] /\ broken' = broken \ {m}
    /\ uploader' = Noticed(Uploaders, m, "outlived")

QuotaNext ==
    \/ \E q \in Uploaders : BeginCall(q) \/ CountCall(q) \/ ExpireCounter(q) \/ SetCounter(q) \/ FailUpload(q)
    \/ \E q \in Uploaders, batch \in Batches : BeginUpload(q, batch)
    \/ \E m \in Meters : EndCounter(m)

QuotaSpec == QuotaInit /\ [][QuotaNext]_quotaVars

-----------------------------------------------------------------------------
\* Properties

QuotaTypeOK ==
    /\ \A m \in Meters : {counter[m], granted[m], asked[m]} \subseteq Nat
    /\ lasts \in [Meters -> {"ended", "for ever", "timed"}]
    /\ \A q \in Uploaders : /\ uploader[q].stage \in {"idle", "count", "expire", "set"}
                            /\ uploader[q].meter \in Meters /\ uploader[q].since \subseteq Spoils

\* In the life of a counter no more is let through than its limit, of bytes and files unless
\* another request counted between the two commands of one that set them.
QuotaKept == \A m \in Meters : "raced" \notin spoilt[m] => granted[m] <= Limit[m]

\* Nobody is refused for more than was asked for in the life of the counter, unless it ended
\* between the two commands of a request, which then carried the old count over.
NothingCountedTwice == \A m \in Meters : "outlived" \notin spoilt[m] => counter[m] <= asked[m]

\* A counter that never ends is about to get its end, or a request failed to send it.
CountersEnd ==
    \A m \in Meters :
        lasts[m] = "for ever" /\ m \notin broken =>
            \E q \in Uploaders : uploader[q].meter = m /\ uploader[q].stage = "expire"

QuotaSound == QuotaTypeOK /\ QuotaKept /\ NothingCountedTwice /\ CountersEnd
=============================================================================
