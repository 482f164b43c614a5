-------------------------------- MODULE Review --------------------------------
(***************************************************************************)
(* What handling a case promises: reports, corrections and requests to add *)
(* a teacher or a course are filed by a user and decided by a reviewer.    *)
(*                                                                         *)
(* A case is decided only by a reviewer who has seen it pending; the       *)
(* decision and the message that tells the user are one step.  The reviews *)
(* of one case may overlap, and then a later decision replaces an earlier  *)
(* one; nobody who comes after the first decision changes it.              *)
(***************************************************************************)
CONSTANTS
    Cases,      \* what can be filed
    Reviewers,  \* who decides
    Nothing     \* a reviewer's case when there is none

VARIABLES
    verdict,    \* how far every case is
    reviewing,  \* the case every reviewer has seen pending
    messages    \* the verdicts the user of a case was told

reviewVars == <<verdict, reviewing, messages>>

Verdicts == {"accepted", "rejected"}

Init ==
    /\ verdict = [c \in Cases |-> "none"]
    /\ reviewing = [r \in Reviewers |-> Nothing]
    /\ messages = [c \in Cases |-> {}]

File(c) ==
    /\ verdict[c] = "none"
    /\ verdict' = [verdict EXCEPT ![c] = "pending"]
    /\ UNCHANGED <<reviewing, messages>>

Open(r, c) ==
    /\ reviewing[r] = Nothing
    /\ verdict[c] = "pending"
    /\ reviewing' = [reviewing EXCEPT ![r] = c]
    /\ UNCHANGED <<verdict, messages>>

Decide(r, v) ==
    LET c == reviewing[r] IN
    /\ c # Nothing
    /\ verdict' = [verdict EXCEPT ![c] = v]
    /\ messages' = [messages EXCEPT ![c] = @ \cup {v}]
    /\ reviewing' = [reviewing EXCEPT ![r] = Nothing]

\* A review that ends without a decision.
Abandon(r) ==
    /\ reviewing[r] # Nothing
    /\ reviewing' = [reviewing EXCEPT ![r] = Nothing]
    /\ UNCHANGED <<verdict, messages>>

Next ==
    \/ \E c \in Cases : File(c)
    \/ \E r \in Reviewers, c \in Cases : Open(r, c)
    \/ \E r \in Reviewers, v \in Verdicts : Decide(r, v)
    \/ \E r \in Reviewers : Abandon(r)

Spec == Init /\ [][Next]_reviewVars

-----------------------------------------------------------------------------
\* What the promise implies

\* The user was told the verdict that stands.
Told == \A c \in Cases : verdict[c] \in Verdicts => verdict[c] \in messages[c]

\* A decision that stands is replaced only by a reviewer who began before it.
Final ==
    [][\A c \in Cases :
          verdict[c] \in Verdicts /\ verdict'[c] # verdict[c] => \E r \in Reviewers : reviewing[r] = c]_reviewVars
=============================================================================
