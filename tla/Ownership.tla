------------------------------- MODULE Ownership -------------------------------
(***************************************************************************)
(* A domain-ownership challenge of one run (pipeline/ownership.py,         *)
(* api/ownership.py).  Verifying reads the challenge, looks for the token  *)
(* over the network, and writes what it found: nothing keeps two requests  *)
(* from doing so at once.                                                  *)
(***************************************************************************)
CONSTANTS
    Requests,     \* verify requests
    NoChallenge   \* no OwnershipChallenge row

VARIABLES
    challenge,  \* the row: [method, status, delivered]
    placed,     \* the registrant has put the token where it can be found
    verifying,  \* requests that read the challenge as pending
    proved      \* requests that wrote an evidence row

vars == <<challenge, placed, verifying, proved>>

Methods == {"dns_txt", "html_meta", "email"}

Init ==
    /\ challenge = NoChallenge
    /\ placed = FALSE
    /\ verifying = {}
    /\ proved = {}

\* The row is committed before the token is sent: a failed e-mail leaves a
\* pending challenge whose token nobody has.
Issue(method, delivered) ==
    /\ challenge = NoChallenge
    /\ method # "email" => delivered
    /\ challenge' = [method |-> method, status |-> "pending", delivered |-> delivered]
    /\ UNCHANGED <<placed, verifying, proved>>

\* The registrant publishes the token, or reads it in the mail.
Place ==
    /\ challenge # NoChallenge
    /\ challenge.delivered
    /\ ~placed
    /\ placed' = TRUE
    /\ UNCHANGED <<challenge, verifying, proved>>

\* A request reads the challenge; a verified one is answered at once.
Begin(r) ==
    /\ challenge # NoChallenge
    /\ challenge.status = "pending"
    /\ r \notin verifying \cup proved
    /\ verifying' = verifying \cup {r}
    /\ UNCHANGED <<challenge, placed, proved>>

\* The token is not there, the lookup failed, or a wrong token was submitted.
Miss(r) ==
    /\ r \in verifying
    /\ verifying' = verifying \ {r}
    /\ UNCHANGED <<challenge, placed, proved>>

\* The row read at Begin is not read again.
Hit(r) ==
    /\ r \in verifying
    /\ placed
    /\ challenge' = [challenge EXCEPT !.status = "verified"]
    /\ proved' = proved \cup {r}
    /\ verifying' = verifying \ {r}
    /\ UNCHANGED placed
=============================================================================
