--------------------------- MODULE ClaimLifecycle ----------------------------
(***************************************************************************)
(* What the verify path promises the reader of a claim's row, whatever     *)
(* happens inside: a claim is announced once, may be shown as being        *)
(* checked, and reaches one terminal state; a verified claim may have its  *)
(* verdict replaced by a deeper one, once, if both rest on evidence;       *)
(* nothing else ever changes a settled row.  A unit is finished only when  *)
(* its announced claims are settled, unless the session was cancelled.     *)
(***************************************************************************)
CONSTANTS Claims, Verdicts, NoVerdict

VARIABLES
  row,         \* row[c]: the claim's status and verdict as the reader sees them
  finished,    \* claims whose unit is done
  cancelled

lvars == <<row, finished, cancelled>>

Init ==
  /\ row = [c \in Claims |-> [status |-> "none", verdict |-> NoVerdict]]
  /\ finished = {}
  /\ cancelled = FALSE

Terminal(c) == row[c].status \in {"verified", "unchecked", "error"}

Put(c, status, verdict) ==
  row' = [row EXCEPT ![c] = [status |-> status, verdict |-> verdict]]

\* The claims of a unit appear together.
Announce(S) ==
  /\ \A c \in S : row[c].status = "none" /\ c \notin finished
  /\ row' = [c \in Claims |-> IF c \in S
               THEN [status |-> "pending", verdict |-> NoVerdict] ELSE row[c]]
  /\ UNCHANGED <<finished, cancelled>>

Check(c) ==
  /\ row[c].status = "pending"
  /\ Put(c, "checking", NoVerdict)
  /\ UNCHANGED <<finished, cancelled>>

Verify(c, v) ==
  /\ row[c].status \in {"pending", "checking"}
  /\ ~v.deep
  /\ Put(c, "verified", v)
  /\ UNCHANGED <<finished, cancelled>>

\* A verdict out of the cache may already be a deeper one.
Replay(c, v) ==
  /\ row[c].status = "pending"
  /\ Put(c, "verified", v)
  /\ UNCHANGED <<finished, cancelled>>

GiveUp(c, status) ==
  /\ row[c].status \in {"pending", "checking"}
  /\ status = "unchecked" => row[c].status = "checking"
  /\ Put(c, status, NoVerdict)
  /\ UNCHANGED <<finished, cancelled>>

Upgrade(c, v) ==
  /\ \/ row[c].status = "verified" /\ row[c].verdict.grounded /\ ~row[c].verdict.deep
     \/ cancelled /\ ~Terminal(c)    \* the first verdict's frame was dropped
  /\ v.grounded /\ v.deep
  /\ Put(c, "verified", v)
  /\ UNCHANGED <<finished, cancelled>>

Finish(S) ==
  /\ cancelled \/ \A c \in S : row[c].status = "none" \/ Terminal(c)
  /\ finished' = finished \cup S
  /\ UNCHANGED <<row, cancelled>>

CancelSession ==
  /\ ~cancelled
  /\ cancelled' = TRUE
  /\ UNCHANGED <<row, finished>>

Next ==
  \/ \E S \in SUBSET Claims : Announce(S) \/ Finish(S)
  \/ \E c \in Claims :
       \/ Check(c)
       \/ \E v \in Verdicts : Verify(c, v) \/ Replay(c, v) \/ Upgrade(c, v)
       \/ \E status \in {"unchecked", "error"} : GiveUp(c, status)
  \/ CancelSession

Spec == Init /\ [][Next]_lvars
==============================================================================
