----------------------------- MODULE Statements ------------------------------
(***************************************************************************)
(* What a live session promises its consumer, whatever happens inside:     *)
(* statements are captioned in order, each captioned statement is resolved *)
(* at most once and only after its caption, nothing is sent once the event *)
(* stream is closed, and a stream that closes without the session having   *)
(* been cancelled has resolved every statement it captioned.               *)
(***************************************************************************)
EXTENDS Naturals

CONSTANT MaxStatements   \* bound: statements of one session

VARIABLES captioned, resolved, cancelled, closed

svars == <<captioned, resolved, cancelled, closed>>

StatementIds == 1 .. MaxStatements

Init ==
  /\ captioned = {}
  /\ resolved = {}
  /\ cancelled = FALSE
  /\ closed = FALSE

Caption(i) ==
  /\ ~closed
  /\ captioned = 1 .. i - 1
  /\ captioned' = captioned \cup {i}
  /\ UNCHANGED <<resolved, cancelled, closed>>

Resolve(i) ==
  /\ ~closed
  /\ i \in captioned \ resolved
  /\ resolved' = resolved \cup {i}
  /\ UNCHANGED <<captioned, cancelled, closed>>

CancelSession ==
  /\ ~cancelled
  /\ cancelled' = TRUE
  /\ UNCHANGED <<captioned, resolved, closed>>

Close ==
  /\ ~closed
  /\ cancelled \/ captioned = resolved
  /\ closed' = TRUE
  /\ UNCHANGED <<captioned, resolved, cancelled>>

Next == \/ \E i \in StatementIds : Caption(i) \/ Resolve(i)
        \/ CancelSession
        \/ Close

Spec == Init /\ [][Next]_svars
==============================================================================
