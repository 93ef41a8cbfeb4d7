------------------------------- MODULE MCDesk --------------------------------
(***************************************************************************)
(* What a user hands in: documents with their page (Documents) and the     *)
(* video library (Library), each with the server that may stop in the      *)
(* middle.  They keep their rows and objects apart, so a behaviour moves   *)
(* one of them, `part`, and leaves the other at rest: a run pays their     *)
(* sum, not their product.  The document moves either alone, with every    *)
(* race of its requests, or under a page, with smaller bounds.             *)
(***************************************************************************)
EXTENDS Documents, Library, TLC

CONSTANTS s1, s2, q1, q2

VARIABLE part

MCServers == {s1, s2}
MCRequests == {q1, q2}
MCSubmitters == {q1, q2}

PageRequests == {q1}    \* bound: the requests that move under a page
\* Servers stopped, calls failed and documents deleted, and their bounds.
Troubles == stops + faults + (IF deletion.pc = "none" THEN 0 ELSE 1)
AloneTroubles == 2
PageTroubles == 1

DocumentsMove == part \in {"document", "page"}
LibraryMoves  == part = "library"

\* Servers are alike: the first one up is s1.
InitDesk ==
  /\ part \in {"document", "page", "library"}
  /\ ViewerInit /\ up = {s1} /\ InitLibrary

\* Requests are alike: q1 comes first.
Alone ==
  /\ part = "document" /\ Next /\ UNCHANGED viewer
  /\ Troubles' <= AloneTroubles
  /\ request'[q2].pc # "new" => request'[q1].pc # "new"

UnderPage ==
  /\ part = "page" /\ ViewerNext
  /\ Troubles' <= PageTroubles
  /\ \A q \in Requests \ PageRequests : request'[q] = request[q]

NextDesk ==
  \/ (Alone \/ UnderPage) /\ UNCHANGED <<part, libraryVars>>
  \/ LibraryMoves /\ NextLibrary /\ UNCHANGED <<part, vars, viewer>>

\* The fairness of ViewerSpec and of LibraryFairSpec, each while its part moves.
DeskFairness ==
  /\ \A r \in RunIds : WF_vars(DocumentsMove /\ RunStep(r))
  /\ \A q \in Requests : WF_vars(DocumentsMove /\ RequestStep(q))
  /\ WF_vars(DocumentsMove /\ DeleteStep)
  /\ WF_vars(DocumentsMove /\ up = {} /\ \E s \in Servers : Boot(s))
  /\ WF_<<vars, viewer>>(DocumentsMove /\ ViewerStep)
  /\ \A k \in 1 .. MaxIngests : WF_libraryVars(LibraryMoves /\ k \in DOMAIN ingests /\ IngestStep(k))
  /\ WF_libraryVars(LibraryMoves /\ (JobRequest \/ Arrive \/ Break \/ JobConfirm))
  /\ \A d \in 1 .. MaxDeletes :
       WF_libraryVars(LibraryMoves /\ d \in DOMAIN deletes /\ (DeleteVideoObject(d) \/ DeleteVideoRow(d)))

DeskSpec == InitDesk /\ [][NextDesk]_<<part, vars, viewer, libraryVars>> /\ DeskFairness

\* What a document and its page show, and what the library holds, is true.
DeskSound == DocumentsSound /\ LibrarySound

\* What was written stays: the results of the last analysis, an extraction,
\* a video that is ready.
RecordsKept == ResultsKept /\ ExtractedOnce /\ ReadyIsFinal

\* Analyses, pages and downloads come to their end, unless the write that
\* records it was lost.
DeskEnds == AnalysisEnds /\ PageCatchesUp /\ PendingEnds
==============================================================================
