------------------------------ MODULE MCChannels -----------------------------
(***************************************************************************)
(* Four parts without fairness: the hub of a channel with two feeds and a  *)
(* viewer (TVHub), the screen that edits the channels (ChannelAdmin), the  *)
(* commands that seed claims, articles, clips and channels (Seeding) and   *)
(* the browser's own live session (LiveSession).  The seed's channels and  *)
(* the screen's are separate images of the table; the others share         *)
(* nothing.  A behaviour moves one of them, `part`, and leaves the others  *)
(* at rest: a run pays their sum, not their product.                       *)
(***************************************************************************)
EXTENDS TVHub, ChannelAdmin, Seeding, LiveSession, TLC

CONSTANTS ch, f1, f2, v1, c1, c2, w1, p1, t1, t1spaced, t2

VARIABLE part

OneChannel == [p \in Feeds \cup Viewers |-> ch]

\* One or two entries of each fixture; two texts differ in spacing only.
MCClaims == {c1, c2}
MCChunks == {w1}
MCPoliticals == {p1}
MCTexts == {t1, t1spaced, t2}
MCNormal == t1 :> 1 @@ t1spaced :> 1 @@ t2 :> 2
MCFirstTexts == c1 :> t1 @@ c2 :> t1spaced @@ w1 :> t1 @@ p1 :> t2
MCSelections == {{"claims", "wiki", "political"}, {"videos", "tvChannels"}}

InitChannels ==
  /\ part \in {"hub", "admin", "seeding", "browser"}
  /\ InitHub /\ InitSeeding /\ InitBrowser
  /\ InitAdmin /\ (part # "admin" => serial /\ channels[1].slug = CHOOSE slug \in Slugs : TRUE)

NextChannels ==
  \/ part = "hub"     /\ NextHub     /\ UNCHANGED <<part, adminVars, seedingVars, browserVars>>
  \/ part = "admin"   /\ NextAdmin   /\ UNCHANGED <<part, hubVars, seedingVars, browserVars>>
  \/ part = "seeding" /\ NextSeeding /\ UNCHANGED <<part, hubVars, adminVars, browserVars>>
  \/ part = "browser" /\ NextBrowser /\ UNCHANGED <<part, hubVars, adminVars, seedingVars>>

ChannelsSpec == InitChannels /\ [][NextChannels]_<<part, hubVars, adminVars, seedingVars, browserVars>>

FeedSymmetry == Permutations(Feeds)
==============================================================================
