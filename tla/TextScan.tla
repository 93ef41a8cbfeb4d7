------------------------------ MODULE TextScan -------------------------------
(***************************************************************************)
(* The two rune-by-rune scans of internal/service/live.go, sentenceCount   *)
(* and incompleteTrailingFragment, run side by side over a growing text    *)
(* and checked against what they are meant to count.  It is what allows    *)
(* TextShape, and LiveAnalyzer on top of it, to see three numbers instead  *)
(* of a text.  A rune is its class: white space, terminator, anything else.*)
(***************************************************************************)
EXTENDS TextShape, Sequences, FiniteSets

CONSTANT MaxLength    \* bound: runes of a text

ASSUME MaxLengthAssumption == MaxLength \in Nat

VARIABLES
  text,          \* the runes read so far
  terminators, words, prevTerm, inWord,    \* sentenceCount
  trailingWords, inOpenWord                \* incompleteTrailingFragment

scanVars == <<text, terminators, words, prevTerm, inWord, trailingWords, inOpenWord>>

Runes == {"space", "stop", "letter"}

ScanTypeOK ==
  /\ text \in Seq(Runes) /\ Len(text) <= MaxLength
  /\ terminators \in 0 .. Len(text)
  /\ words \in 0 .. Len(text)
  /\ trailingWords \in 0 .. words
  /\ prevTerm \in BOOLEAN /\ inWord \in BOOLEAN /\ inOpenWord \in BOOLEAN

InitScan ==
  /\ text = << >>
  /\ terminators = 0 /\ words = 0 /\ prevTerm = FALSE /\ inWord = FALSE
  /\ trailingWords = 0 /\ inOpenWord = FALSE

\* Mutant: every terminator of a run is counted.
CountSentencesEach(r) ==
  /\ inWord' = (r # "space")
  /\ words' = IF r # "space" /\ ~inWord THEN words + 1 ELSE words
  /\ terminators' = IF r = "stop" THEN terminators + 1 ELSE terminators
  /\ prevTerm' = (r = "stop")

\* One iteration of sentenceCount's loop.
CountSentences(r) ==
  /\ inWord' = (r # "space")
  /\ words' = IF r # "space" /\ ~inWord THEN words + 1 ELSE words
  /\ terminators' = IF r = "stop" /\ ~prevTerm THEN terminators + 1
                    ELSE terminators
  /\ prevTerm' = (r = "stop")

\* One iteration of incompleteTrailingFragment's.
CountTrailing(r) ==
  CASE r = "space"  -> inOpenWord' = FALSE /\ UNCHANGED trailingWords
    [] r = "stop"   -> inOpenWord' = FALSE /\ trailingWords' = 0
    [] r = "letter" -> /\ inOpenWord' = TRUE
                       /\ trailingWords' = IF inOpenWord THEN trailingWords
                                           ELSE trailingWords + 1

ReadWord(r) ==
  /\ Len(text) < MaxLength
  /\ text' = Append(text, r)
  /\ CountSentences(r)
  /\ CountTrailing(r)

NextScan == \E r \in Runes : ReadWord(r)

ScanSpec == InitScan /\ [][NextScan]_scanVars

-----------------------------------------------------------------------------
(* What a reader counts in a text t.                                       *)

Before(t, k) == IF k = 1 THEN "space" ELSE t[k - 1]

StopRuns(t) == {k \in 1 .. Len(t) : t[k] = "stop" /\ Before(t, k) # "stop"}
WordStarts(t) == {k \in 1 .. Len(t) : t[k] # "space" /\ Before(t, k) = "space"}
OpenWords(t) ==
  {k \in 1 .. Len(t) : /\ t[k] = "letter" /\ Before(t, k) # "letter"
                       /\ \A j \in k .. Len(t) : t[j] # "stop"}

ShapeOf(t) == [stops |-> Cardinality(StopRuns(t)),
               words |-> Cardinality(WordStarts(t)),
               tail  |-> Cardinality(OpenWords(t))]

\* Both scans count what a reader counts, whatever run of spaces, terminators
\* and letters the text is ("?!" is one boundary, "3.5" is one word), and what
\* they count is a shape.
ScansAgree ==
  /\ [stops |-> terminators, words |-> words, tail |-> trailingWords] = ShapeOf(text)
  /\ ShapeOf(text) \in Shapes

\* Joining two texts with a space, as combinedText does, joins their shapes,
\* wherever the first one broke off.
SpaceJoins ==
  \A k \in 1 .. Len(text) :
    text[k] = "space" =>
      ShapeOf(text) = Joined(ShapeOf(SubSeq(text, 1, k - 1)),
                             ShapeOf(SubSeq(text, k + 1, Len(text))))

\* Sentences counted per segment never fall short of those of the whole unit:
\* the cap on the sum bounds the combined text (sentenceCount in analyzeLoop).
CapBoundsUnit ==
  \A k \in 1 .. Len(text) :
    text[k] = "space" =>
      SentenceCount(ShapeOf(text))
        <= SentenceCount(ShapeOf(SubSeq(text, 1, k - 1)))
           + SentenceCount(ShapeOf(SubSeq(text, k + 1, Len(text))))

\* The scans are typed, count what a reader counts, and can be added up.
ScansSound == ScanTypeOK /\ ScansAgree /\ SpaceJoins /\ CapBoundsUnit
==============================================================================
