------------------------------ MODULE TextShape ------------------------------
(***************************************************************************)
(* What the live analyzer reads in a text: how many runs of sentence       *)
(* terminators it has, how many words, and how many words follow the last  *)
(* terminator.  internal/service/live.go decides unit boundaries and holds *)
(* from these three numbers only; TextScan checks that the byte-level      *)
(* scans of the code compute them.                                         *)
(***************************************************************************)
EXTENDS Naturals

CONSTANT WordsPerSentence    \* maxWordsPerSentence (25 in the code)

ASSUME WordsPerSentenceAssumption == WordsPerSentence \in Nat \ {0}

\* A text with no terminator is all tail.
Shapes == {s \in [stops : Nat, words : Nat, tail : Nat] :
             /\ s.tail <= s.words
             /\ s.stops = 0 => s.tail = s.words}

NoText == [stops |-> 0, words |-> 0, tail |-> 0]

Larger(a, b) == IF a > b THEN a ELSE b

\* sentenceCount: terminator runs or 25-word stretches, whichever is more, and
\* at least one for any text that has a word.
SentenceCount(s) ==
  IF s.words = 0
  THEN 0
  ELSE Larger(1, Larger(s.stops,
                        (s.words + WordsPerSentence - 1) \div WordsPerSentence))

\* incompleteTrailingFragment: an open run shorter than a sentence's worth.
IncompleteTrailingFragment(s) == s.tail > 0 /\ s.tail < WordsPerSentence

\* combinedText puts one space between two texts, so no word and no run of
\* terminators spans the joint.
Joined(s, t) ==
  [stops |-> s.stops + t.stops,
   words |-> s.words + t.words,
   tail  |-> IF t.stops > 0 THEN t.tail ELSE s.tail + t.tail]
==============================================================================
