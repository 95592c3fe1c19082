---------------------------- MODULE MCLinkProber ----------------------------
EXTENDS LinkProber

\* A command changes the sum.
MCContent == [c \in Commands |-> IF c = "None" THEN 1 ELSE 2]

\* The carries of a sum in twice the width, folded in at the end as
\* addChecksumCarryover does.
Folded(sum) ==
  LET once == (sum \div SeqModulus) + (sum % SeqModulus)
  IN  (once + once \div SeqModulus) % SeqModulus

\* Folding at once is the same, for three words.
ASSUME FoldedAtOnce ==
  \A a, b, c \in 0 .. SeqModulus - 1 : Folded(a + b + c) = Plus(Plus(a, b), c)
=============================================================================
