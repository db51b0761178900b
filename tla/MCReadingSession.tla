-------------------------- MODULE MCReadingSession --------------------------
(* Instances of ReadingSession for TLC: books are interchangeable.         *)
EXTENDS ReadingSession, TLC

BookSymmetry == Permutations(Books)
=============================================================================
