--------------------------------- MODULE Sums ---------------------------------
(* The sum of a sequence of numbers.                                         *)
EXTENDS Integers, Sequences, SequencesExt

Sum(numbers) == FoldLeft(LAMBDA total, n : total + n, 0, numbers)
=============================================================================
