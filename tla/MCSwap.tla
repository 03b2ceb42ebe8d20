------------------------------- MODULE MCSwap -------------------------------
EXTENDS Swap, TLC

\* The pages differ in nothing but their content.
MCSymmetry == Permutations(Pages)
=============================================================================
