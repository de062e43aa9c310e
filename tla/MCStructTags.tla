---------------------------- MODULE MCStructTags ----------------------------
\* A small instance of StructTags for TLC.
EXTENDS StructTags, TLC

TagSymmetry == Permutations(Tags)
=============================================================================
