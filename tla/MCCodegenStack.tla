--------------------------- MODULE MCCodegenStack ---------------------------
\* Small instances of CodegenStack for TLC.
EXTENDS CodegenStack

MCLocalBytes == {0, 12}

MCOneFrame == {8}

MCLabelShapes == {Leaf, PostIncr}
=============================================================================
