--------------------------- MODULE MCBinaryUpdate ---------------------------
EXTENDS BinaryUpdate

\* Build 2 is a re-release of version 2; build 3 is newer.
MCVersionOf == [b \in Builds |-> IF b = 0 THEN 1 ELSE IF b <= 2 THEN 2 ELSE 3]
=============================================================================
