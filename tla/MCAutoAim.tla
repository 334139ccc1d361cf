------------------------------- MODULE MCAutoAim ------------------------------
EXTENDS AutoAim

MCPriority == [kind \in Kinds |-> IF kind = "hero" THEN 1 ELSE 2]
MCPlates == [kind \in Kinds |-> IF kind = "hero" THEN 4 ELSE 3]
=============================================================================
