-------------------------- MODULE MCDeviceControls --------------------------
EXTENDS DeviceControls

\* A controller of another family, without a mask, whose speed may not be
\* written, and one whose mask excludes what older versions offered.
SomeKinds ==
  {[restricted |-> TRUE, shared |-> FALSE, advertised |-> FALSE, allowed |-> {}],
   [restricted |-> FALSE, shared |-> TRUE, advertised |-> TRUE, allowed |-> {"advanced"}]}

\* One caller changes what the other restores.
MCWanted == [c \in {"ha", "script"} |-> IF c = "ha" THEN "new" ELSE "old"]
=============================================================================
