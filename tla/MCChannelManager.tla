--------------------------- MODULE MCChannelManager ---------------------------
\* Instances of ChannelManager for TLC.
EXTENDS ChannelManager

\* Messages 1 and 2 are text for channel a, and the second has two chunks; 3 is
\* media and 4 a direct message for channel b.
TwoAndTwo == [m \in Msgs |-> IF m \in {1, 2} THEN "a" ELSE "b"]
OneThenTwo == [m \in Msgs |-> IF m = 2 THEN 2 ELSE 1]

\* Channel a is reconfigured, or removed, or b is added.
SomeChanges == {[added |-> {"a"}, removed |-> {"a"}],
                [added |-> {}, removed |-> {"a"}],
                [added |-> {"b"}, removed |-> {}]}
=============================================================================
