-------------------------- MODULE MCSerialConnect --------------------------
EXTENDS SerialConnect
MCTestTicks == [b \in 0..MIN_BAUD |-> IF b = MIN_BAUD THEN 0 ELSE 33 + b]
MCStringTicks == [b \in 0..MIN_BAUD |-> 1]
MCCarries == [p \in Peers |-> 2..MIN_BAUD]
=============================================================================
