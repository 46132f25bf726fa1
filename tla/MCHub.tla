--------------------------------- MODULE MCHub ---------------------------------
(* Constants for the runs of Hub.                                            *)
EXTENDS Hub

CONSTANTS s1, s2

\* One target's changes fill a channel and drop a message; the other's meet them
\* in the channel and under the lock.
MCMaxVersion == [s \in Senders |-> IF s = s1 THEN 3 ELSE 1]
===============================================================================
