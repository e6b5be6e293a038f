------------------------------ MODULE MCInbox ------------------------------
EXTENDS Inbox

CONSTANTS g1, g2

M(g, t) == [group |-> g, time |-> t]
MCMessage == {M(g1, 1), M(g1, 2), M(g2, 1)}

\* A message, a reading and its sync; syncs of two devices and sends that fail; messages in any order
\* around a reading and a stop; two readings and one of another device;
\* syncs around a stop.
MCBounds ==
    {[messages |-> {M(g1, 1)}, reads |-> 1, sends |-> 1, foreigns |-> 0, stops |-> 0],
     [messages |-> {},         reads |-> 1, sends |-> 2, foreigns |-> 1, stops |-> 0],
     [messages |-> MCMessage,  reads |-> 1, sends |-> 0, foreigns |-> 0, stops |-> 1],
     [messages |-> {M(g1, 2)}, reads |-> 2, sends |-> 0, foreigns |-> 1, stops |-> 0],
     [messages |-> {},         reads |-> 1, sends |-> 1, foreigns |-> 1, stops |-> 1]}
=============================================================================
