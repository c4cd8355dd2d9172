---------------------------- MODULE MCNativeRead ----------------------------
(***************************************************************************)
(* Scenarios of NativeRead for TLC.                                        *)
(***************************************************************************)
EXTENDS NativeRead

None == [lose |-> 0, slow |-> 0, busy |-> 0, fails |-> 0, writes |-> 0]
Sc(len, deny, destroy, lossy, max) ==
  [len |-> len, deny |-> deny, destroy |-> destroy, lossy |-> lossy, max |-> max, left |-> max]

MCConfs ==
  { \* lost response frames or READ_ACKs, a changing memory, no room once
    Sc(<<2, 1>>, {}, {}, {"data"}, [None EXCEPT !.lose = 1]),
    Sc(<<1, 1>>, {}, {}, {"ack"}, [None EXCEPT !.lose = 1]),
    Sc(<<2>>, {}, {}, {"data", "ack"}, [None EXCEPT !.lose = 2, !.busy = 1, !.writes = 1]),
    \* a lost request or status frame, a timer that expires early
    Sc(<<0, 1>>, {}, {}, Wires, [None EXCEPT !.lose = 1]),
    Sc(<<1, 1>>, {}, {}, {}, [None EXCEPT !.slow = 1]),
    Sc(<<2>>, {}, {}, {"data"}, [None EXCEPT !.slow = 2, !.lose = 1]),
    \* more reads than the send queue holds, a denied read, a failing path
    Sc(<<0, 0, 0>>, {}, {}, {}, None),
    Sc(<<1, 1>>, {1}, {}, {}, None),
    Sc(<<1, 1>>, {}, {}, {}, [None EXCEPT !.fails = 1]),
    Sc(<<2>>, {}, {}, {"data", "ack"}, [None EXCEPT !.fails = 1, !.lose = 1]),
    \* destroys
    Sc(<<1>>, {}, Ends, {}, None),
    Sc(<<0, 1>>, {}, {"a"}, {}, None) }
====
