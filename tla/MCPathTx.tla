------------------------------ MODULE MCPathTx ------------------------------
(***************************************************************************)
(* Small instances of PathTx: a native rail with credits, control frames,  *)
(* reservations and a raw page stream, and an Apple rail with quiesces.    *)
(***************************************************************************)
EXTENDS PathTx, TLC

CONSTANTS c1, r1, s1, p1, a1, a2

\* A control frame, a page stream and a reserved SEND of two frames on a native
\* rail whose ring may refuse.
SendRail ==
  [msg |-> {c1, p1, s1},
   shape |-> c1 :> <<"control">> @@ p1 :> <<"start", "end">> @@ s1 :> <<"data", "data">>,
   mode |-> c1 :> "control" @@ p1 :> "list" @@ s1 :> "reserved",
   frames |-> 3, inflight |-> 0, qlimit |-> 3, credits |-> 3, posts |-> 0,
   refuses |-> TRUE, quiesces |-> FALSE]

\* A control frame, a page stream, a read request and a READ response.
ReadRail ==
  [msg |-> {c1, p1, r1, s1},
   shape |-> c1 :> <<"control">> @@ p1 :> <<"start", "end">> @@ r1 :> <<"data">> @@ s1 :> <<"data">>,
   mode |-> c1 :> "control" @@ p1 :> "list" @@ r1 :> "one" @@ s1 :> "resp",
   frames |-> 2, inflight |-> 2, qlimit |-> 2, credits |-> 3, posts |-> 1,
   refuses |-> FALSE, quiesces |-> FALSE]

\* Two Apple SEND work requests, one of them of two frames.
AppleRail ==
  [msg |-> {a1, a2},
   shape |-> a1 :> <<"data", "data">> @@ a2 :> <<"data">>,
   mode |-> a1 :> "each" @@ a2 :> "each",
   frames |-> 3, inflight |-> 2, qlimit |-> 3, credits |-> 0, posts |-> 0,
   refuses |-> FALSE, quiesces |-> TRUE]

MCRails == {SendRail, ReadRail, AppleRail}
LiveRails == {ReadRail}
=============================================================================
