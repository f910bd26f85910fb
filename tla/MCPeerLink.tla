----------------------------- MODULE MCPeerLink -----------------------------
(* Instances of PeerLink for TLC. *)
EXTENDS PeerLink

CONSTANTS r1, r2, r3, t1, t2

TwoRequests == {r1, r2}
ThreeRequests == {r1, r2, r3}
TwoTags == {t1, t2}
OneShared == r1 :> t1 @@ r2 :> t1
SharedTag == r1 :> t1 @@ r2 :> t1 @@ r3 :> t2
=============================================================================
