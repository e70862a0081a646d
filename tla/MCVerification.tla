---------------------------- MODULE MCVerification ----------------------------
(* A certificate authority that renewed its root under the same name, an     *)
(* intermediate below each root, and two signing keys, one of which expires. *)
EXTENDS Verification

Cert(subject, issuer, key, by, ca, until) ==
    [subject |-> subject, issuer |-> issuer, key |-> key, by |-> by, ca |-> ca,
     from |-> 0, until |-> until]

OldRoot == Cert("root", "root", "kr1", "kr1", TRUE, 9)
NewRoot == Cert("root", "root", "kr2", "kr2", TRUE, 9)
OtherRoot == Cert("other", "other", "ko", "ko", TRUE, 9)
Inter == Cert("inter", "root", "ki1", "kr1", TRUE, 9)
NewInter == Cert("inter", "root", "ki2", "kr2", TRUE, 9)
NoCa == Cert("inter", "root", "ki1", "kr1", FALSE, 9)
Cross == Cert("cross", "inter", "ki1", "ki1", TRUE, 9)
LoopInter == Cert("inter", "cross", "ki1", "ki1", TRUE, 9)
Leaf == Cert("tsa", "inter", "kl", "ki1", FALSE, 1)
DirectLeaf == Cert("tsa", "root", "kl", "kr1", FALSE, 9)

PublicLog == Cert("rekor", "rekor", "kp", "kp", FALSE, 9)
OwnLog == Cert("rekor", "rekor", "kq", "kq", FALSE, 9)
TheLogs == {PublicLog, OwnLog}
TheMockCert == Cert("mock", "mock", "km", "km", FALSE, 9)
TheIssuances ==
    {[leaf |-> Leaf, chain |-> c] :
        c \in {<<Leaf, Inter>>, <<Leaf, NewInter, Inter>>, <<Leaf, NoCa>>, <<Leaf, LoopInter, Cross>>}}
TheLeaves == {Leaf, DirectLeaf}
TheTrustLists == {{}, {<<>>}, {<<OldRoot>>}, {<<NewRoot, OldRoot>>},
                   {<<OtherRoot, OldRoot>>}}
From == [k1 |-> 0, k2 |-> 1]
Until == [k1 |-> 1, k2 |-> 2]
=============================================================================
