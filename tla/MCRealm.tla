---------------------------------- MODULE MCRealm ----------------------------------
(* Members come and go in a nation with an officer, and a second one may be     *)
(* founded; money moves in two nations, one without officers; the alliance of   *)
(* two may get a third; the council has three.                                  *)
EXTENDS Realm, TLC

CONSTANTS n1, n2, n3, u1, u2, u3

Leaders(m) ==
    CASE m = "members" -> n1 :> u1
      [] m = "money"   -> (n1 :> u1) @@ (n2 :> u3)
      [] OTHER         -> (n1 :> u1) @@ (n2 :> u2) @@ (n3 :> u3)

MCLeader == [m \in Mixes |-> [n \in Nations |-> IF n \in DOMAIN Leaders(m) THEN Leaders(m)[n] ELSE None]]
MCOfficers == [m \in Mixes |-> [n \in Nations |-> IF m = "members" /\ n = n1 THEN {u2} ELSE {}]]
MCOpened ==
    {[NoMotion EXCEPT !.status = "open", !.by = n2, !.what = what] :
        what \in {Change("remove", None, n3, 0), Change("transfer", n3, n1, 2)}}
MCPact == [m \in Mixes |-> IF m = "council" THEN {n1, n2, n3}
                           ELSE IF m \in {"money", "alliance"} THEN {n1, n2}
                           ELSE IF m = "members" THEN {n1} ELSE {}]
Symmetry == Permutations(Workers)
================================================================================
