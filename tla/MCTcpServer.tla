---------------------------- MODULE MCTcpServer -----------------------------
(* Instances of TcpServer for TLC: what users do.                          *)
EXTENDS TcpServer, TLC

CONSTANTS u1, u2

Add(p) == [op |-> "add", port |-> p]
Remove(p) == [op |-> "remove", port |-> p]
Stop == [op |-> "stop", port |-> 0]

UsualCases ==
  { u1 :> << {Add(1)}, {Add(2), Remove(1)} >> @@ u2 :> << {Stop} >>,
    u1 :> << {Add(1)} >> @@ u2 :> << {Add(2)}, {Stop} >> }

OneAdds == {u1 :> << {Add(1)} >> @@ u2 :> << >>}
=============================================================================
