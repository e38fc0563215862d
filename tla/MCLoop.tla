------------------------------- MODULE MCLoop -------------------------------
(***************************************************************************)
(* The loop, with two idle watchers and a timer; a stream; a listening     *)
(* stream or ipc pipe; a UDP socket; and the texts of their addresses.     *)
(* They share nothing in the models: the first choice of a behaviour is    *)
(* which of them it is about.                                              *)
(***************************************************************************)
EXTENDS Loop, Stream, Server, Udp, Inet

VARIABLE part

CONSTANTS i1, i2, t1

MCKindOf == (i1 :> "idle") @@ (i2 :> "idle") @@ (t1 :> "timer")

MCInit ==
    /\ part \in {"loop", "stream", "server", "udp", "inet"}
    /\ Init /\ StreamInit /\ ServerInit /\ UdpInit /\ InetInit
    /\ part # "server" => server = NewServer("tcp")
    /\ part # "udp" => udp = uv_udp_init(FALSE)

MCNext ==
    \/ /\ part = "loop" /\ part' = part /\ Next
       /\ UNCHANGED <<streamVars, serverVars, udpVars, inetVars>>
    \/ /\ part = "stream" /\ part' = part /\ StreamNext
       /\ UNCHANGED <<vars, serverVars, udpVars, inetVars>>
    \/ /\ part = "server" /\ part' = part /\ ServerNext
       /\ UNCHANGED <<vars, streamVars, udpVars, inetVars>>
    \/ /\ part = "udp" /\ part' = part /\ UdpNext
       /\ UNCHANGED <<vars, streamVars, serverVars, inetVars>>
    \/ /\ part = "inet" /\ part' = part /\ InetNext
       /\ UNCHANGED <<vars, streamVars, serverVars, udpVars>>

MCSpec == MCInit /\ [][MCNext]_<<part, vars, streamVars, serverVars, udpVars, inetVars>>
=============================================================================
