------------------------- MODULE ConnectionLifecycle -------------------------
(***************************************************************************)
(* What TcpServer promises the application of one connection: it comes up  *)
(* once and goes down once, in that order, and the object is destroyed     *)
(* last.  As long as the server is serving, a connection is not destroyed  *)
(* before the application was told that it is down.  TcpServer.tla         *)
(* implements this module for each of its connections.                     *)
(***************************************************************************)
EXTENDS Naturals

VARIABLES stage,             \* "none", "connecting", "up", "down", "freed"
          ups, downs,        \* connection callbacks made
          serving

vars == <<stage, ups, downs, serving>>

Init == stage = "none" /\ ups = 0 /\ downs = 0 /\ serving = TRUE

Accept == /\ stage = "none" /\ serving
          /\ stage' = "connecting"
          /\ UNCHANGED <<ups, downs, serving>>

\* On the base loop the connection is established in place.
AcceptUp == /\ stage = "none" /\ serving
            /\ stage' = "up" /\ ups' = ups + 1
            /\ UNCHANGED <<downs, serving>>

Up == /\ stage = "connecting"
      /\ stage' = "up" /\ ups' = ups + 1
      /\ UNCHANGED <<downs, serving>>

Down == /\ stage = "up"
        /\ stage' = "down" /\ downs' = downs + 1
        /\ UNCHANGED <<ups, serving>>

Free == /\ stage = "down" \/ (~serving /\ stage \in {"connecting", "up"})
        /\ stage' = "freed"
        /\ UNCHANGED <<ups, downs, serving>>

Stop == serving' = FALSE /\ UNCHANGED <<stage, ups, downs>>

Next == Accept \/ AcceptUp \/ Up \/ Down \/ Free \/ Stop

Spec == Init /\ [][Next]_vars
=============================================================================
