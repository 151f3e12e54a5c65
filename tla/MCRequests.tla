---------------------------- MODULE MCRequests ----------------------------
(***************************************************************************)
(* Small machines for the requests.                                        *)
(***************************************************************************)
EXTENDS Requests, TLC

\* One node; a second node with a single core; a first node in two pieces and a
\* node without cores; a node number that is missing.
ThreeCores == { 0 :> << <<0, 2>> >>,
                0 :> << <<0, 1>> >> @@ 1 :> << <<2>> >>,
                0 :> << <<0>>, <<2>> >> @@ 1 :> << >>,
                0 :> << <<0, 1>> >> @@ 2 :> << <<2, 2>> >> }
=============================================================================
