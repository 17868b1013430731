---------------------------- MODULE MCDispatcher ----------------------------
(* Constants under which TLC checks Dispatcher.                             *)
EXTENDS Dispatcher, TLC

CONSTANTS batch, other, send1, send2, send3, send4, send5, send6, create, backup, k1, k2

NoSubmits == [w \in Works |-> <<>>]

\* The effectors of two batches of due jobs submit their deliveries.
FanOut == (batch :> <<send1, send2, send3, send4>>) @@ (other :> <<send5, send6>>) @@ NoSubmits
=============================================================================
