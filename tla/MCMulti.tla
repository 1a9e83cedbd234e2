------------------------------ MODULE MCMulti ------------------------------
(* Two transports, one behind each of two network interfaces.               *)
EXTENDS Multi

CONSTANTS t1, t2, n1, n2

TwoTransports == <<t1, t2>>
OneEach == n1 :> t1 @@ n2 :> t2

\* One fast transport, with room or without, which the ECF selector waits for
\* or not, and a slow one.
Fast(rtt, n) == [rtt |-> rtt, rttvar |-> 0, cwnd |-> 1, inflight |-> n]
FastAndSlow ==
  t1 :> {Fast(2, 0), Fast(2, 1), Fast(6, 1)} @@ t2 :> {[rtt |-> 10, rttvar |-> 0, cwnd |-> 1, inflight |-> 0]}

=============================================================================
