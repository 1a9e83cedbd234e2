----------------------------- MODULE ConnPromise -----------------------------
(***************************************************************************)
(* What an iscp.Conn promises to the application and to its streams, with  *)
(* no lock, goroutine or retry in sight: a session that is lost stays      *)
(* lost, another one is handed out only while the connection is not        *)
(* Connected and after the one before has ended, and once closed the       *)
(* connection stays closed.  It is also the environment of the streams.    *)
(***************************************************************************)
CONSTANT Sessions

VARIABLES
  phase,    (* Connected, Reconnecting or Closed                           *)
  current,  (* the session the connection hands out                        *)
  up        (* it has not ended                                            *)

vars == <<phase, current, up>>

Init ==
  /\ phase = "Connected"
  /\ current \in Sessions
  /\ up = TRUE

(* The session ends: lost, given up for a new one, or closed.              *)
End ==
  /\ up
  /\ up' = FALSE
  /\ UNCHANGED <<phase, current>>

(* Senders are held back until there is a new session.                     *)
Suspend ==
  /\ phase = "Connected"
  /\ phase' = "Reconnecting"
  /\ UNCHANGED <<current, up>>

(* A new session is handed out, which may already be lost again; senders   *)
(* are released unless the connection has been closed meanwhile.           *)
Install ==
  /\ phase # "Connected"
  /\ ~up
  /\ current' \in Sessions \ {current}
  /\ up' \in BOOLEAN
  /\ phase' = IF phase = "Closed" THEN phase ELSE "Connected"

Shut ==
  /\ phase # "Closed"
  /\ phase' = "Closed"
  /\ UNCHANGED <<current, up>>

Next == End \/ Suspend \/ Install \/ Shut

Spec == Init /\ [][Next]_vars

=============================================================================
