--------------------------- MODULE UpstreamPromise ---------------------------
(***************************************************************************)
(* What an iscp.Upstream promises to the application, with no session,     *)
(* goroutine, timer or resume in sight: chunks are numbered one after the  *)
(* other and none is invented; a chunk is kept until the broker has it,    *)
(* unless the stream is not reliable; the broker is asked once to close    *)
(* the stream, of a stream that is not over, and what is over stays over.  *)
(***************************************************************************)
EXTENDS Naturals

CONSTANT
  MaxSeq      (* the last sequence number                                  *)

VARIABLES
  reliable,   (* the stream was opened as a reliable one                   *)
  issued,     (* the last sequence number given to a chunk                 *)
  kept,       (* the chunks that are kept to be sent again                 *)
  received,   (* the chunks the broker has received                        *)
  asked,      (* how often the broker was asked to close the stream        *)
  answered,   (* how often it has agreed                                   *)
  over        (* nobody can use the stream any more                        *)

chunkVars == <<issued, kept, received>>
closeVars == <<asked, answered, over>>
vars == <<reliable, chunkVars, closeVars>>

Init ==
  /\ reliable \in BOOLEAN
  /\ issued = 0 /\ kept = {} /\ received = {}
  /\ asked = 0 /\ answered = 0 /\ over = FALSE

(* Data points are put into a chunk.                                       *)
Issue ==
  /\ issued < MaxSeq
  /\ issued' = issued + 1
  /\ kept' = kept \union {issued'}
  /\ UNCHANGED <<reliable, received, closeVars>>

(* The broker receives a chunk, perhaps once more.  One it has not seen is *)
(* still kept, if the stream is reliable.                                  *)
Receive(n) ==
  /\ n <= issued
  /\ reliable => n \in kept \union received
  /\ received' = received \union {n}
  /\ UNCHANGED <<reliable, issued, kept, closeVars>>

(* Its ack has come.                                                       *)
Forget(n) ==
  /\ n \in kept \intersect received
  /\ kept' = kept \ {n}
  /\ UNCHANGED <<reliable, issued, received, closeVars>>

(* A stream that is not reliable does not send again.                      *)
Abandon ==
  /\ ~reliable
  /\ kept' = {}
  /\ UNCHANGED <<reliable, issued, received, closeVars>>

(* The broker is asked to close the stream, ...                            *)
Ask ==
  /\ ~over /\ asked = 0
  /\ asked' = 1
  /\ UNCHANGED <<reliable, chunkVars, answered, over>>

(* ... and agrees, which the application is told.                          *)
Answer ==
  /\ asked = 1 /\ answered = 0
  /\ answered' = 1
  /\ over' = TRUE
  /\ UNCHANGED <<reliable, chunkVars, asked>>

(* Or it ends without an answer, at the latest with the connection.        *)
End ==
  /\ ~over
  /\ over' = TRUE
  /\ UNCHANGED <<reliable, chunkVars, asked, answered>>

Next ==
  \/ Issue \/ Abandon \/ Ask \/ Answer \/ End
  \/ \E n \in 1..MaxSeq : Receive(n) \/ Forget(n)

Spec == Init /\ [][Next]_vars

=============================================================================
