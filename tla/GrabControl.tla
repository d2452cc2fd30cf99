------------------------------ MODULE GrabControl ------------------------------
(***************************************************************************)
(* What starting and stopping a camera's stream promises.  Someone wants   *)
(* the camera to grab or not, and changes his mind at any time; a follower *)
(* looks at what is wanted and then does what it saw, possibly late.  It   *)
(* never grabs unless it saw that it was wanted.  When it ends, what it    *)
(* saw and did is over, and another one begins from nothing.               *)
(***************************************************************************)
CONSTANT Followers

VARIABLES wanted, seen, grabbing

vars == <<wanted, seen, grabbing>>

Nothing == [f \in Followers |-> FALSE]

Init == wanted = Nothing /\ seen = Nothing /\ grabbing = Nothing

Want == wanted' \in [Followers -> BOOLEAN] /\ UNCHANGED <<seen, grabbing>>
Look(f) == seen' = [seen EXCEPT ![f] = wanted[f]] /\ UNCHANGED <<wanted, grabbing>>
Turn(f) == grabbing' = [grabbing EXCEPT ![f] = seen[f]] /\ UNCHANGED <<wanted, seen>>
Quit(f) ==
  /\ wanted' = [wanted EXCEPT ![f] = FALSE]
  /\ seen' = [seen EXCEPT ![f] = FALSE]
  /\ grabbing' = [grabbing EXCEPT ![f] = FALSE]

Next == Want \/ \E f \in Followers : Look(f) \/ Turn(f) \/ Quit(f)

Spec == Init /\ [][Next]_vars

(* When nobody changes his mind any more, the camera does what is wanted.  *)
Settles ==
  \A f \in Followers, b \in BOOLEAN : <>[](wanted[f] = b) => <>[](grabbing[f] = b)
=============================================================================
