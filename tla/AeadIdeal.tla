------------------------------ MODULE AeadIdeal ------------------------------
(***************************************************************************)
(* What authenticated encryption promises, with nothing of how: a box is a *)
(* message sealed in a context (cipher, keys, nonce, additional data).     *)
(* Asking to open a box that was sealed yields its message; every other    *)
(* request to open, and every malformed one, is refused.                   *)
(***************************************************************************)
CONSTANT Boxes    \* records with a field msg, and whatever makes the context

VARIABLES
  sealed,   \* the boxes sealed so far
  request,  \* the request being served
  reply     \* the answer to it, until the caller has taken it

vars == <<sealed, request, reply>>

Idle == [op |-> "idle"]
Bogus == [op |-> "bogus"]
Sealing(b) == [op |-> "seal", box |-> b]
Opening(b) == [op |-> "open", box |-> b]

NoReply == [kind |-> "none"]
Refused == [kind |-> "refused"]
Ciphertext(b) == [kind |-> "ciphertext", box |-> b]
Plaintext(m) == [kind |-> "plaintext", msg |-> m]

Init ==
  /\ sealed = {}
  /\ request = Idle
  /\ reply = NoReply

(***************************************************************************)
(* A request to open a box is one that presents the very ciphertext its    *)
(* sealing returned, in the very context it was sealed in.                 *)
(***************************************************************************)
Ask ==
  /\ request = Idle /\ reply = NoReply
  /\ \/ \E b \in Boxes : request' = Sealing(b)
     \/ \E b \in sealed : request' = Opening(b)
     \/ request' = Bogus
  /\ UNCHANGED <<sealed, reply>>

Seal(b) ==
  /\ request = Sealing(b)
  /\ sealed' = sealed \cup {b}
  /\ reply' = Ciphertext(b)
  /\ request' = Idle

Open(b) ==
  /\ request = Opening(b)
  /\ reply' = Plaintext(b.msg)
  /\ request' = Idle
  /\ UNCHANGED sealed

Refuse ==
  /\ request = Bogus
  /\ reply' = Refused
  /\ request' = Idle
  /\ UNCHANGED sealed

(***************************************************************************)
(* The caller goes on with what it was answered.                           *)
(***************************************************************************)
Take ==
  /\ reply # NoReply
  /\ reply' = NoReply
  /\ UNCHANGED <<sealed, request>>

Next ==
  \/ Ask \/ Take
  \/ \E b \in Boxes : Seal(b) \/ Open(b)
  \/ Refuse

Spec == Init /\ [][Next]_vars
=============================================================================
