------------------------------ MODULE Handover -------------------------------
(***************************************************************************)
(* What a rotation of the federation key promises, abstractly: the height  *)
(* is announced ahead, the new key signs from exactly that height on or    *)
(* never, and the old key does not come back.                              *)
(***************************************************************************)
EXTENDS Naturals, Sequences

VARIABLES announced, \* the height of the takeover, 0 before it is announced
          signedBy   \* signedBy[h]: the key that signed the block at height h

vars == <<announced, signedBy>>

Init == announced = 0 /\ signedBy = <<>>

Announce ==
  /\ announced = 0
  /\ announced' \in Nat /\ announced' > Len(signedBy)
  /\ UNCHANGED signedBy

TakenOver == signedBy # <<>> /\ signedBy[Len(signedBy)] = "b"

Block(key) ==
  /\ TakenOver => key = "b"
  /\ key = "b" => TakenOver \/ announced = Len(signedBy) + 1
  /\ signedBy' = Append(signedBy, key)
  /\ UNCHANGED announced

Next == Announce \/ \E key \in {"a", "b"} : Block(key)

Spec == Init /\ [][Next]_vars
=============================================================================
