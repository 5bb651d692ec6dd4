------------------------------- MODULE Checkout -------------------------------
(***************************************************************************)
(* What SPOAzBlob promises about a blob that is edited through the drive   *)
(* (README.md, Basic Architecture): a copy in the drive is held by one     *)
(* user until it is released, the blob changes only while a copy of it is  *)
(* held, and it never goes back to content older than it had.              *)
(***************************************************************************)
EXTENDS Naturals

CONSTANTS Copies, Files, Holders, Contents, NoHold

VARIABLES
    hold,       \* who holds each copy in the drive, and of which file it is
    published   \* how recent the content of each blob is

Hold(user, file) == [user |-> user, file |-> file]

Init ==
    /\ hold = [c \in Copies |-> NoHold]
    /\ published \in [Files -> {0}]

CheckOut(c, u, f) ==
    /\ hold[c] = NoHold
    /\ hold' = [hold EXCEPT ![c] = Hold(u, f)]
    /\ UNCHANGED published

\* Newer content of a held copy reaches the blob.
Publish(c, v) ==
    /\ hold[c] # NoHold
    /\ published[hold[c].file] < v
    /\ published' = [published EXCEPT ![hold[c].file] = v]
    /\ UNCHANGED hold

CheckIn(c) ==
    /\ hold[c] # NoHold
    /\ hold' = [hold EXCEPT ![c] = NoHold]
    /\ UNCHANGED published

Next ==
    \E c \in Copies :
        \/ \E u \in Holders, f \in Files : CheckOut(c, u, f)
        \/ \E v \in Contents : Publish(c, v)
        \/ CheckIn(c)

Spec == Init /\ [][Next]_<<hold, published>>

=============================================================================
