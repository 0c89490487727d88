------------------------------- MODULE Escrow -------------------------------
(***************************************************************************)
(* What a driver's wallet promises about a withdrawal, without a word of   *)
(* how PayoutsService gets there: an amount is set aside at most once, and *)
(* what was set aside either leaves the wallet or comes back, once and for *)
(* all.  Payouts.tla is shown to implement this module.                    *)
(***************************************************************************)
EXTENDS Naturals

CONSTANTS
    Items,      \* the things money is set aside for
    Amount,     \* Amount[i]: what is set aside for i
    Funds       \* what the wallet holds at the start

VARIABLES
    available,  \* what the driver can still ask for
    held,       \* what is set aside
    gone,       \* what has left the wallet
    phase       \* phase[i]: "free", "held", "paid" or "returned"

evars == <<available, held, gone, phase>>

Init ==
    /\ available = Funds
    /\ held = 0
    /\ gone = 0
    /\ phase = [i \in Items |-> "free"]

Hold(i) ==
    /\ phase[i] = "free"
    /\ available >= Amount[i]
    /\ available' = available - Amount[i]
    /\ held' = held + Amount[i]
    /\ phase' = [phase EXCEPT ![i] = "held"]
    /\ UNCHANGED gone

Pay(i) ==
    /\ phase[i] = "held"
    /\ held' = held - Amount[i]
    /\ gone' = gone + Amount[i]
    /\ phase' = [phase EXCEPT ![i] = "paid"]
    /\ UNCHANGED available

GiveBack(i) ==
    /\ phase[i] = "held"
    /\ held' = held - Amount[i]
    /\ available' = available + Amount[i]
    /\ phase' = [phase EXCEPT ![i] = "returned"]
    /\ UNCHANGED gone

Next == \E i \in Items : Hold(i) \/ Pay(i) \/ GiveBack(i)

Spec == Init /\ [][Next]_evars
=============================================================================
