------------------------------ MODULE Delivery ------------------------------
(***************************************************************************)
(* What the platform promises about a parcel and the money paid for it:    *)
(* the money is kept until the parcel is delivered, and then earned, or    *)
(* until the parcel is withdrawn before its pickup, and then given back;   *)
(* never both, and never back again.  Shipments.tla, without the staff's   *)
(* decisions, is shown to implement this module.                           *)
(***************************************************************************)
CONSTANT Items

VARIABLES
    goods,  \* "sender", "driver", "recipient" or "withdrawn"
    money   \* "unpaid", "kept", "earned" or "returned"

dvars == <<goods, money>>

Init ==
    /\ goods = [i \in Items |-> "sender"]
    /\ money = [i \in Items |-> "unpaid"]

Move(i, from, to) ==
    /\ goods[i] = from
    /\ goods' = [goods EXCEPT ![i] = to]
    /\ UNCHANGED money

Transfer(i, from, to) ==
    /\ money[i] = from
    /\ money' = [money EXCEPT ![i] = to]
    /\ UNCHANGED goods

PickUp(i)   == Move(i, "sender", "driver")
HandOver(i) == Move(i, "driver", "recipient")
Withdraw(i) == Move(i, "sender", "withdrawn")
Pay(i)      == Transfer(i, "unpaid", "kept")
Earn(i)     == goods[i] = "recipient" /\ Transfer(i, "kept", "earned")
GiveBack(i) == goods[i] = "withdrawn" /\ Transfer(i, "kept", "returned")

Next ==
    \E i \in Items :
        \/ PickUp(i) \/ HandOver(i) \/ Withdraw(i)
        \/ Pay(i) \/ Earn(i) \/ GiveBack(i)

Spec == Init /\ [][Next]_dvars
=============================================================================
