---------------------------- MODULE PayeeRegister ----------------------------
(***************************************************************************)
(* What CMasternodePayments promises the block checks: for every height at *)
(* most one payee, replaced only by one whose masternode scores higher and *)
(* dropped only when the height is long past or the process ends.          *)
(***************************************************************************)
EXTENDS Integers

CONSTANTS
    Vin,        \* masternodes
    Script,     \* payees
    Score,      \* Score[vin]
    Limit,      \* age at which a height may be dropped
    MaxHeight,  \* bound: the last height
    NoPayee

VARIABLES
    tip,        \* height of the active chain
    payee       \* payee[h]: the [vin, payee] on record for h, or NoPayee

vars == <<tip, payee>>
Height == 0 .. MaxHeight
Choice == [vin : Vin, payee : Script]

Init == tip \in Height /\ payee = [h \in Height |-> NoPayee]

Grow == tip' \in tip .. MaxHeight /\ UNCHANGED payee

Vote(h, c) ==
    /\ payee[h] = NoPayee \/ Score[payee[h].vin] < Score[c.vin]
    /\ payee' = [payee EXCEPT ![h] = c]
    /\ UNCHANGED tip

Drop(h) ==
    /\ tip - h > Limit
    /\ payee' = [payee EXCEPT ![h] = NoPayee]
    /\ UNCHANGED tip

End == payee' = [h \in Height |-> NoPayee] /\ UNCHANGED tip

Next ==
    \/ Grow \/ End
    \/ \E h \in Height : Drop(h) \/ (payee'[h] \in Choice /\ Vote(h, payee'[h]))

Spec == Init /\ [][Next]_vars
=============================================================================
