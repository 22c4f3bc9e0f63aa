---------------------------- MODULE MCBmcActions ----------------------------
(***************************************************************************)
(* BmcActions for TLC: a slot for USB media and two for optical ones, the  *)
(* second of which is called CD, and BMCs that offer no reset types, none  *)
(* that fits, or the usual ones and the button.                            *)
(***************************************************************************)
EXTENDS BmcActions

NoNames == [l \in {} |-> {}]
Offers == {{}, {"ForceRestart", "Nmi", "PushPowerButton"},
           {"On", "GracefulShutdown", "GracefulRestart", "PushPowerButton"}}
TreeOf(offer) ==
    [push |-> "none", members |-> {}, system |-> TRUE, resets |-> offer, resetInfo |-> TRUE,
     manager |-> TRUE, inserted |-> [s \in Slots |-> FALSE]]
MCServers == {[vendor |-> "generic", tree |-> TreeOf(o)] : o \in Offers}
             \cup {[vendor |-> "hpe", tree |-> TreeOf({})]}
MCOrder == [s \in Slots |-> CASE s = "usb" -> 1 [] s = "s1" -> 2 [] s = "s2" -> 3]

\* Bound: a foreign medium is in the first slot.
ForeignInFirst == bmc.slot["s2"] # "other" /\ bmc.slot["usb"] # "other"
=============================================================================
