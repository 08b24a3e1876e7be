---------------------------- MODULE CallAllowance ----------------------------
(***************************************************************************)
(* What a call ceiling promises, said without a ledger: at most Limit      *)
(* calls are ever made, a call is made only under a promise given before,  *)
(* and a promise that goes unused can be taken back and given again.       *)
(* budget.py and the callers in runtime.py implement this together.        *)
(***************************************************************************)
EXTENDS Naturals

CONSTANT Limit

VARIABLES
    promised,   \* calls promised and not yet made
    made        \* calls made

TypeOK == promised \in 0..Limit /\ made \in 0..Limit

Init == promised = 0 /\ made = 0

Promise ==
    \E n \in 1..Limit :
        /\ made + promised + n <= Limit
        /\ promised' = promised + n
        /\ made' = made

Make ==
    /\ promised > 0
    /\ promised' = promised - 1
    /\ made' = made + 1

TakeBack ==
    \E n \in 1..promised : promised' = promised - n /\ made' = made

Next == Promise \/ Make \/ TakeBack

Spec == Init /\ [][Next]_<<promised, made>>
=============================================================================
