------------------------------- MODULE Market -------------------------------
(***************************************************************************)
(* What the stalls promise (lab11): a visit of a buyer is one indivisible    *)
(* purchase, of as much as the buyer still needs or all there is, and a       *)
(* delivery adds a full load.  StallMarket buys piece by piece.               *)
(***************************************************************************)
EXTENDS Naturals

CONSTANTS
    Stalls, Buyers,
    Load,   \* LOADER_ADD
    Unset   \* the need of a buyer that is not awake yet

VARIABLES
    stock,  \* of each stall
    wants   \* what each buyer still needs

marketVars == <<stock, wants>>

MarketInit ==
    /\ stock \in [Stalls -> Nat]
    /\ wants = [b \in Buyers |-> Unset]

Arrive(b) ==
    /\ wants[b] = Unset
    /\ wants'[b] \in Nat
    /\ wants' = [wants EXCEPT ![b] = wants'[b]]
    /\ UNCHANGED stock

\* n goods change hands: enough for the buyer, or the last of the stall.
Buy(b, s) ==
    /\ wants[b] # Unset
    /\ \E n \in 0 .. stock[s] :
         /\ n <= wants[b]
         /\ n = stock[s] \/ n = wants[b]
         /\ stock' = [stock EXCEPT ![s] = @ - n]
         /\ wants' = [wants EXCEPT ![b] = @ - n]

Deliver(s) ==
    /\ stock' = [stock EXCEPT ![s] = @ + Load]
    /\ UNCHANGED wants

MarketNext ==
    \/ \E b \in Buyers : Arrive(b) \/ \E s \in Stalls : Buy(b, s)
    \/ \E s \in Stalls : Deliver(s)

Market == MarketInit /\ [][MarketNext]_marketVars
=============================================================================
