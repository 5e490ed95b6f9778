------------------------------ MODULE ExitNode ------------------------------
(***************************************************************************)
(* What a container promises to Landscape, whatever happens inside it: an  *)
(* exit that offers itself only after it was prepared in the same life and *)
(* on the parameters its owner asked for; a life that could not be         *)
(* prepared refuses to its end; parameters never change under an offer;    *)
(* an interrupted offer comes back.                                        *)
(***************************************************************************)
CONSTANTS Offer,    \* the parameters an exit can be offered with
          NoOffer   \* no member of Offer

VARIABLES status,   \* the state of the current life
          wanted,   \* the parameters asked for in this life
          offered   \* the parameters Landscape sees, or NoOffer

nodeVars == <<status, wanted, offered>>

Statuses == {"down", "preparing", "prepared", "refusing", "offering",
             "interrupted"}

NodeInit == status = "preparing" /\ wanted \in Offer /\ offered = NoOffer

\* A new life, perhaps with other parameters.
Start == /\ status = "down"
         /\ status' = "preparing"
         /\ wanted' \in Offer
         /\ UNCHANGED offered

Prepare == /\ status = "preparing"
           /\ status' = "prepared"
           /\ UNCHANGED <<wanted, offered>>

Accept == /\ status = "prepared"
          /\ status' = "offering"
          /\ offered' = wanted
          /\ UNCHANGED wanted

Refuse == /\ status = "preparing"
          /\ status' = "refusing"
          /\ UNCHANGED <<wanted, offered>>

Interrupt == /\ status = "offering"
             /\ status' = "interrupted"
             /\ UNCHANGED <<wanted, offered>>

Resume == /\ status = "interrupted"
          /\ status' = "offering"
          /\ UNCHANGED <<wanted, offered>>

Stop == /\ status # "down"
        /\ status' = "down"
        /\ offered' = NoOffer
        /\ UNCHANGED wanted

NodeNext == Start \/ Prepare \/ Accept \/ Refuse \/ Interrupt \/ Resume \/ Stop

\* An interrupted offer comes back unless its life ends.
NodeFairness == WF_nodeVars(Resume)

NodeSpec == NodeInit /\ [][NodeNext]_nodeVars /\ NodeFairness
=============================================================================
