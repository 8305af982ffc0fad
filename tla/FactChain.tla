-------------------------------- MODULE FactChain --------------------------------
(***************************************************************************)
(* What the extensions E7 to E9 promise of a chain of registries.  A fact  *)
(* (a verified transition, an established continuity, a convergence, a     *)
(* cutover, a nominal restoration) has grounds, other facts it refers to,  *)
(* often in another file.  Facts are established one after the other, none *)
(* before its grounds; and where anything is found wrong, none is left.    *)
(***************************************************************************)
EXTENDS FiniteSets

VARIABLES
  grounds,      \* from every fact that is claimed to the facts it refers to
  established,
  intact        \* nothing has been found wrong

Init == established = {} /\ intact = TRUE

Establish ==
  /\ intact /\ intact'
  /\ established \subseteq established'
  /\ \A f \in established' \ established :
       f \in DOMAIN grounds /\ grounds[f] \subseteq established
  /\ UNCHANGED grounds

Break ==
  /\ intact' = FALSE
  /\ established' = {}
  /\ UNCHANGED grounds

Next == Establish \/ Break

Spec == Init /\ [][Next]_<<grounds, established, intact>>
==================================================================================
