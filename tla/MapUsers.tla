------------------------------ MODULE MapUsers ------------------------------
(***************************************************************************)
(* The users of core/map.c: a behaviour is one of React, or one of any     *)
(* caller of the map (MapUse), as `user` says from the start on.           *)
(***************************************************************************)
EXTENDS React, MapUse

VARIABLE user

SumInit == /\ user \in {"react", "caller"}
           /\ Init
           /\ CallInit

SumNext == \/ user = "react" /\ Next /\ UNCHANGED <<user, callVars>>
           \/ user = "caller" /\ CallNext /\ UNCHANGED <<user, vars>>

SumSpec == SumInit /\ [][SumNext]_<<user, vars, callVars>>

-----------------------------------------------------------------------------
(* Properties *)

\* No set of a map is without a record to end at, neither one of any caller
\* (MapUse) nor one of React: the assert(0) of pmap_set_no_resize is never
\* reached.
Placeable == /\ CallPlaceable
             /\ \A key \in Key : Stops(Room(map), HashOf[key]) # {}
=============================================================================
