----------------------------- MODULE CanCustody ------------------------------
(***************************************************************************)
(* What the slot tracker promises about one can, whatever slot it is on:   *)
(* the history of every tag is a walk through unknown, on the shelf, out   *)
(* and elsewhere, and the events tell exactly the steps of that walk.  No  *)
(* removal is told of a can that is not on the shelf, no arrival of a can  *)
(* that is, and a can leaves the shelf only by a removal or a restart.     *)
(***************************************************************************)
CONSTANTS Tags, NoTag

VARIABLES
  custody,  \* what the tracker knows of each can
  news      \* the events the last step published, without their slots

Custody == {"unknown", "shelf", "out", "elsewhere"}
News(type, t) == [type |-> type, tag |-> t]

AtMostOne(D) == \A u, v \in D : u = v

Init == custody = [t \in Tags |-> "unknown"] /\ news = {}

(* Can t comes to a place last held by the can in "displaced", if any: a   *)
(* can that was out, which the tracker forgets.                            *)
Arrive(type, t, displaced) ==
  /\ custody[t] # "shelf" /\ t \notin displaced
  /\ custody' = [u \in Tags |-> CASE u = t -> "shelf"
                                  [] u \in displaced -> "unknown"
                                  [] OTHER -> custody[u]]
  /\ news' = {News(type, t)}

Returned(t) == custody[t] = "out" /\ Arrive("can_returned", t, {})

Moved(t) ==
  /\ custody[t] \in {"out", "elsewhere"}
  /\ \E D \in SUBSET {u \in Tags : custody[u] \in {"out", "elsewhere"}} :
       AtMostOne(D) /\ Arrive("can_moved", t, D)

Placed(t) ==
  /\ custody[t] \in {"unknown", "elsewhere"}
  /\ \E D \in SUBSET {u \in Tags : custody[u] = "elsewhere"} :
       AtMostOne(D) /\ Arrive("can_placed", t, D)

WrongSlot(t) ==
  /\ custody[t] = "unknown"
  /\ \E u \in Tags : custody[u] = "out" /\ Arrive("can_wrong_slot", t, {u})

Depart(t) ==
  /\ custody[t] = "shelf"
  /\ custody' = [custody EXCEPT ![t] = "out"]
  /\ \E type \in {"can_removed", "unauthorized_removal"} : news' = {News(type, t)}

(* Some of the cans that are out are given up as consumed, and told of;    *)
(* others only count as elsewhere.                                         *)
Expire ==
  \E consumed, late \in SUBSET {t \in Tags : custody[t] = "out"} :
    /\ custody' = [t \in Tags |-> CASE t \in consumed -> "unknown"
                                    [] t \in late -> "elsewhere"
                                    [] OTHER -> custody[t]]
    /\ news' = IF consumed = {} THEN {} ELSE {News("can_consumed", NoTag)}

Forget == custody' = [t \in Tags |-> "unknown"] /\ news' = {}

Quiet == UNCHANGED custody /\ news' = {}

Next == \/ \E t \in Tags : Returned(t) \/ Moved(t) \/ Placed(t) \/ WrongSlot(t) \/ Depart(t)
        \/ Expire \/ Forget \/ Quiet

custodyVars == <<custody, news>>

Spec == Init /\ [][Next]_custodyVars
=============================================================================
