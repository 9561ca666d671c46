-------------------------------- MODULE Outbox ---------------------------------
(***************************************************************************)
(* What a device owes the writes of an app: it keeps them in the order in  *)
(* which each user made them, and each ends once, oldest first, stored or  *)
(* refused.  Whatever happens to the connection or to the process, none is *)
(* dropped, doubled or overtaken.                                          *)
(***************************************************************************)
EXTENDS Naturals, Sequences

CONSTANTS Users, Writes

VARIABLES
  line,   \* of each user: the writes not ended, in order
  fate    \* of each write: "none" until it ends

Init ==
  /\ line = [u \in Users |-> <<>>]
  /\ fate = [w \in Writes |-> "none"]

Accept(u, w) ==
  /\ fate[w] = "none"
  /\ \A v \in Users : \A i \in DOMAIN line[v] : line[v][i] < w
  /\ line' = [line EXCEPT ![u] = Append(@, w)]
  /\ UNCHANGED fate

End(u) ==
  /\ line[u] # <<>>
  /\ \E f \in {"stored", "refused"} : fate' = [fate EXCEPT ![Head(line[u])] = f]
  /\ line' = [line EXCEPT ![u] = Tail(@)]

Next == \E u \in Users : End(u) \/ \E w \in Writes : Accept(u, w)

Spec == Init /\ [][Next]_<<line, fate>>

-----------------------------------------------------------------------------
(* What is in line has not ended, is there once, and is behind what its    *)
(* user wrote before.                                                      *)
LineIsOwed ==
  /\ \A u \in Users : \A i \in DOMAIN line[u] : fate[line[u][i]] = "none"
  /\ \A u, v \in Users : \A i \in DOMAIN line[u], j \in DOMAIN line[v] :
       line[u][i] = line[v][j] => u = v /\ i = j
  /\ \A u \in Users : \A i, j \in DOMAIN line[u] : i < j => line[u][i] < line[u][j]

(* What has ended keeps its end.                                           *)
EndsOnce ==
  [][\A w \in Writes : fate[w] # "none" => fate'[w] = fate[w]]_<<line, fate>>
=============================================================================
