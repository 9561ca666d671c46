------------------------------ MODULE LimboQueue -------------------------------
(***************************************************************************)
(* Documents in limbo (sync_engine.cc, view.cc).  A view that is current   *)
(* may still hold a document from the cache that the server did not name:  *)
(* the client asks for the document by itself, a bounded number at a time, *)
(* the others in line.  The document leaves limbo when the answer makes it *)
(* leave the view, or with the query.                                      *)
(*                                                                         *)
(* A view here is its unexplained documents, those it has and the server   *)
(* has not named.  Only a current view counts them to be in limbo.         *)
(***************************************************************************)
EXTENDS Naturals, SequencesExt

CONSTANTS
  Keys,          \* documents
  Queries,
  MaxConcurrent, \* max_concurrent_limbo_resolutions_
  MaxArrivals    \* bound: times a view gets unexplained documents

ASSUME LimboAssumption ==
  IsFiniteSet(Keys) /\ MaxConcurrent \in Nat \ {0} /\ MaxArrivals \in Nat

VARIABLES
  view,      \* of each query: on, current, unexplained, limbo (limbo_documents_)
  refs,      \* limbo_document_refs_
  enqueued,  \* enqueued_limbo_resolutions_
  active,    \* the keys of active_limbo_targets_by_key_
  refused,   \* history: documents the server has refused to answer about
  arrivals

vars == <<view, refs, enqueued, active, refused, arrivals>>

TypeOK ==
  /\ view \in [Queries -> [on : BOOLEAN, current : BOOLEAN,
                           unexplained : SUBSET Keys, limbo : SUBSET Keys]]
  /\ refs \subseteq Keys \X Queries
  /\ enqueued \in Seq(Keys) /\ IsInjective(enqueued)
  /\ active \subseteq Keys /\ active \cap ToSet(enqueued) = {}
  /\ refused \subseteq Keys /\ arrivals \in 0..MaxArrivals

NoView == [on |-> FALSE, current |-> FALSE, unexplained |-> {}, limbo |-> {}]

Init ==
  /\ view = [q \in Queries |-> NoView]
  /\ refs = {} /\ enqueued = <<>> /\ active = {} /\ refused = {} /\ arrivals = 0

-----------------------------------------------------------------------------
(* A definition named X_Y beside a definition X is X with a plausible slip *)
(* in it.  No specification uses it: it stands for the mistake that some   *)
(* property below is there to notice.                                      *)

Referenced(rs) == {r[1] : r \in rs}

(* The next in line are asked for, as long as there is room.               *)
PumpEnqueuedLimboResolutions(queue, busy) ==
  LET room == MaxConcurrent - Cardinality(busy)
      n == IF room < Len(queue) THEN room ELSE Len(queue)
  IN  /\ enqueued' = SubSeq(queue, n + 1, Len(queue))
      /\ active' = busy \cup ToSet(SubSeq(queue, 1, n))

(* What is left of the line without some keys, in the same order.          *)
Without(queue, keys) ==
  {rest \in SetToSeqs(ToSet(queue) \ keys) :
     \A i, j \in DOMAIN rest :
       i < j => \E m, n \in DOMAIN queue : m < n /\ queue[m] = rest[i] /\ queue[n] = rest[j]}

RemoveLimboTargets_OnlyActive(rs, news) ==
  LET freed == Referenced(refs) \ Referenced(rs)
  IN  PumpEnqueuedLimboResolutions(enqueued \o news, active \ freed)

RemoveLimboTargets_AnyReference(rs, news) ==
  LET freed == Referenced(refs \ rs)
  IN  \E rest \in Without(enqueued, freed) :
        PumpEnqueuedLimboResolutions(rest \o news, active \ freed)

(* Keys whose last reference is gone are given up, asked for or in line;   *)
(* new ones go to the end of the line.                                     *)
RemoveLimboTargets(rs, news) ==
  LET freed == Referenced(refs) \ Referenced(rs)
  IN  \E rest \in Without(enqueued, freed) :
        PumpEnqueuedLimboResolutions(rest \o news, active \ freed)

(* A view that is not current keeps what it had in limbo.                  *)
Limbo(v) == IF v.current THEN v.unexplained ELSE v.limbo

References(next) == {r \in Keys \X Queries : r[1] \in Limbo(next[r[2]])}

UpdateLimboDocuments(next) == [q \in Queries |-> [next[q] EXCEPT !.limbo = Limbo(next[q])]]

(* The views become those of next.  A key new in limbo for some view is    *)
(* asked for, unless it is already.                                        *)
UpdateTrackedLimboDocuments(next) ==
  LET rs == References(next)
  IN  /\ view' = UpdateLimboDocuments(next)
      /\ refs' = rs
      /\ \E news \in SetToSeqs({r[1] : r \in rs \ refs} \ (active \cup ToSet(enqueued))) :
           RemoveLimboTargets(rs, news)

-----------------------------------------------------------------------------
Listen(q) ==
  /\ ~view[q].on
  /\ view' = [view EXCEPT ![q] = [NoView EXCEPT !.on = TRUE]]
  /\ UNCHANGED <<refs, enqueued, active, refused, arrivals>>

(* A snapshot, or a change on the device, leaves a view with other         *)
(* unexplained documents, current or not.                                  *)
ViewChanges(q, keys, current) ==
  /\ view[q].on /\ <<keys, current>> # <<view[q].unexplained, view[q].current>>
  /\ ~(keys \subseteq view[q].unexplained) => arrivals < MaxArrivals
  /\ arrivals' = IF keys \subseteq view[q].unexplained THEN arrivals ELSE arrivals + 1
  /\ UpdateTrackedLimboDocuments(
       [view EXCEPT ![q].unexplained = keys, ![q].current = current])
  /\ UNCHANGED refused

(* The client is offline.                                                  *)
HandleOnlineStateChange ==
  /\ \E q \in Queries : view[q].current
  /\ view' = [q \in Queries |-> [view[q] EXCEPT !.current = FALSE]]
  /\ UNCHANGED <<refs, enqueued, active, refused, arrivals>>

(* The query is left, or the server refuses it.                            *)
RemoveAndCleanupTarget(q) ==
  /\ view[q].on
  /\ view' = [view EXCEPT ![q] = NoView]
  /\ LET rs == {r \in refs : r[2] # q}
     IN  refs' = rs /\ RemoveLimboTargets(rs, <<>>)
  /\ UNCHANGED <<refused, arrivals>>

WithoutDocument(k) == [q \in Queries |-> [view[q] EXCEPT !.unexplained = @ \ {k}]]

(* The answer about a document takes it out of every view: it is gone, or  *)
(* matches the queries no longer.                                          *)
Resolved(k) ==
  /\ k \in active
  /\ UpdateTrackedLimboDocuments(WithoutDocument(k))
  /\ UNCHANGED <<refused, arrivals>>

(* The server refuses to answer: the document is taken to be gone.  The    *)
(* slot is free before that.                                               *)
HandleRejectedListen_NoPump(k) ==
  /\ k \in active /\ refused' = refused \cup {k}
  /\ view' = UpdateLimboDocuments(WithoutDocument(k))
  /\ refs' = References(WithoutDocument(k))
  /\ active' = active \ {k}
  /\ UNCHANGED <<enqueued, arrivals>>

HandleRejectedListen(k) ==
  /\ k \in active /\ refused' = refused \cup {k}
  /\ view' = UpdateLimboDocuments(WithoutDocument(k))
  /\ refs' = References(WithoutDocument(k))
  /\ PumpEnqueuedLimboResolutions(enqueued, active \ {k})
  /\ UNCHANGED arrivals

Next ==
  \/ HandleOnlineStateChange
  \/ \E q \in Queries :
       \/ Listen(q) \/ RemoveAndCleanupTarget(q)
       \/ \E keys \in SUBSET Keys, b \in BOOLEAN : ViewChanges(q, keys, b)
  \/ \E k \in Keys : Resolved(k) \/ HandleRejectedListen(k)

Spec == Init /\ [][Next]_vars

(* The server answers.                                                     *)
FairSpec == Spec /\ \A k \in Keys : WF_vars(Resolved(k) \/ HandleRejectedListen(k))

-----------------------------------------------------------------------------
(* What is asked for or in line is in limbo for some view: nothing is      *)
(* listened to for nobody.                                                 *)
OnlyReferenced == active \cup ToSet(enqueued) \subseteq Referenced(refs)

(* A document in limbo for some view, current or no longer, is asked for   *)
(* or in line, unless the server has refused an answer about it and it     *)
(* came back since.                                                        *)
LimboIsTracked ==
  \A q \in Queries : view[q].limbo \subseteq active \cup ToSet(enqueued) \cup refused

(* A document that stays in limbo is asked for at last.                    *)
EveryoneIsAsked ==
  \A k \in Keys : k \in ToSet(enqueued) ~> k \in active \/ k \notin Referenced(refs)
=============================================================================
