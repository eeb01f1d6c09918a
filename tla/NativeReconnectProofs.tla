------------------------- MODULE NativeReconnectProofs -------------------------
(***************************************************************************)
(* Safety of the native WebRTC control plane for every set of signaling    *)
(* sessions, every number of attempts and every limit of the listener.     *)
(***************************************************************************)
EXTENDS NativeReconnect, FiniteSetTheorems, TLAPS

\* Every part is needed by another one: OneClaimedPeer tells ActivePeerLost
\* that the lost peer is the link, TypeOK that an attempt is never 0.
IInv ==
    /\ TypeOK
    /\ OneClaimedPeer
    /\ RetryArmed
    /\ ListenerLinkLive
    /\ ClosedHoldsNothing

\* The initial state satisfies the invariant.
LEMMA InitIInv == Init => IInv
<1> SUFFICES ASSUME Init PROVE IInv
  OBVIOUS
<1>1. TypeOK
  <2>1. (CHOOSE s \in Sessions : TRUE) \in Sessions
    BY SessionsAssumption
  <2>2. 0 \in 0 .. MaxAttempts
    BY AttemptsAssumption
  <2>3. Cardinality({}) <= MaxPerPeer
    BY FS_EmptySet, AttemptsAssumption
  <2> QED
    BY <2>1, <2>2, <2>3 DEF Init, TypeOK
<1>2. OneClaimedPeer /\ ListenerLinkLive /\ ClosedHoldsNothing
  BY DEF Init, OneClaimedPeer, ListenerLinkLive, ClosedHoldsNothing
<1>3. RetryArmed
  BY SessionsAssumption DEF Init, RetryArmed
<1> QED
  BY <1>1, <1>2, <1>3 DEF IInv

\* An attempt is a positive number, so 0 never names one.
LEMMA AttemptFacts ==
    /\ 0 \in 0 .. MaxAttempts
    /\ \A a \in Attempt : a # 0 /\ a \in 0 .. MaxAttempts
  BY AttemptsAssumption DEF Attempt

-----------------------------------------------------------------------------
(* Type correctness.                                                        *)

\* The client's steps keep every variable in its type.
LEMMA ClientTypeOK ==
    ASSUME TypeOK, NEW a \in Attempt, NEW s \in Sessions,
           \/ SessionReady(s) \/ StartAttempt(s) \/ RetryFires
           \/ AttemptFails(a) \/ ActivePeerLost(a) \/ ReceiveResponse(a)
           \/ ClaimSucceeds(a) \/ ClaimOfClosedPeer(a) \/ ClaimThrows(a)
           \/ ClientReceivesEnd(a)
           \/ ClientGraceExpires \/ FinalizedClose \/ ClientCloses \/ OverallTimeout
    PROVE  TypeOK'
<1> USE DEF TypeOK, clientVars, listenerVars
<1>1. CASE SessionReady(s)
  BY <1>1 DEF SessionReady
<1>2. CASE StartAttempt(s)
  <2>1. CASE WantsPeer /\ ~\E b \in cOpen : session[b] = s
    <3>1. used + 1 \in Attempt /\ used + 1 \in 0 .. MaxAttempts
      BY <1>2, <2>1, AttemptsAssumption DEF StartAttempt, Attempt
    <3> QED
      BY <1>2, <2>1, <3>1 DEF StartAttempt
  <2>2. CASE ~(WantsPeer /\ ~\E b \in cOpen : session[b] = s)
    BY <1>2, <2>2 DEF StartAttempt
  <2> QED
    BY <2>1, <2>2
<1>3. CASE RetryFires
  BY <1>3 DEF RetryFires
<1>4. CASE AttemptFails(a)
  BY <1>4 DEF AttemptFails, Schedule
<1>5. CASE ActivePeerLost(a)
  BY <1>5, AttemptFacts DEF ActivePeerLost, Schedule
<1>6. CASE ReceiveResponse(a)
  BY <1>6 DEF ReceiveResponse
<1>7. CASE ClaimSucceeds(a)
  BY <1>7, AttemptFacts DEF ClaimSucceeds, OpenAfterClaim
<1>8. CASE ClaimOfClosedPeer(a)
  BY <1>8, AttemptFacts DEF ClaimOfClosedPeer
<1>9. CASE ClaimThrows(a)
  BY <1>9 DEF ClaimThrows, Schedule
<1>10. CASE ClientReceivesEnd(a)
  BY <1>10 DEF ClientReceivesEnd
<1>11. CASE ClientGraceExpires
  BY <1>11 DEF ClientGraceExpires
<1>12. CASE FinalizedClose \/ ClientCloses \/ OverallTimeout
  <2>1. CloseEffect
    BY <1>12 DEF FinalizedClose, ClientCloses, OverallTimeout
  <2>3. outcome' \in {"pending", "resolved", "rejected"}
    BY <1>12 DEF FinalizedClose, ClientCloses, OverallTimeout, OutcomeAfterClose
  <2>2. ended' \in [Attempt -> SUBSET {"client", "listener"}]
    BY <2>1 DEF CloseEffect
  <2> QED
    BY <2>1, <2>2, <2>3, AttemptFacts DEF CloseEffect, OpenAfterClose
<1> QED
  BY <1>1, <1>2, <1>3, <1>4, <1>5, <1>6, <1>7, <1>8, <1>9, <1>10, <1>11, <1>12

\* An open peer more keeps the limit when it is not reached; a peer less always
\* does.
LEMMA LimitFacts ==
    ASSUME TypeOK, NEW a \in Attempt
    PROVE  /\ Cardinality(lOpen) <= MaxPerPeer
           /\ ~AtLimit => Cardinality(lOpen \cup {a}) <= MaxPerPeer
           /\ \A x : Cardinality(lOpen \ {x}) <= MaxPerPeer
<1>1. IsFiniteSet(Attempt)
  BY AttemptsAssumption, FS_Interval DEF Attempt
<1>2. IsFiniteSet(lOpen) /\ Cardinality(lOpen) \in Nat /\ Cardinality(lOpen) <= MaxPerPeer
  BY <1>1, FS_Subset, FS_CardinalityType DEF TypeOK
<1>3. Cardinality(lOpen \cup {a}) = Cardinality(lOpen) \/
      Cardinality(lOpen \cup {a}) = Cardinality(lOpen) + 1
  BY <1>2, FS_AddElement
<1>4. ~AtLimit => Cardinality(lOpen \cup {a}) <= MaxPerPeer
  BY <1>2, <1>3, AttemptsAssumption DEF AtLimit
<1>5. ASSUME NEW x PROVE Cardinality(lOpen \ {x}) <= MaxPerPeer
  <2>1. lOpen \ {x} \in SUBSET lOpen
    OBVIOUS
  <2>2. IsFiniteSet(lOpen \ {x}) /\ Cardinality(lOpen \ {x}) <= Cardinality(lOpen)
    BY <1>2, <2>1, FS_Subset
  <2>3. Cardinality(lOpen \ {x}) \in Nat
    BY <2>2, FS_CardinalityType
  <2> QED
    BY <1>2, <2>2, <2>3, AttemptsAssumption
<1> QED
  BY <1>2, <1>4, <1>5

\* So do the listener's.
LEMMA ListenerTypeOK ==
    ASSUME TypeOK, NEW a \in Attempt,
           \/ AnswerOffer(a) \/ Respond(a) \/ ReceiveReady(a)
           \/ ListenerPeerCloses(a) \/ ListenerReceivesEnd(a)
           \/ ListenerGraceExpires \/ SessionEnds
    PROVE  TypeOK'
<1> USE DEF TypeOK, clientVars, listenerVars
<1>1. CASE AnswerOffer(a)
  BY <1>1, LimitFacts DEF AnswerOffer
<1>2. CASE Respond(a)
  BY <1>2 DEF Respond
<1>3. CASE ReceiveReady(a)
  <2>1. CASE SecondPeerRefused(a)
    BY <1>3, <2>1, LimitFacts DEF ReceiveReady
  <2>2. CASE ~SecondPeerRefused(a)
    <3>1. sids' \in Nat /\ sid' \in Nat
      BY <1>3, <2>2 DEF ReceiveReady
    <3> QED
      BY <1>3, <2>2, <3>1, AttemptFacts DEF ReceiveReady
  <2> QED
    BY <2>1, <2>2
<1>4. CASE ListenerPeerCloses(a)
  BY <1>4, AttemptFacts, LimitFacts DEF ListenerPeerCloses, LinkAfterLoss
<1>5. CASE ListenerReceivesEnd(a)
  BY <1>5, AttemptFacts, LimitFacts DEF ListenerReceivesEnd, StreamFinalized
<1>6. CASE ListenerGraceExpires
  BY <1>6, AttemptFacts, LimitFacts DEF ListenerGraceExpires, StreamFinalized
<1>7. CASE SessionEnds
  BY <1>7, AttemptFacts, LimitFacts DEF SessionEnds, StreamFinalized
<1> QED
  BY <1>1, <1>2, <1>3, <1>4, <1>5, <1>6, <1>7
-----------------------------------------------------------------------------
(* The safety properties, one action at a time.                             *)

\* An authenticated open peer stays the link and stays alone.
LEMMA OneClaimedPeerStep ==
    ASSUME TypeOK, OneClaimedPeer, Next
    PROVE  OneClaimedPeer'
<1> USE DEF OneClaimedPeer, clientVars, listenerVars
<1>1. ASSUME NEW s \in Sessions, StartAttempt(s) PROVE OneClaimedPeer'
  <2>1. CASE WantsPeer /\ ~\E b \in cOpen : session[b] = s
    <3>1. \A b \in cOpen : c[b] # "claimed"
      BY <2>1, AttemptFacts DEF WantsPeer, TypeOK
    <3>2. /\ cOpen' = cOpen \cup {used + 1} /\ link' = link
          /\ c' = [c EXCEPT ![used + 1] = "offered"]
      BY <1>1, <2>1 DEF StartAttempt
    <3>3. used + 1 \in Attempt
      BY <1>1, <2>1, AttemptsAssumption DEF StartAttempt, Attempt, TypeOK
    <3>4. \A b \in cOpen' : c'[b] # "claimed"
      BY <3>1, <3>2, <3>3 DEF TypeOK
    <3> QED
      BY <3>4
  <2>2. CASE ~(WantsPeer /\ ~\E b \in cOpen : session[b] = s)
    BY <1>1, <2>2 DEF StartAttempt
  <2> QED
    BY <2>1, <2>2
<1>2. ASSUME NEW a \in Attempt, AttemptFails(a) PROVE OneClaimedPeer'
  BY <1>2 DEF AttemptFails
<1>3. ASSUME NEW a \in Attempt, ActivePeerLost(a) PROVE OneClaimedPeer'
  BY <1>3 DEF ActivePeerLost
<1>4. ASSUME NEW a \in Attempt, ReceiveResponse(a) PROVE OneClaimedPeer'
  BY <1>4 DEF ReceiveResponse, TypeOK
<1>5. ASSUME NEW a \in Attempt, ClaimSucceeds(a) PROVE OneClaimedPeer'
  BY <1>5 DEF ClaimSucceeds, OpenAfterClaim
<1>6. ASSUME NEW a \in Attempt, ClaimOfClosedPeer(a) PROVE OneClaimedPeer'
  \* link is 0 or a here, and neither can be another attempt's open peer.
  <2>1. \A b \in cOpen : c[b] # "claimed"
    BY <1>6, AttemptFacts DEF ClaimOfClosedPeer, MayClaim, TypeOK
  <2> QED
    BY <1>6, <2>1 DEF ClaimOfClosedPeer, TypeOK
<1>7. ASSUME NEW a \in Attempt, ClaimThrows(a) PROVE OneClaimedPeer'
  BY <1>7 DEF ClaimThrows, TypeOK
<1>8. CASE FinalizedClose \/ ClientCloses \/ OverallTimeout
  BY <1>8 DEF FinalizedClose, ClientCloses, OverallTimeout, CloseEffect, OpenAfterClose
<1>9. ASSUME NEW s \in Sessions, SessionReady(s) PROVE OneClaimedPeer'
  BY <1>9 DEF SessionReady
<1>10. CASE RetryFires
  BY <1>10 DEF RetryFires
<1>11. ASSUME NEW a \in Attempt, ClientReceivesEnd(a) PROVE OneClaimedPeer'
  BY <1>11 DEF ClientReceivesEnd
<1>12. CASE ClientGraceExpires
  BY <1>12 DEF ClientGraceExpires
<1>13. CASE UNCHANGED clientVars
  BY <1>13
<1>14. ASSUME NEW a \in Attempt,
              \/ AnswerOffer(a) \/ Respond(a) \/ ReceiveReady(a)
              \/ ListenerPeerCloses(a) \/ ListenerReceivesEnd(a)
       PROVE  UNCHANGED clientVars
  BY <1>14 DEF AnswerOffer, Respond, ReceiveReady, ListenerPeerCloses,
               ListenerReceivesEnd, StreamFinalized
<1>15. CASE ListenerGraceExpires \/ SessionEnds
  BY <1>15 DEF ListenerGraceExpires, SessionEnds, StreamFinalized
<1> QED
  BY <1>1, <1>2, <1>3, <1>4, <1>5, <1>6, <1>7, <1>8, <1>9, <1>10, <1>11,
     <1>12, <1>13, <1>14, <1>15 DEF Next

\* A client that wants a peer keeps a way to a new attempt.
LEMMA RetryArmedStep ==
    ASSUME TypeOK, OneClaimedPeer, RetryArmed, Next
    PROVE  RetryArmed'
<1> USE DEF RetryArmed, WantsPeer, clientVars, listenerVars
<1>1. ASSUME NEW s \in Sessions, StartAttempt(s) PROVE RetryArmed'
  \* Either it becomes an attempt, or another attempt uses the session.
  BY <1>1 DEF StartAttempt
<1>2. ASSUME NEW a \in Attempt, AttemptFails(a) PROVE RetryArmed'
  BY <1>2 DEF AttemptFails, FailedAttemptSchedules, Schedule
<1>3. ASSUME NEW a \in Attempt, ActivePeerLost(a) PROVE RetryArmed'
  BY <1>3, AttemptFacts DEF ActivePeerLost, Schedule, OneClaimedPeer
<1>4. ASSUME NEW a \in Attempt, ReceiveResponse(a) PROVE RetryArmed'
  BY <1>4 DEF ReceiveResponse
<1>5. ASSUME NEW a \in Attempt, ClaimSucceeds(a) PROVE RetryArmed'
  BY <1>5, AttemptFacts DEF ClaimSucceeds
<1>6. ASSUME NEW a \in Attempt, ClaimOfClosedPeer(a) PROVE RetryArmed'
  BY <1>6, AttemptFacts DEF ClaimOfClosedPeer
<1>7. ASSUME NEW a \in Attempt, ClaimThrows(a) PROVE RetryArmed'
  BY <1>7 DEF ClaimThrows, FailedAttemptSchedules, Schedule
<1>8. CASE FinalizedClose \/ ClientCloses \/ OverallTimeout
  BY <1>8 DEF FinalizedClose, ClientCloses, OverallTimeout, CloseEffect
<1>9. ASSUME NEW s \in Sessions, SessionReady(s) PROVE RetryArmed'
  BY <1>9 DEF SessionReady
<1>10. CASE RetryFires
  BY <1>10, SessionsAssumption DEF RetryFires
<1>11. ASSUME NEW a \in Attempt, ClientReceivesEnd(a) PROVE RetryArmed'
  BY <1>11 DEF ClientReceivesEnd
<1>12. CASE ClientGraceExpires
  BY <1>12 DEF ClientGraceExpires
<1>13. ASSUME NEW a \in Attempt,
              \/ AnswerOffer(a) \/ Respond(a) \/ ReceiveReady(a)
              \/ ListenerPeerCloses(a) \/ ListenerReceivesEnd(a)
       PROVE  RetryArmed'
  BY <1>13 DEF AnswerOffer, Respond, ReceiveReady, ListenerPeerCloses,
               ListenerReceivesEnd, StreamFinalized
<1>14. CASE ListenerGraceExpires \/ SessionEnds
  BY <1>14 DEF ListenerGraceExpires, SessionEnds, StreamFinalized
<1> QED
  BY <1>1, <1>2, <1>3, <1>4, <1>5, <1>6, <1>7, <1>8, <1>9, <1>10, <1>11,
     <1>12, <1>13, <1>14 DEF Next

\* A closed connection takes nothing up again.
LEMMA ClosedHoldsNothingStep ==
    ASSUME ClosedHoldsNothing, Next
    PROVE  ClosedHoldsNothing'
<1> USE DEF ClosedHoldsNothing, clientVars, listenerVars
<1>1. ASSUME NEW s \in Sessions, SessionReady(s) \/ StartAttempt(s)
      PROVE  ClosedHoldsNothing'
  BY <1>1 DEF SessionReady, StartAttempt, WantsPeer
<1>2. ASSUME NEW a \in Attempt,
             \/ AttemptFails(a) \/ ActivePeerLost(a) \/ ReceiveResponse(a)
             \/ ClaimSucceeds(a) \/ ClaimOfClosedPeer(a) \/ ClaimThrows(a)
             \/ ClientReceivesEnd(a)
      PROVE  ClosedHoldsNothing'
  BY <1>2 DEF AttemptFails, ActivePeerLost, ReceiveResponse, ClaimSucceeds,
              ClaimOfClosedPeer, ClaimThrows, ClientReceivesEnd, MayClaim, Schedule,
              FailedAttemptSchedules
<1>3. CASE FinalizedClose \/ ClientCloses \/ OverallTimeout
  BY <1>3 DEF FinalizedClose, ClientCloses, OverallTimeout, CloseEffect, OpenAfterClose
<1>4. CASE RetryFires \/ ClientGraceExpires
  BY <1>4 DEF RetryFires, ClientGraceExpires
<1>5. ASSUME NEW a \in Attempt,
             \/ AnswerOffer(a) \/ Respond(a) \/ ReceiveReady(a)
             \/ ListenerPeerCloses(a) \/ ListenerReceivesEnd(a)
      PROVE  ClosedHoldsNothing'
  BY <1>5 DEF AnswerOffer, Respond, ReceiveReady, ListenerPeerCloses,
              ListenerReceivesEnd, StreamFinalized
<1>6. CASE ListenerGraceExpires \/ SessionEnds
  BY <1>6 DEF ListenerGraceExpires, SessionEnds, StreamFinalized
<1> QED
  BY <1>1, <1>2, <1>3, <1>4, <1>5, <1>6 DEF Next

\* The listener's stream stays bound to an open authenticated peer.
LEMMA ListenerLinkLiveStep ==
    ASSUME TypeOK, ListenerLinkLive, Next
    PROVE  ListenerLinkLive'
<1> USE DEF ListenerLinkLive, clientVars, listenerVars, TypeOK
<1>1. ASSUME NEW a \in Attempt, AnswerOffer(a) PROVE ListenerLinkLive'
  BY <1>1 DEF AnswerOffer
<1>2. ASSUME NEW a \in Attempt, Respond(a) PROVE ListenerLinkLive'
  BY <1>2 DEF Respond
<1>3. ASSUME NEW a \in Attempt, ReceiveReady(a) PROVE ListenerLinkLive'
  <2>1. CASE SecondPeerRefused(a)
    BY <1>3, <2>1 DEF ReceiveReady, SecondPeerRefused
  <2>2. CASE ~SecondPeerRefused(a)
    BY <1>3, <2>2 DEF ReceiveReady
  <2> QED
    BY <2>1, <2>2
<1>4. ASSUME NEW a \in Attempt, ListenerPeerCloses(a) PROVE ListenerLinkLive'
  BY <1>4 DEF ListenerPeerCloses, LinkAfterLoss
<1>5. CASE StreamFinalized
  BY <1>5 DEF StreamFinalized
<1>6. CASE UNCHANGED listenerVars
  BY <1>6
<1>7. ASSUME NEW s \in Sessions, SessionReady(s) \/ StartAttempt(s)
      PROVE  UNCHANGED listenerVars
  BY <1>7 DEF SessionReady, StartAttempt
<1>9. ASSUME NEW a \in Attempt,
             \/ AttemptFails(a) \/ ActivePeerLost(a) \/ ReceiveResponse(a)
             \/ ClaimSucceeds(a) \/ ClaimOfClosedPeer(a) \/ ClaimThrows(a)
             \/ ClientReceivesEnd(a)
      PROVE  UNCHANGED listenerVars
  BY <1>9 DEF AttemptFails, ActivePeerLost, ReceiveResponse, ClaimSucceeds,
              ClaimOfClosedPeer, ClaimThrows, ClientReceivesEnd
<1>10. ASSUME \/ RetryFires \/ ClientGraceExpires
              \/ FinalizedClose \/ ClientCloses \/ OverallTimeout
       PROVE  UNCHANGED listenerVars
  BY <1>10 DEF RetryFires, ClientGraceExpires, FinalizedClose, ClientCloses,
               OverallTimeout, CloseEffect
<1>8. CASE (\E a \in Attempt : ListenerReceivesEnd(a)) \/ ListenerGraceExpires \/ SessionEnds
  BY <1>5, <1>8 DEF ListenerReceivesEnd, ListenerGraceExpires, SessionEnds
<1> QED
  BY <1>1, <1>2, <1>3, <1>4, <1>6, <1>7, <1>8, <1>9, <1>10 DEF Next
-----------------------------------------------------------------------------
\* Every step preserves the invariant.
LEMMA StepIInv == IInv /\ [Next]_vars => IInv'
<1> SUFFICES ASSUME IInv, [Next]_vars PROVE IInv'
  OBVIOUS
<1>1. CASE UNCHANGED vars
  BY <1>1 DEF vars, clientVars, listenerVars, IInv, TypeOK, OneClaimedPeer,
              RetryArmed, WantsPeer, ListenerLinkLive, ClosedHoldsNothing
<1>2. CASE Next
  <2>1. TypeOK'
    <3>1. 1 \in Attempt /\ \E s \in Sessions : TRUE
      BY SessionsAssumption, AttemptsAssumption DEF Attempt
    <3>2. ASSUME NEW s \in Sessions, SessionReady(s) \/ StartAttempt(s) PROVE TypeOK'
      BY <3>1, <3>2, ClientTypeOK DEF IInv
    <3>3. ASSUME \/ RetryFires \/ ClientGraceExpires \/ FinalizedClose
                 \/ ClientCloses \/ OverallTimeout
          PROVE  TypeOK'
      BY <3>1, <3>3, ClientTypeOK DEF IInv
    <3>4. ASSUME NEW a \in Attempt,
                 \/ AttemptFails(a) \/ ActivePeerLost(a) \/ ReceiveResponse(a)
                 \/ ClaimSucceeds(a) \/ ClaimOfClosedPeer(a) \/ ClaimThrows(a)
                 \/ ClientReceivesEnd(a)
          PROVE  TypeOK'
      BY <3>1, <3>4, ClientTypeOK DEF IInv
    <3>5. ASSUME NEW a \in Attempt,
                 \/ AnswerOffer(a) \/ Respond(a) \/ ReceiveReady(a)
                 \/ ListenerPeerCloses(a) \/ ListenerReceivesEnd(a)
          PROVE  TypeOK'
      BY <3>5, ListenerTypeOK DEF IInv
    <3>6. ASSUME ListenerGraceExpires \/ SessionEnds PROVE TypeOK'
      BY <3>1, <3>6, ListenerTypeOK DEF IInv
    <3> QED
      BY <1>2, <3>2, <3>3, <3>4, <3>5, <3>6 DEF Next
  <2> QED
    BY <1>2, <2>1, OneClaimedPeerStep, RetryArmedStep, ClosedHoldsNothingStep,
       ListenerLinkLiveStep DEF IInv
<1> QED
  BY <1>1, <1>2

\* The invariant holds in every reachable state.
THEOREM Invariance == Spec => []IInv
<1>1. Init => IInv
  BY InitIInv
<1>2. IInv /\ [Next]_vars => IInv'
  BY StepIInv
<1> QED
  BY <1>1, <1>2, PTL DEF Spec

\* Type correctness of both sides of the control plane.
THEOREM TypeCorrect == Spec => []TypeOK
<1>1. IInv => TypeOK
  BY DEF IInv
<1> QED
  BY <1>1, Invariance, PTL

\* However many signaling adapters race, at most one authenticated peer of the
\* client is open, and it is the link of the stream.
THEOREM SingleWinner == Spec => []OneClaimedPeer
<1>1. IInv => OneClaimedPeer
  BY DEF IInv
<1> QED
  BY <1>1, Invariance, PTL

\* The client never runs out of attempts while it wants a peer.
THEOREM KeepsTrying == Spec => []RetryArmed
<1>1. IInv => RetryArmed
  BY DEF IInv
<1> QED
  BY <1>1, Invariance, PTL

\* The listener's stream never points to a closed or unauthenticated peer.
THEOREM LiveListenerLink == Spec => []ListenerLinkLive
<1>1. IInv => ListenerLinkLive
  BY DEF IInv
<1> QED
  BY <1>1, Invariance, PTL

\* After close() no verification, timer or signaling session that was under way
\* brings a peer back.
THEOREM CloseIsFinal == Spec => []ClosedHoldsNothing
<1>1. IInv => ClosedHoldsNothing
  BY DEF IInv
<1> QED
  BY <1>1, Invariance, PTL
=============================================================================
