-------------------------- MODULE SessionRaceProofs --------------------------
(***************************************************************************)
(* Proofs about SessionRace, for any set of clients and every mode of the  *)
(* listener.                                                               *)
(***************************************************************************)
EXTENDS SessionRace, TLAPS

\* A stream that was given to a session function set handled first, and a
\* stream is in its session only after that.
Admission ==
    /\ began # {} => handled
    /\ \A s \in Stream : srv[s] = "session" => s \in began

\* Without a token no stream is ever in the handshake; then firstSession
\* settles only when a session ends, and the listener stops only after that.
Stopping ==
    /\ \A s \in Stream : srv[s] # "auth"
    /\ completed # "pending" => \E s \in began : srv[s] = "over"
    /\ ~up => completed # "pending"

IInv == TypeOK /\ Admission /\ OneSession /\ (~token => Stopping)

-----------------------------------------------------------------------------
LEMMA InitIInv == Init => IInv
<1> SUFFICES ASSUME Init PROVE IInv
  OBVIOUS
<1>1. TypeOK
  BY DEF Init, TypeOK
<1> QED
  BY <1>1 DEF Init, IInv, Admission, OneSession, Stopping

\* Choosing a winner keeps the types of what it changes.
LEMMA FulfilType ==
  ASSUME TypeOK, NEW s \in Stream, Fulfil(s)
  PROVE  /\ dial' \in [Stream -> {"dialing", "open", "done", "failed"}]
         /\ winner' \in [Client -> {{}} \cup {{t} : t \in Stream}]
         /\ down' \subseteq Stream
<1>1. Rival(s) \in Stream /\ s[1] \in Client
  BY DEF Rival, Stream, Transport
<1>2. CASE winner[s[1]] # {}
  BY <1>2 DEF Fulfil, TypeOK
<1>3. CASE winner[s[1]] = {}
  <2>1. winner' = [winner EXCEPT ![s[1]] = {s}]
    BY <1>3 DEF Fulfil
  <2>2. winner' \in [Client -> {{}} \cup {{t} : t \in Stream}]
    BY <1>1, <2>1 DEF TypeOK
  <2>3. dial' \in [Stream -> {"dialing", "open", "done", "failed"}]
    BY <1>1, <1>3 DEF Fulfil, TypeOK
  <2>4. down' \subseteq Stream
    BY <1>1, <1>3 DEF Fulfil, TypeOK
  <2> QED
    BY <2>2, <2>3, <2>4
<1> QED
  BY <1>2, <1>3

\* A step of a client leaves the listener's state alone.
LEMMA ClientStep ==
  ASSUME IInv, TypeOK', UNCHANGED listenerVars, UNCHANGED options
  PROVE  IInv'
  BY DEF IInv, options, listenerVars, Admission, OneSession, Stopping

LEMMA OpensIInv ==
  ASSUME IInv, UNCHANGED options, NEW s \in Stream, Opens(s)
  PROVE  IInv'
<1>1. UNCHANGED listenerVars /\ UNCHANGED left
  BY DEF Opens
<1>2. /\ dial' \in [Stream -> {"dialing", "open", "done", "failed"}]
      /\ winner' \in [Client -> {{}} \cup {{t} : t \in Stream}]
      /\ down' \subseteq Stream
  <2>1. CASE token
    BY <2>1 DEF Opens, IInv, TypeOK
  <2>2. CASE ~token
    BY <2>2, FulfilType DEF Opens, IInv
  <2> QED
    BY <2>1, <2>2
<1>3. TypeOK'
  BY <1>1, <1>2 DEF IInv, TypeOK, listenerVars, options
<1> QED
  BY <1>1, <1>3, ClientStep

LEMMA AckIInv ==
  ASSUME IInv, UNCHANGED options, NEW s \in Stream, AckArrives(s)
  PROVE  IInv'
<1>1. TypeOK'
  BY FulfilType DEF AckArrives, IInv, TypeOK, listenerVars, options
<1> QED
  BY <1>1, ClientStep DEF AckArrives

LEMMA FailsIInv ==
  ASSUME IInv, UNCHANGED options, NEW s \in Stream, AttemptFails(s)
  PROVE  IInv'
<1>1. TypeOK'
  BY DEF AttemptFails, IInv, TypeOK, listenerVars, options
<1> QED
  BY <1>1, ClientStep DEF AttemptFails

LEMMA LeavesIInv ==
  ASSUME IInv, UNCHANGED options, NEW k \in Client, ClientLeaves(k)
  PROVE  IInv'
<1>1. TypeOK'
  BY DEF ClientLeaves, IInv, TypeOK, listenerVars, options
<1> QED
  BY <1>1, ClientStep DEF ClientLeaves

LEMMA ArrivesIInv ==
  ASSUME IInv, UNCHANGED options, NEW s \in Stream, Arrives(s)
  PROVE  IInv'
<1>1. TypeOK'
  BY DEF Arrives, CompletedAfterRefusal, IInv, TypeOK, clientVars, options
<1>2. Admission'
  BY DEF Arrives, IInv, options, TypeOK, Admission
<1>3. OneSession'
  BY DEF Arrives, Full, IInv, options, TypeOK, Admission, OneSession
<1>4. ~token => Stopping'
  BY DEF Arrives, CompletedAfterRefusal, IInv, options, TypeOK, Stopping
<1> QED
  BY <1>1, <1>2, <1>3, <1>4 DEF IInv, options

LEMMA PassesIInv ==
  ASSUME IInv, UNCHANGED options, NEW s \in Stream, AuthPasses(s)
  PROVE  IInv'
<1>1. TypeOK'
  BY DEF AuthPasses, CompletedAfterRefusal, IInv, TypeOK, clientVars, options
<1>2. Admission'
  BY DEF AuthPasses, IInv, options, TypeOK, Admission
<1>3. OneSession'
  BY DEF AuthPasses, FullAfterAuth, Full, IInv, options, TypeOK, Admission, OneSession
<1>4. token'
  BY DEF AuthPasses, IInv, Stopping, options
<1> QED
  BY <1>1, <1>2, <1>3, <1>4 DEF IInv

LEMMA AuthFailsIInv ==
  ASSUME IInv, UNCHANGED options, NEW s \in Stream, AuthFails(s)
  PROVE  IInv'
<1>1. TypeOK'
  BY DEF AuthFails, Settle, IInv, TypeOK, clientVars, options
<1>2. Admission'
  BY DEF AuthFails, IInv, options, TypeOK, Admission
<1>3. OneSession'
  BY DEF AuthFails, IInv, options, OneSession
<1>4. token'
  BY DEF AuthFails, IInv, Stopping, options
<1> QED
  BY <1>1, <1>2, <1>3, <1>4 DEF IInv

LEMMA EndsIInv ==
  ASSUME IInv, UNCHANGED options, NEW s \in Stream, SessionEnds(s)
  PROVE  IInv'
<1>1. TypeOK'
  BY DEF SessionEnds, Settle, IInv, TypeOK, clientVars, options
<1>2. Admission'
  BY DEF SessionEnds, IInv, options, TypeOK, Admission
<1>3. OneSession'
  BY DEF SessionEnds, IInv, options, OneSession
<1>4. ~token => Stopping'
  BY DEF SessionEnds, IInv, options, TypeOK, Admission, Stopping
<1> QED
  BY <1>1, <1>2, <1>3, <1>4 DEF IInv, options

LEMMA StopsIInv ==
  ASSUME IInv, UNCHANGED options, ListenerStops
  PROVE  IInv'
  BY DEF ListenerStops, IInv, TypeOK, Admission, OneSession, Stopping, clientVars, options

\* Every step preserves the invariant.
LEMMA StepIInv == IInv /\ [Next]_vars => IInv'
<1> SUFFICES ASSUME IInv, [Next]_vars PROVE IInv'
  OBVIOUS
<1>0. UNCHANGED options
  BY DEF Next, vars
<1>1. ASSUME NEW s \in Stream,
             \/ Opens(s) \/ AckArrives(s) \/ AttemptFails(s)
             \/ Arrives(s) \/ AuthPasses(s) \/ AuthFails(s) \/ SessionEnds(s)
      PROVE  IInv'
  BY <1>1, <1>0, OpensIInv, AckIInv, FailsIInv, ArrivesIInv, PassesIInv,
     AuthFailsIInv, EndsIInv
<1>2. ASSUME NEW k \in Client, ClientLeaves(k) PROVE IInv'
  BY <1>0, <1>2, LeavesIInv
<1>3. CASE ListenerStops
  BY <1>0, <1>3, StopsIInv
<1>4. CASE UNCHANGED vars
  <2>1. TypeOK'
    BY <1>4 DEF vars, options, clientVars, listenerVars, IInv, TypeOK
  <2> QED
    BY <1>0, <1>4, <2>1, ClientStep DEF vars
<1> QED
  BY <1>1, <1>2, <1>3, <1>4 DEF Next

\* The invariant holds in every reachable state.
THEOREM Invariance == Spec => []IInv
<1>1. Init => IInv
  BY InitIInv
<1>2. IInv /\ [Next]_vars => IInv'
  BY StepIInv
<1> QED
  BY <1>1, <1>2, PTL DEF Spec

\* Type correctness of the race, with at most one winner per client.
THEOREM TypeCorrect == Spec => []TypeOK
<1>1. IInv => TypeOK
  BY DEF IInv
<1> QED
  BY <1>1, Invariance, PTL

\* However many clients race and whatever passes the handshake together, a
\* one-shot listener (runListener) accepts one session.
THEOREM AcceptsOne == Spec => []OneSession
<1>1. IInv => OneSession
  BY DEF IInv
<1> QED
  BY <1>1, Invariance, PTL

\* Without a pairing token a one-shot listener stops only after the session it
\* accepted has ended.
THEOREM StopsLast == Spec => []StopsAfterItsSession
<1>1. IInv => StopsAfterItsSession
  BY DEF IInv, Stopping, StopsAfterItsSession
<1> QED
  BY <1>1, Invariance, PTL
=============================================================================
