------------------------------ MODULE Rendezvous ------------------------------
(* How two holders of a pairing token meet in the DHT: the listener          *)
(* publishes the rendezvous identifiers of three epochs and publishes again  *)
(* after an interval (advertiseSelf); a client, whose clock differs, looks   *)
(* three epochs up until it finds one or its time is over (resolveTarget,    *)
(* dhtAddresses). Time is counted in ticks; `now` is the listener's clock.   *)
EXTENDS Integers

CONSTANTS
  Interval,      \* DEFAULT_RENDEZVOUS_INTERVAL_SECONDS, also the reprovide time
  ProvideTime,   \* a provide() answers or times out within this time
  Retry,         \* retryMs
  Patience,      \* timeoutMs of the client
  MaxSkew,       \* bound: how far the clocks differ
  MaxTime        \* bound

\* Records outlive a behaviour; a provide is shorter than an interval.
ASSUME RendezvousAssumption ==
  /\ {Interval, ProvideTime, Retry, Patience, MaxTime} \subseteq Nat \ {0}
  /\ ProvideTime < Interval /\ MaxSkew \in Nat /\ MaxSkew < Interval
  /\ 2 * Interval <= MaxTime

VARIABLES
  now, skew,
  listener,    \* "providing", "sleeping", "retrying", "stopped"
  epoch,       \* baseEpoch of the identifiers being or last published
  due,         \* when the provide times out, or the sleep is over
  fresh,       \* the last provide succeeded
  records,     \* epochs whose identifier is in the DHT
  client,      \* "idle", "searching", "found", "gaveUp"
  until,       \* the client's deadline while it searches
  missed       \* its last lookup found nothing although the records were fresh

rendezvousVars == <<now, skew, listener, epoch, due, fresh, records, client, until, missed>>

Epoch(time) == time \div Interval

\* Mutant: only the present and the past epoch.
Windows_NoFuture(e) == {e - 1, e}
\* pairingRendezvousWindows with the offsets -1, 0, 1.
Windows(e) == {e - 1, e, e + 1}

RendezvousInit ==
  /\ now = 2 * Interval /\ skew \in -MaxSkew .. MaxSkew
  /\ listener = "providing" /\ epoch = Epoch(now) /\ due = now + ProvideTime
  /\ fresh = FALSE /\ records = {}
  /\ client = "idle" /\ until = 0 /\ missed = FALSE

\* Time passes up to what is due next.
Tick ==
  /\ now < MaxTime
  /\ listener # "stopped" => now < due
  /\ client = "searching" => now < until
  /\ now' = now + 1
  /\ UNCHANGED <<skew, listener, epoch, due, fresh, records, client, until, missed>>

\* Every provide() of the round has answered.
Published ==
  /\ listener = "providing"
  /\ listener' = "sleeping" /\ due' = now + Interval
  /\ records' = records \union Windows(epoch) /\ fresh' = TRUE
  /\ UNCHANGED <<now, skew, epoch, client, until, missed>>

\* One of them failed; the others may have been stored.
PublishFails ==
  /\ listener = "providing"
  /\ listener' = "retrying" /\ due' = now + Retry
  /\ records' \in {records, records \union Windows(epoch)}
  /\ fresh' = FALSE
  /\ UNCHANGED <<now, skew, epoch, client, until, missed>>

PublishAgain ==
  /\ listener \in {"sleeping", "retrying"} /\ now = due
  /\ listener' = "providing" /\ epoch' = Epoch(now) /\ due' = now + ProvideTime
  /\ UNCHANGED <<now, skew, fresh, records, client, until, missed>>

\* The signal aborts the sleep or the provides.
ListenerStops ==
  /\ listener # "stopped"
  /\ listener' = "stopped" /\ fresh' = FALSE
  /\ UNCHANGED <<now, skew, epoch, due, records, client, until, missed>>

Search ==
  /\ client = "idle"
  /\ client' = "searching" /\ until' = now + Patience
  /\ UNCHANGED <<now, skew, listener, epoch, due, fresh, records, missed>>

\* A record under one of the client's identifiers, derived anew for each round.
Found == Windows(Epoch(now + skew)) \intersect records # {}

\* One round of the search.
LookUp ==
  /\ client = "searching"
  /\ client' = IF Found THEN "found" ELSE client
  /\ until' = IF Found THEN 0 ELSE until
  /\ missed' = (~Found /\ fresh)
  /\ UNCHANGED <<now, skew, listener, epoch, due, fresh, records>>

GiveUp ==
  /\ client = "searching" /\ now = until
  /\ client' = "gaveUp" /\ until' = 0
  /\ UNCHANGED <<now, skew, listener, epoch, due, fresh, records, missed>>

RendezvousNext ==
  Tick \/ Published \/ PublishFails \/ PublishAgain \/ ListenerStops \/ Search \/ LookUp \/ GiveUp

RendezvousSpec == RendezvousInit /\ [][RendezvousNext]_rendezvousVars

--------------------------------------------------------------------------------
RendezvousTypeOK ==
  /\ now \in 0 .. MaxTime /\ skew \in -MaxSkew .. MaxSkew
  /\ listener \in {"providing", "sleeping", "retrying", "stopped"}
  /\ epoch \in Nat /\ {due, until} \subseteq Nat
  /\ fresh \in BOOLEAN /\ missed \in BOOLEAN
  /\ records \subseteq Int
  /\ client \in {"idle", "searching", "found", "gaveUp"}

(* Clocks that differ do not keep the two apart: as long as the last round   *)
(* of the listener succeeded, every lookup of the client finds a common      *)
(* identifier, also while the next round is under way. A client may be as    *)
(* far ahead as an interval less the time of two rounds, and may be behind.  *)
Meets == skew + 2 * ProvideTime <= Interval => ~missed
=============================================================================
