--------------------------- MODULE HandoffProofs ---------------------------
(***************************************************************************)
(* For every set of sessions and any number of attempts: a transfer moves  *)
(* authority, never copies it, and loses no terminal state.                *)
(***************************************************************************)
EXTENDS Handoff, FiniteSetTheorems, TLAPS

(* While the donor is blocked in a transfer its end of the channel is open *)
(* and the snapshot sent is exactly what it holds.  An attempt it has not  *)
(* begun has no channel.                                                   *)
DonorFrozen ==
  /\ \A a \in Attempt : a > cur => rEnd[a] = "none"
  /\ dpc \in {"connected", "awaitR", "sendC", "disown", "awaitA"}
       => cur \in Attempt /\ dEnd[cur] = "open"
  /\ dpc \in {"awaitR", "sendC", "disown"} => snap[cur] = [tabs |-> dtabs, parsed |-> dparsed]

(* A commit is the donor's last attempt, and it gives up every tab next. *)
CommitIsFinal ==
  /\ committed # {} => /\ committed = {cur}
                       /\ dpc = "disown" \/ dtabs = {}
                       /\ dpc \in {"serving", "disown", "awaitA", "exited", "dead"}
                       /\ dpc = "serving" => ~Upgrade
  /\ dpc \in {"disown", "awaitA"} => committed = {cur}

(* Before a commit the donor holds every session with all its output;      *)
(* the committed snapshot holds every session.                             *)
DonorHoldsAll ==
  /\ committed = {} /\ dpc \notin {"exited", "dead"} => dtabs = Session /\ dparsed = consumed
  /\ committed # {} => snap[cur].tabs = Session

(* A C on its way is the commit's, nobody has read any PTY since, and the  *)
(* receiver has adopted nothing yet.                                       *)
CommitInFlight ==
  /\ \A a \in Attempt : "C" \in toR[a] => /\ a \in committed
                                          /\ rtabs = {}
                                          /\ snap[a].parsed = consumed
  /\ rtabs # {} => committed # {} /\ rpc \in {"adopted", "serving"}

(* Signals sent: a donor's only at an exit without commit, a receiver's    *)
(* only at an exit after adoption.                                         *)
SignalsExplained ==
  /\ (\E s \in Session : <<"donor", s>> \in hups) => dpc = "exited" /\ committed = {}
  /\ (\E s \in Session : <<"receiver", s>> \in hups) => rpc = "dead" /\ committed # {}

(* An early stop keeps the receiver short of R. *)
EarlyStop ==
  stopEarly => /\ rstop
               /\ rpc \in {"listening", "waiting", "accepted", "staged", "closing", "dead"}
               /\ rtabs = {}
               /\ \A s \in Session : <<"receiver", s>> \notin hups

HandoffInv == /\ HandoffTypeOK
              /\ DonorFrozen
              /\ CommitIsFinal
              /\ DonorHoldsAll
              /\ CommitInFlight
              /\ AdoptedStateIsCurrent
              /\ SignalsExplained
              /\ EarlyStop

(* Counting a chunk keeps the type of the counters. *)
LEMMA CountUp ==
  ASSUME NEW f \in Counts, NEW s \in Session
  PROVE  [f EXCEPT ![s] = @ + 1] \in Counts
  BY DEF Counts

(* So does queueing a marker on a channel. *)
LEMMA MarkerQueued ==
  ASSUME NEW M, NEW f \in [Attempt -> SUBSET M], NEW a \in Attempt, NEW m \in M
  PROVE  [f EXCEPT ![a] = @ \cup {m}] \in [Attempt -> SUBSET M]
  OBVIOUS

(* So does changing the state of a channel's end. *)
LEMMA EndSet ==
  ASSUME NEW E, NEW f \in [Attempt -> E], NEW a \in Attempt, NEW e \in E
  PROVE  [f EXCEPT ![a] = e] \in [Attempt -> E]
  OBVIOUS

(* Init establishes the invariant. *)
LEMMA HandoffInitInv == Init => HandoffInv
  <1> SUFFICES ASSUME Init PROVE HandoffInv
    OBVIOUS
  <1>1. HandoffTypeOK
    <2> USE HandoffAssumption DEF Init, NoSnap, Attempt, Counts
    <2>1. DonorTypeOK
      BY DEF DonorTypeOK, DonorState
    <2>2. ReceiverTypeOK
      BY DEF ReceiverTypeOK, ReceiverState
    <2>3. SignalTypeOK
      BY DEF SignalTypeOK
    <2>4. ChannelTypeOK
      BY DEF ChannelTypeOK
    <2>5. GhostTypeOK
      BY DEF GhostTypeOK
    <2> QED BY <2>1, <2>2, <2>3, <2>4, <2>5 DEF HandoffTypeOK
  <1>2. DonorFrozen /\ CommitIsFinal /\ DonorHoldsAll
    BY DEF Init, DonorFrozen, CommitIsFinal, DonorHoldsAll
  <1>3. CommitInFlight /\ AdoptedStateIsCurrent /\ SignalsExplained /\ EarlyStop
    BY DEF Init, CommitInFlight, AdoptedStateIsCurrent, SignalsExplained, EarlyStop
  <1> QED BY <1>1, <1>2, <1>3 DEF HandoffInv

(* Every step of either daemon preserves it. *)
LEMMA HandoffStepInv == HandoffInv /\ [Next]_vars => HandoffInv'
  <1> SUFFICES ASSUME HandoffInv, [Next]_vars PROVE HandoffInv'
    OBVIOUS
  <1>0. Upgrade' = Upgrade
    BY DEF Next, vars, Upgrade
  <1> USE HandoffAssumption, <1>0
      DEF HandoffInv, HandoffTypeOK, DonorFrozen, CommitIsFinal, DonorHoldsAll, CommitInFlight,
             AdoptedStateIsCurrent, SignalsExplained, EarlyStop, Counts, DonorState, ReceiverState,
          DonorTypeOK, ReceiverTypeOK, SignalTypeOK, ChannelTypeOK, GhostTypeOK, Attempt, dvars, rvars, cvars, gvars, EndsClosed, ReceiverEndsClosed
  <1>1. CASE DonorSpawn
    <2> USE <1>1 DEF DonorSpawn
    <2>1. HandoffTypeOK'
      <3>1. DonorTypeOK'
        OBVIOUS
      <3>2. ReceiverTypeOK'
        OBVIOUS
      <3>3. SignalTypeOK'
        OBVIOUS
      <3>4. ChannelTypeOK'
        OBVIOUS
      <3>5. GhostTypeOK'
        OBVIOUS
      <3> QED BY <3>1, <3>2, <3>3, <3>4, <3>5
    <2>2. DonorFrozen'
      OBVIOUS
    <2>3. CommitIsFinal'
      OBVIOUS
    <2>4. DonorHoldsAll'
      OBVIOUS
    <2>5. CommitInFlight'
      OBVIOUS
    <2>6. AdoptedStateIsCurrent'
      OBVIOUS
    <2>7. SignalsExplained'
      OBVIOUS
    <2>8. EarlyStop'
      OBVIOUS
    <2> HIDE <1>1 DEF DonorSpawn,
             HandoffTypeOK, DonorFrozen, CommitIsFinal, DonorHoldsAll, CommitInFlight,
             AdoptedStateIsCurrent, SignalsExplained, EarlyStop
    <2> QED BY <2>1, <2>2, <2>3, <2>4, <2>5, <2>6, <2>7, <2>8 DEF HandoffInv
  <1>2. CASE DonorConnect
    <2> USE <1>2 DEF DonorConnect
    <2>1. HandoffTypeOK'
      <3>0. cur + 1 \in Attempt /\ cur + 1 \in 0..MaxAttempts /\ cur' = cur + 1
        OBVIOUS
      <3>1. DonorTypeOK'
        <4>1. dpc' \in DonorState
          OBVIOUS
        <4>2. dtabs' = dtabs /\ dparsed' = dparsed
          OBVIOUS
        <4> QED BY <3>0, <4>1, <4>2
      <3>2. ReceiverTypeOK'
        <4>1. rEnd[cur + 1] = "none"
          BY <3>0
        <4>2. \A a \in Attempt : rEnd[a] = "open" => rEnd'[a] = "open"
          BY <3>0, <4>1
        <4> QED BY <4>2
      <3>3. SignalTypeOK'
        OBVIOUS
      <3>4. ChannelTypeOK'
        OBVIOUS
      <3>5. GhostTypeOK'
        OBVIOUS
      <3> QED BY <3>1, <3>2, <3>3, <3>4, <3>5
    <2>2. DonorFrozen'
      OBVIOUS
    <2>3. CommitIsFinal'
      OBVIOUS
    <2>4. DonorHoldsAll'
      OBVIOUS
    <2>5. CommitInFlight'
      OBVIOUS
    <2>6. AdoptedStateIsCurrent'
      OBVIOUS
    <2>7. SignalsExplained'
      OBVIOUS
    <2>8. EarlyStop'
      OBVIOUS
    <2> HIDE <1>2 DEF DonorConnect,
             HandoffTypeOK, DonorFrozen, CommitIsFinal, DonorHoldsAll, CommitInFlight,
             AdoptedStateIsCurrent, SignalsExplained, EarlyStop
    <2> QED BY <2>1, <2>2, <2>3, <2>4, <2>5, <2>6, <2>7, <2>8 DEF HandoffInv
  <1>3. CASE DonorSendH
    BY <1>3 DEF DonorSendH
  <1>4. CASE DonorTakeR
    BY <1>4 DEF DonorTakeR
  <1>5. CASE DonorSendC
    <2> USE <1>5 DEF DonorSendC
    <2>1. HandoffTypeOK'
      <3>1. DonorTypeOK'
        OBVIOUS
      <3>2. ReceiverTypeOK'
        OBVIOUS
      <3>3. SignalTypeOK'
        OBVIOUS
      <3>4. ChannelTypeOK'
        OBVIOUS
      <3>5. GhostTypeOK'
        OBVIOUS
      <3> QED BY <3>1, <3>2, <3>3, <3>4, <3>5
    <2>2. DonorFrozen'
      OBVIOUS
    <2>3. CommitIsFinal'
      OBVIOUS
    <2>4. DonorHoldsAll'
      OBVIOUS
    <2>5. CommitInFlight'
      OBVIOUS
    <2>6. AdoptedStateIsCurrent'
      OBVIOUS
    <2>7. SignalsExplained'
      OBVIOUS
    <2>8. EarlyStop'
      OBVIOUS
    <2> HIDE <1>5 DEF DonorSendC,
             HandoffTypeOK, DonorFrozen, CommitIsFinal, DonorHoldsAll, CommitInFlight,
             AdoptedStateIsCurrent, SignalsExplained, EarlyStop
    <2> QED BY <2>1, <2>2, <2>3, <2>4, <2>5, <2>6, <2>7, <2>8 DEF HandoffInv
  <1>6. CASE DonorDisown
    BY <1>6 DEF DonorDisown
  <1>7. CASE DonorFinish
    BY <1>7 DEF DonorFinish
  <1>8. CASE DonorFail
    BY <1>8 DEF DonorFail
  <1>9. CASE DonorReject
    BY <1>9 DEF DonorReject
  <1>10. CASE DonorRejectFails
    BY <1>10 DEF DonorRejectFails
  <1>11. CASE DonorStop
    <2> USE <1>11 DEF DonorStop
    <2>1. HandoffTypeOK'
      <3>1. DonorTypeOK'
        OBVIOUS
      <3>2. ReceiverTypeOK'
        OBVIOUS
      <3>3. SignalTypeOK'
        OBVIOUS
      <3>4. ChannelTypeOK'
        OBVIOUS
      <3>5. GhostTypeOK'
        OBVIOUS
      <3> QED BY <3>1, <3>2, <3>3, <3>4, <3>5
    <2>2. DonorFrozen'
      OBVIOUS
    <2>3. CommitIsFinal'
      OBVIOUS
    <2>4. DonorHoldsAll'
      OBVIOUS
    <2>5. CommitInFlight'
      OBVIOUS
    <2>6. AdoptedStateIsCurrent'
      OBVIOUS
    <2>7. SignalsExplained'
      OBVIOUS
    <2>8. EarlyStop'
      OBVIOUS
    <2> HIDE <1>11 DEF DonorStop,
             HandoffTypeOK, DonorFrozen, CommitIsFinal, DonorHoldsAll, CommitInFlight,
             AdoptedStateIsCurrent, SignalsExplained, EarlyStop
    <2> QED BY <2>1, <2>2, <2>3, <2>4, <2>5, <2>6, <2>7, <2>8 DEF HandoffInv
  <1>12. CASE DonorCrash
    BY <1>12 DEF DonorCrash
  <1>13. CASE ReceiverAccept
    <2> USE <1>13 DEF ReceiverAccept
    <2>1. HandoffTypeOK'
      <3>1. DonorTypeOK'
        OBVIOUS
      <3>2. ReceiverTypeOK'
        OBVIOUS
      <3>3. SignalTypeOK'
        OBVIOUS
      <3>4. ChannelTypeOK'
        OBVIOUS
      <3>5. GhostTypeOK'
        OBVIOUS
      <3> QED BY <3>1, <3>2, <3>3, <3>4, <3>5
    <2>2. DonorFrozen'
      OBVIOUS
    <2>3. CommitIsFinal'
      OBVIOUS
    <2>4. DonorHoldsAll'
      OBVIOUS
    <2>5. CommitInFlight'
      OBVIOUS
    <2>6. AdoptedStateIsCurrent'
      OBVIOUS
    <2>7. SignalsExplained'
      OBVIOUS
    <2>8. EarlyStop'
      OBVIOUS
    <2> HIDE <1>13 DEF ReceiverAccept,
             HandoffTypeOK, DonorFrozen, CommitIsFinal, DonorHoldsAll, CommitInFlight,
             AdoptedStateIsCurrent, SignalsExplained, EarlyStop
    <2> QED BY <2>1, <2>2, <2>3, <2>4, <2>5, <2>6, <2>7, <2>8 DEF HandoffInv
  <1>14. CASE ReceiverAbandon
    BY <1>14 DEF ReceiverAbandon
  <1>15. CASE ReceiverStage
    BY <1>15 DEF ReceiverStage
  <1>16. CASE ReceiverCheckStop
    BY <1>16 DEF ReceiverCheckStop
  <1>17. CASE ReceiverReady
    <2> USE <1>17 DEF ReceiverReady
    <2>1. HandoffTypeOK'
      <3>1. DonorTypeOK'
        OBVIOUS
      <3>2. ReceiverTypeOK'
        OBVIOUS
      <3>3. SignalTypeOK'
        OBVIOUS
      <3>4. ChannelTypeOK'
        <4>1. CASE dEnd[rch] = "open"
          <5>1. toD \in [Attempt -> SUBSET {"R", "A"}] /\ rch \in Attempt /\ "R" \in {"R", "A"}
            OBVIOUS
          <5>2. toD' = [toD EXCEPT ![rch] = @ \cup {"R"}]
            BY <4>1
          <5>3. toD' \in [Attempt -> SUBSET {"R", "A"}]
            BY <5>1, <5>2, MarkerQueued
          <5> QED BY <5>3
        <4>2. CASE dEnd[rch] # "open"
          BY <4>2
        <4> QED BY <4>1, <4>2
      <3>5. GhostTypeOK'
        OBVIOUS
      <3> QED BY <3>1, <3>2, <3>3, <3>4, <3>5
    <2>2. DonorFrozen'
      OBVIOUS
    <2>3. CommitIsFinal'
      OBVIOUS
    <2>4. DonorHoldsAll'
      OBVIOUS
    <2>5. CommitInFlight'
      OBVIOUS
    <2>6. AdoptedStateIsCurrent'
      OBVIOUS
    <2>7. SignalsExplained'
      OBVIOUS
    <2>8. EarlyStop'
      OBVIOUS
    <2> HIDE <1>17 DEF ReceiverReady,
             HandoffTypeOK, DonorFrozen, CommitIsFinal, DonorHoldsAll, CommitInFlight,
             AdoptedStateIsCurrent, SignalsExplained, EarlyStop
    <2> QED BY <2>1, <2>2, <2>3, <2>4, <2>5, <2>6, <2>7, <2>8 DEF HandoffInv
  <1>18. CASE ReceiverAdopt
    <2> USE <1>18 DEF ReceiverAdopt
    <2>1. HandoffTypeOK'
      OBVIOUS
    <2>2. DonorFrozen'
      OBVIOUS
    <2>3. CommitIsFinal'
      OBVIOUS
    <2>4. DonorHoldsAll'
      OBVIOUS
    <2>5. CommitInFlight'
      OBVIOUS
    <2>6. AdoptedStateIsCurrent'
      OBVIOUS
    <2>7. SignalsExplained'
      OBVIOUS
    <2>8. EarlyStop'
      OBVIOUS
    <2> HIDE <1>18 DEF ReceiverAdopt,
             HandoffTypeOK, DonorFrozen, CommitIsFinal, DonorHoldsAll, CommitInFlight,
             AdoptedStateIsCurrent, SignalsExplained, EarlyStop
    <2> QED BY <2>1, <2>2, <2>3, <2>4, <2>5, <2>6, <2>7, <2>8 DEF HandoffInv
  <1>19. CASE ReceiverAck
    BY <1>19 DEF ReceiverAck
  <1>20. CASE ReceiverFail
    BY <1>20 DEF ReceiverFail
  <1>21. CASE ReceiverClose
    BY <1>21 DEF ReceiverClose
  <1>22. CASE StopSignal
    <2> USE <1>22 DEF StopSignal
    <2>1. HandoffTypeOK'
      <3>1. DonorTypeOK'
        OBVIOUS
      <3>2. ReceiverTypeOK'
        OBVIOUS
      <3>3. SignalTypeOK'
        OBVIOUS
      <3>4. ChannelTypeOK'
        OBVIOUS
      <3>5. GhostTypeOK'
        OBVIOUS
      <3> QED BY <3>1, <3>2, <3>3, <3>4, <3>5
    <2>2. DonorFrozen'
      OBVIOUS
    <2>3. CommitIsFinal'
      OBVIOUS
    <2>4. DonorHoldsAll'
      OBVIOUS
    <2>5. CommitInFlight'
      OBVIOUS
    <2>6. AdoptedStateIsCurrent'
      OBVIOUS
    <2>7. SignalsExplained'
      OBVIOUS
    <2>8. EarlyStop'
      OBVIOUS
    <2> HIDE <1>22 DEF StopSignal,
             HandoffTypeOK, DonorFrozen, CommitIsFinal, DonorHoldsAll, CommitInFlight,
             AdoptedStateIsCurrent, SignalsExplained, EarlyStop
    <2> QED BY <2>1, <2>2, <2>3, <2>4, <2>5, <2>6, <2>7, <2>8 DEF HandoffInv
  <1>23. CASE ReceiverStop
    <2> USE <1>23 DEF ReceiverStop
    <2>1. HandoffTypeOK'
      <3>1. DonorTypeOK'
        OBVIOUS
      <3>2. ReceiverTypeOK'
        OBVIOUS
      <3>3. SignalTypeOK'
        OBVIOUS
      <3>4. ChannelTypeOK'
        OBVIOUS
      <3>5. GhostTypeOK'
        OBVIOUS
      <3> QED BY <3>1, <3>2, <3>3, <3>4, <3>5
    <2>2. DonorFrozen'
      OBVIOUS
    <2>3. CommitIsFinal'
      OBVIOUS
    <2>4. DonorHoldsAll'
      OBVIOUS
    <2>5. CommitInFlight'
      OBVIOUS
    <2>6. AdoptedStateIsCurrent'
      OBVIOUS
    <2>7. SignalsExplained'
      OBVIOUS
    <2>8. EarlyStop'
      OBVIOUS
    <2> HIDE <1>23 DEF ReceiverStop,
             HandoffTypeOK, DonorFrozen, CommitIsFinal, DonorHoldsAll, CommitInFlight,
             AdoptedStateIsCurrent, SignalsExplained, EarlyStop
    <2> QED BY <2>1, <2>2, <2>3, <2>4, <2>5, <2>6, <2>7, <2>8 DEF HandoffInv
  <1>24. CASE ReceiverCrash
    BY <1>24 DEF ReceiverCrash
  <1>25. ASSUME NEW s \in Session, DonorRead(s) PROVE HandoffInv'
    <2> USE <1>25 DEF DonorRead
    <2>1. HandoffTypeOK'
      <3>0. dparsed \in Counts /\ consumed \in Counts
        OBVIOUS
      <3>1. DonorTypeOK'
        BY <3>0, CountUp, Zenon
      <3>2. ReceiverTypeOK'
        OBVIOUS
      <3>3. SignalTypeOK'
        OBVIOUS
      <3>4. ChannelTypeOK'
        OBVIOUS
      <3>5. GhostTypeOK'
        BY <3>0, CountUp, Zenon
      <3> QED BY <3>1, <3>2, <3>3, <3>4, <3>5
    <2>2. DonorFrozen'
      OBVIOUS
    <2>3. CommitIsFinal'
      OBVIOUS
    <2>4. DonorHoldsAll'
      OBVIOUS
    <2>5. CommitInFlight'
      OBVIOUS
    <2>6. AdoptedStateIsCurrent'
      OBVIOUS
    <2>7. SignalsExplained'
      OBVIOUS
    <2>8. EarlyStop'
      OBVIOUS
    <2> HIDE <1>25 DEF DonorRead,
             HandoffTypeOK, DonorFrozen, CommitIsFinal, DonorHoldsAll, CommitInFlight,
             AdoptedStateIsCurrent, SignalsExplained, EarlyStop
    <2> QED BY <2>1, <2>2, <2>3, <2>4, <2>5, <2>6, <2>7, <2>8 DEF HandoffInv
  <1>26. ASSUME NEW s \in Session, ReceiverRead(s) PROVE HandoffInv'
    <2> USE <1>26 DEF ReceiverRead
    <2>1. HandoffTypeOK'
      <3>1. DonorTypeOK'
        OBVIOUS
      <3>2. ReceiverTypeOK'
        OBVIOUS
      <3>3. SignalTypeOK'
        OBVIOUS
      <3>4. ChannelTypeOK'
        OBVIOUS
      <3>5. GhostTypeOK'
        OBVIOUS
      <3> QED BY <3>1, <3>2, <3>3, <3>4, <3>5
    <2>2. DonorFrozen'
      OBVIOUS
    <2>3. CommitIsFinal'
      OBVIOUS
    <2>4. DonorHoldsAll'
      OBVIOUS
    <2>5. CommitInFlight'
      OBVIOUS
    <2>6. AdoptedStateIsCurrent'
      OBVIOUS
    <2>7. SignalsExplained'
      OBVIOUS
    <2>8. EarlyStop'
      OBVIOUS
    <2> HIDE <1>26 DEF ReceiverRead,
             HandoffTypeOK, DonorFrozen, CommitIsFinal, DonorHoldsAll, CommitInFlight,
             AdoptedStateIsCurrent, SignalsExplained, EarlyStop
    <2> QED BY <2>1, <2>2, <2>3, <2>4, <2>5, <2>6, <2>7, <2>8 DEF HandoffInv
  <1>27. CASE UNCHANGED vars
    <2> USE <1>27 DEF vars
    <2>1. HandoffTypeOK'
      <3>1. DonorTypeOK'
        OBVIOUS
      <3>2. ReceiverTypeOK'
        OBVIOUS
      <3>3. SignalTypeOK'
        OBVIOUS
      <3>4. ChannelTypeOK'
        OBVIOUS
      <3>5. GhostTypeOK'
        OBVIOUS
      <3> QED BY <3>1, <3>2, <3>3, <3>4, <3>5
    <2>2. DonorFrozen'
      OBVIOUS
    <2>3. CommitIsFinal'
      OBVIOUS
    <2>4. DonorHoldsAll'
      OBVIOUS
    <2>5. CommitInFlight'
      OBVIOUS
    <2>6. AdoptedStateIsCurrent'
      OBVIOUS
    <2>7. SignalsExplained'
      OBVIOUS
    <2>8. EarlyStop'
      OBVIOUS
    <2> HIDE <1>27 DEF vars,
             HandoffTypeOK, DonorFrozen, CommitIsFinal, DonorHoldsAll, CommitInFlight,
             AdoptedStateIsCurrent, SignalsExplained, EarlyStop
    <2> QED BY <2>1, <2>2, <2>3, <2>4, <2>5, <2>6, <2>7, <2>8 DEF HandoffInv
  <1> QED BY <1>1, <1>2, <1>3, <1>4, <1>5, <1>6, <1>7, <1>8, <1>9, <1>10, <1>11, <1>12, <1>13, <1>14, <1>15, <1>16, <1>17, <1>18, <1>19, <1>20, <1>21, <1>22, <1>23, <1>24, <1>25, <1>26, <1>27
          DEF Next, DonorProtocol, ReceiverProtocol

(* The invariant holds in every reachable state. *)
LEMMA HandoffInvariant == Spec => []HandoffInv
  BY HandoffInitInv, HandoffStepInv, PTL DEF Spec

(* The states of both daemons and of every channel are well formed. *)
THEOREM HandoffTypeCorrect == Spec => []HandoffTypeOK
  BY HandoffInvariant, PTL DEF HandoffInv

(* No interleaving of attempts, timeouts, stops and crashes gives two      *)
(* daemons authority over one PTY.                                         *)
THEOREM AuthorityIsExclusive == Spec => []ExclusiveAuthority
  <1>1. HandoffInv => ExclusiveAuthority
    BY DEF HandoffInv, CommitIsFinal, CommitInFlight, ExclusiveAuthority, DonorActs, ReceiverActs
  <1> QED BY <1>1, HandoffInvariant, PTL

(* A donor that has not sent C still holds every session. *)
THEOREM FailureLeavesDonorOwner == Spec => []DonorRetainsUntilCommit
  <1>1. HandoffInv => DonorRetainsUntilCommit
    <2> SUFFICES ASSUME HandoffInv PROVE DonorRetainsUntilCommit
      OBVIOUS
    <2>1. CASE committed = {}
      BY <2>1 DEF HandoffInv, DonorHoldsAll, DonorRetainsUntilCommit
    <2>2. CASE committed # {}
      <3>1. cur \in committed /\ snap[cur].tabs = Session
        BY <2>2 DEF HandoffInv, CommitIsFinal, DonorHoldsAll
      <3>2. Session \subseteq Given
        BY <3>1 DEF Given
      <3> QED BY <3>2 DEF DonorRetainsUntilCommit
    <2> QED BY <2>1, <2>2
  <1> QED BY <1>1, HandoffInvariant, PTL

(* The adopted terminal state contains every chunk read from the PTY. *)
THEOREM TransferLosesNoOutput == Spec => []AdoptedStateIsCurrent
  BY HandoffInvariant, PTL DEF HandoffInv

(* A donor never signals the shells it has given away. *)
THEOREM GivenShellsAreSafe == Spec => []GivenSessionsNotSignalled
  <1>1. HandoffInv => GivenSessionsNotSignalled
    <2> SUFFICES ASSUME HandoffInv, NEW s \in Given PROVE <<"donor", s>> \notin hups
      BY DEF GivenSessionsNotSignalled
    <2>1. PICK a \in committed : s \in snap[a].tabs
      BY DEF Given
    <2>2. s \in Session
      BY <2>1 DEF HandoffInv, HandoffTypeOK, ChannelTypeOK, GhostTypeOK
    <2> QED BY <2>1, <2>2 DEF HandoffInv, SignalsExplained
  <1> QED BY <1>1, HandoffInvariant, PTL

(* A receiver asked to stop before R adopts, and so kills, no shell. *)
THEOREM StoppedReceiverTakesNothing == Spec => []StoppedReceiverNeverAdopts
  <1>1. HandoffInv => StoppedReceiverNeverAdopts
    BY DEF HandoffInv, EarlyStop, StoppedReceiverNeverAdopts
  <1> QED BY <1>1, HandoffInvariant, PTL

-----------------------------------------------------------------------------
(* What the phases of the two daemons imply about the markers on a channel.*)
(* None of these clauses follows from HandoffInv; each is needed by the    *)
(* next one.                                                               *)

Receiving == {"accepted", "staged", "cleared", "awaitC", "adopted", "closing"}

(* A channel is untouched until the donor has sent H on it. *)
FreshChannel ==
  \A a \in Attempt :
    a > cur \/ (a = cur /\ dpc = "connected") => toR[a] = {} /\ toD[a] = {}

(* The receiver holds the end of the one channel it works on. *)
OpenEndIsHeld == \A a \in Attempt : rEnd[a] = "open" => rch = a /\ rpc \in Receiving

(* A receiver past H has taken it, so the donor has sent it. *)
StagedTookH ==
  rpc \in {"staged", "cleared", "awaitC", "adopted"} =>
    "H" \notin toR[rch] /\ ~(rch = cur /\ dpc = "connected")

(* R is sent once: the receiver is past it on that channel for good. *)
Answered(a) == "R" \in toD[a] \/ a \in committed \/ (a = cur /\ dpc = "sendC")
AnsweredOnce ==
  \A a \in Attempt : Answered(a) =>
    /\ "H" \notin toR[a]
    /\ rEnd[a] = "closed" \/ (rEnd[a] = "open" /\ rpc \in {"awaitC", "adopted", "closing"})

(* The donor takes R before it sends C, and A answers C. *)
ReadyWasTaken ==
  /\ \A a \in Attempt : a \in committed \/ (a = cur /\ dpc = "sendC") => "R" \notin toD[a]
  /\ \A a \in Attempt : "A" \in toD[a] => a \in committed

(* A receiver that serves, or is about to, was given the sessions by a C. *)
AdoptionIsCommitted ==
  /\ rpc = "adopted" => rch \in committed
  /\ rpc = "serving" => committed # {}

MarkerInv == /\ FreshChannel
             /\ OpenEndIsHeld
             /\ StagedTookH
             /\ AnsweredOnce
             /\ ReadyWasTaken
             /\ AdoptionIsCommitted

(* Init establishes it. *)
LEMMA MarkerInitInv == Init => MarkerInv
  BY HandoffAssumption
     DEF Init, MarkerInv, FreshChannel, OpenEndIsHeld, StagedTookH, AnsweredOnce, Answered,
         ReadyWasTaken, AdoptionIsCommitted, Receiving

(* Every step preserves it, given what HandoffInv says of the same state. *)
LEMMA MarkerStepInv == HandoffInv /\ MarkerInv /\ [Next]_vars => MarkerInv'
  <1> SUFFICES ASSUME HandoffInv, MarkerInv, [Next]_vars PROVE MarkerInv'
    OBVIOUS
  <1> USE HandoffAssumption
      DEF HandoffInv, HandoffTypeOK, DonorTypeOK, ReceiverTypeOK, ChannelTypeOK, GhostTypeOK,
          DonorFrozen, CommitIsFinal, CommitInFlight, Attempt, Receiving, EndsClosed,
          ReceiverEndsClosed, dvars, rvars, cvars, gvars,
          MarkerInv, FreshChannel, OpenEndIsHeld, StagedTookH, AnsweredOnce, Answered,
          ReadyWasTaken, AdoptionIsCommitted
  <1>1. CASE DonorSpawn
    <2> USE <1>1 DEF DonorSpawn
    <2>1. FreshChannel'
      OBVIOUS
    <2>2. OpenEndIsHeld'
      OBVIOUS
    <2>3. StagedTookH'
      OBVIOUS
    <2>4. AnsweredOnce'
      OBVIOUS
    <2>5. ReadyWasTaken'
      OBVIOUS
    <2>6. AdoptionIsCommitted'
      OBVIOUS
    <2> QED BY <2>1, <2>2, <2>3, <2>4, <2>5, <2>6
  <1>2. CASE DonorConnect
    <2> USE <1>2 DEF DonorConnect
    <2>1. FreshChannel'
      OBVIOUS
    <2>2. OpenEndIsHeld'
      OBVIOUS
    <2>3. StagedTookH'
      OBVIOUS
    <2>4. AnsweredOnce'
      OBVIOUS
    <2>5. ReadyWasTaken'
      OBVIOUS
    <2>6. AdoptionIsCommitted'
      OBVIOUS
    <2> QED BY <2>1, <2>2, <2>3, <2>4, <2>5, <2>6
  <1>3. CASE DonorSendH
    <2> USE <1>3 DEF DonorSendH
    <2>1. FreshChannel'
      OBVIOUS
    <2>2. OpenEndIsHeld'
      OBVIOUS
    <2>3. StagedTookH'
      OBVIOUS
    <2>4. AnsweredOnce'
      OBVIOUS
    <2>5. ReadyWasTaken'
      OBVIOUS
    <2>6. AdoptionIsCommitted'
      OBVIOUS
    <2> QED BY <2>1, <2>2, <2>3, <2>4, <2>5, <2>6
  <1>4. CASE DonorTakeR
    <2> USE <1>4 DEF DonorTakeR
    <2>1. FreshChannel'
      OBVIOUS
    <2>2. OpenEndIsHeld'
      OBVIOUS
    <2>3. StagedTookH'
      OBVIOUS
    <2>4. AnsweredOnce'
      OBVIOUS
    <2>5. ReadyWasTaken'
      OBVIOUS
    <2>6. AdoptionIsCommitted'
      OBVIOUS
    <2> QED BY <2>1, <2>2, <2>3, <2>4, <2>5, <2>6
  <1>5. CASE DonorSendC
    <2> USE <1>5 DEF DonorSendC
    <2>1. FreshChannel'
      OBVIOUS
    <2>2. OpenEndIsHeld'
      OBVIOUS
    <2>3. StagedTookH'
      OBVIOUS
    <2>4. AnsweredOnce'
      OBVIOUS
    <2>5. ReadyWasTaken'
      OBVIOUS
    <2>6. AdoptionIsCommitted'
      OBVIOUS
    <2> QED BY <2>1, <2>2, <2>3, <2>4, <2>5, <2>6
  <1>6. CASE DonorDisown
    <2> USE <1>6 DEF DonorDisown
    <2>1. FreshChannel'
      OBVIOUS
    <2>2. OpenEndIsHeld'
      OBVIOUS
    <2>3. StagedTookH'
      OBVIOUS
    <2>4. AnsweredOnce'
      OBVIOUS
    <2>5. ReadyWasTaken'
      OBVIOUS
    <2>6. AdoptionIsCommitted'
      OBVIOUS
    <2> QED BY <2>1, <2>2, <2>3, <2>4, <2>5, <2>6
  <1>7. CASE DonorFinish
    <2> USE <1>7 DEF DonorFinish
    <2>1. FreshChannel'
      OBVIOUS
    <2>2. OpenEndIsHeld'
      OBVIOUS
    <2>3. StagedTookH'
      OBVIOUS
    <2>4. AnsweredOnce'
      OBVIOUS
    <2>5. ReadyWasTaken'
      OBVIOUS
    <2>6. AdoptionIsCommitted'
      OBVIOUS
    <2> QED BY <2>1, <2>2, <2>3, <2>4, <2>5, <2>6
  <1>8. CASE DonorFail
    <2> USE <1>8 DEF DonorFail
    <2>1. FreshChannel'
      OBVIOUS
    <2>2. OpenEndIsHeld'
      OBVIOUS
    <2>3. StagedTookH'
      OBVIOUS
    <2>4. AnsweredOnce'
      OBVIOUS
    <2>5. ReadyWasTaken'
      OBVIOUS
    <2>6. AdoptionIsCommitted'
      OBVIOUS
    <2> QED BY <2>1, <2>2, <2>3, <2>4, <2>5, <2>6
  <1>9. CASE DonorReject
    <2> USE <1>9 DEF DonorReject
    <2>1. FreshChannel'
      OBVIOUS
    <2>2. OpenEndIsHeld'
      OBVIOUS
    <2>3. StagedTookH'
      OBVIOUS
    <2>4. AnsweredOnce'
      OBVIOUS
    <2>5. ReadyWasTaken'
      OBVIOUS
    <2>6. AdoptionIsCommitted'
      OBVIOUS
    <2> QED BY <2>1, <2>2, <2>3, <2>4, <2>5, <2>6
  <1>10. CASE DonorRejectFails
    <2> USE <1>10 DEF DonorRejectFails
    <2>1. FreshChannel'
      OBVIOUS
    <2>2. OpenEndIsHeld'
      OBVIOUS
    <2>3. StagedTookH'
      OBVIOUS
    <2>4. AnsweredOnce'
      OBVIOUS
    <2>5. ReadyWasTaken'
      OBVIOUS
    <2>6. AdoptionIsCommitted'
      OBVIOUS
    <2> QED BY <2>1, <2>2, <2>3, <2>4, <2>5, <2>6
  <1>11. CASE DonorStop
    <2> USE <1>11 DEF DonorStop
    <2>1. FreshChannel'
      OBVIOUS
    <2>2. OpenEndIsHeld'
      OBVIOUS
    <2>3. StagedTookH'
      OBVIOUS
    <2>4. AnsweredOnce'
      OBVIOUS
    <2>5. ReadyWasTaken'
      OBVIOUS
    <2>6. AdoptionIsCommitted'
      OBVIOUS
    <2> QED BY <2>1, <2>2, <2>3, <2>4, <2>5, <2>6
  <1>12. CASE DonorCrash
    <2> USE <1>12 DEF DonorCrash
    <2>1. FreshChannel'
      OBVIOUS
    <2>2. OpenEndIsHeld'
      OBVIOUS
    <2>3. StagedTookH'
      OBVIOUS
    <2>4. AnsweredOnce'
      OBVIOUS
    <2>5. ReadyWasTaken'
      OBVIOUS
    <2>6. AdoptionIsCommitted'
      OBVIOUS
    <2> QED BY <2>1, <2>2, <2>3, <2>4, <2>5, <2>6
  <1>13. CASE ReceiverAccept
    <2> USE <1>13 DEF ReceiverAccept
    <2>1. FreshChannel'
      OBVIOUS
    <2>2. OpenEndIsHeld'
      OBVIOUS
    <2>3. StagedTookH'
      OBVIOUS
    <2>4. AnsweredOnce'
      OBVIOUS
    <2>5. ReadyWasTaken'
      OBVIOUS
    <2>6. AdoptionIsCommitted'
      OBVIOUS
    <2> QED BY <2>1, <2>2, <2>3, <2>4, <2>5, <2>6
  <1>14. CASE ReceiverAbandon
    <2> USE <1>14 DEF ReceiverAbandon
    <2>1. FreshChannel'
      OBVIOUS
    <2>2. OpenEndIsHeld'
      OBVIOUS
    <2>3. StagedTookH'
      OBVIOUS
    <2>4. AnsweredOnce'
      OBVIOUS
    <2>5. ReadyWasTaken'
      OBVIOUS
    <2>6. AdoptionIsCommitted'
      OBVIOUS
    <2> QED BY <2>1, <2>2, <2>3, <2>4, <2>5, <2>6
  <1>15. CASE ReceiverStage
    <2> USE <1>15 DEF ReceiverStage
    <2>1. FreshChannel'
      OBVIOUS
    <2>2. OpenEndIsHeld'
      OBVIOUS
    <2>3. StagedTookH'
      OBVIOUS
    <2>4. AnsweredOnce'
      OBVIOUS
    <2>5. ReadyWasTaken'
      OBVIOUS
    <2>6. AdoptionIsCommitted'
      OBVIOUS
    <2> QED BY <2>1, <2>2, <2>3, <2>4, <2>5, <2>6
  <1>16. CASE ReceiverCheckStop
    <2> USE <1>16 DEF ReceiverCheckStop
    <2>1. FreshChannel'
      OBVIOUS
    <2>2. OpenEndIsHeld'
      OBVIOUS
    <2>3. StagedTookH'
      OBVIOUS
    <2>4. AnsweredOnce'
      OBVIOUS
    <2>5. ReadyWasTaken'
      OBVIOUS
    <2>6. AdoptionIsCommitted'
      OBVIOUS
    <2> QED BY <2>1, <2>2, <2>3, <2>4, <2>5, <2>6
  <1>17. CASE ReceiverReady
    <2> USE <1>17 DEF ReceiverReady
    <2>1. FreshChannel'
      OBVIOUS
    <2>2. OpenEndIsHeld'
      OBVIOUS
    <2>3. StagedTookH'
      OBVIOUS
    <2>4. AnsweredOnce'
      OBVIOUS
    <2>5. ReadyWasTaken'
      OBVIOUS
    <2>6. AdoptionIsCommitted'
      OBVIOUS
    <2> QED BY <2>1, <2>2, <2>3, <2>4, <2>5, <2>6
  <1>18. CASE ReceiverAdopt
    <2> USE <1>18 DEF ReceiverAdopt
    <2>1. FreshChannel'
      OBVIOUS
    <2>2. OpenEndIsHeld'
      OBVIOUS
    <2>3. StagedTookH'
      OBVIOUS
    <2>4. AnsweredOnce'
      OBVIOUS
    <2>5. ReadyWasTaken'
      OBVIOUS
    <2>6. AdoptionIsCommitted'
      OBVIOUS
    <2> QED BY <2>1, <2>2, <2>3, <2>4, <2>5, <2>6
  <1>19. CASE ReceiverAck
    <2> USE <1>19 DEF ReceiverAck
    <2>1. FreshChannel'
      OBVIOUS
    <2>2. OpenEndIsHeld'
      OBVIOUS
    <2>3. StagedTookH'
      OBVIOUS
    <2>4. AnsweredOnce'
      OBVIOUS
    <2>5. ReadyWasTaken'
      OBVIOUS
    <2>6. AdoptionIsCommitted'
      OBVIOUS
    <2> QED BY <2>1, <2>2, <2>3, <2>4, <2>5, <2>6
  <1>20. CASE ReceiverFail
    <2> USE <1>20 DEF ReceiverFail
    <2>1. FreshChannel'
      OBVIOUS
    <2>2. OpenEndIsHeld'
      OBVIOUS
    <2>3. StagedTookH'
      OBVIOUS
    <2>4. AnsweredOnce'
      OBVIOUS
    <2>5. ReadyWasTaken'
      OBVIOUS
    <2>6. AdoptionIsCommitted'
      OBVIOUS
    <2> QED BY <2>1, <2>2, <2>3, <2>4, <2>5, <2>6
  <1>21. CASE ReceiverClose
    <2> USE <1>21 DEF ReceiverClose
    <2>1. FreshChannel'
      OBVIOUS
    <2>2. OpenEndIsHeld'
      OBVIOUS
    <2>3. StagedTookH'
      OBVIOUS
    <2>4. AnsweredOnce'
      OBVIOUS
    <2>5. ReadyWasTaken'
      OBVIOUS
    <2>6. AdoptionIsCommitted'
      OBVIOUS
    <2> QED BY <2>1, <2>2, <2>3, <2>4, <2>5, <2>6
  <1>22. CASE StopSignal
    <2> USE <1>22 DEF StopSignal
    <2>1. FreshChannel'
      OBVIOUS
    <2>2. OpenEndIsHeld'
      OBVIOUS
    <2>3. StagedTookH'
      OBVIOUS
    <2>4. AnsweredOnce'
      OBVIOUS
    <2>5. ReadyWasTaken'
      OBVIOUS
    <2>6. AdoptionIsCommitted'
      OBVIOUS
    <2> QED BY <2>1, <2>2, <2>3, <2>4, <2>5, <2>6
  <1>23. CASE ReceiverStop
    <2> USE <1>23 DEF ReceiverStop
    <2>1. FreshChannel'
      OBVIOUS
    <2>2. OpenEndIsHeld'
      OBVIOUS
    <2>3. StagedTookH'
      OBVIOUS
    <2>4. AnsweredOnce'
      OBVIOUS
    <2>5. ReadyWasTaken'
      OBVIOUS
    <2>6. AdoptionIsCommitted'
      OBVIOUS
    <2> QED BY <2>1, <2>2, <2>3, <2>4, <2>5, <2>6
  <1>24. CASE ReceiverCrash
    <2> USE <1>24 DEF ReceiverCrash
    <2>1. FreshChannel'
      OBVIOUS
    <2>2. OpenEndIsHeld'
      OBVIOUS
    <2>3. StagedTookH'
      OBVIOUS
    <2>4. AnsweredOnce'
      OBVIOUS
    <2>5. ReadyWasTaken'
      OBVIOUS
    <2>6. AdoptionIsCommitted'
      OBVIOUS
    <2> QED BY <2>1, <2>2, <2>3, <2>4, <2>5, <2>6
  <1>25. ASSUME NEW s \in Session, DonorRead(s) PROVE MarkerInv'
    BY <1>25 DEF DonorRead
  <1>26. ASSUME NEW s \in Session, ReceiverRead(s) PROVE MarkerInv'
    BY <1>26 DEF ReceiverRead
  <1>27. CASE UNCHANGED vars
    BY <1>27 DEF vars
  <1> HIDE DEF MarkerInv, HandoffInv
  <1> QED BY <1>1, <1>2, <1>3, <1>4, <1>5, <1>6, <1>7, <1>8, <1>9, <1>10, <1>11, <1>12, <1>13, <1>14, <1>15, <1>16, <1>17, <1>18, <1>19, <1>20, <1>21, <1>22, <1>23, <1>24, <1>25, <1>26, <1>27
          DEF Next, DonorProtocol, ReceiverProtocol

LEMMA MarkerInvariant == Spec => []MarkerInv
  BY HandoffInvariant, MarkerInitInv, MarkerStepInv, PTL DEF Spec

(* A set of at most one of two values has at most one element. *)
LEMMA AtMostOneOfTwo ==
  ASSUME NEW x, NEW y, NEW S \in SUBSET {x, y}, ~(x \in S /\ y \in S)
  PROVE  Cardinality(S) <= 1
  <1>1. CASE x \in S
    <2>1. S = {x}
      BY <1>1
    <2> QED BY <2>1, FS_Singleton
  <1>2. CASE x \notin S /\ y \in S
    <2>1. S = {y}
      BY <1>2
    <2> QED BY <2>1, FS_Singleton
  <1>3. CASE x \notin S /\ y \notin S
    <2>1. S = {}
      BY <1>3
    <2> QED BY <2>1, FS_EmptySet
  <1> QED BY <1>1, <1>2, <1>3

(* Neither direction of a channel ever holds two markers, through retries, *)
(* timeouts and crashes: what expect() reads first is what it waits for or *)
(* the failure of the attempt, never a later marker.                       *)
THEOREM MarkersComeOneByOne == Spec => []OneMarkerInFlight
  <1>1. HandoffInv /\ MarkerInv => OneMarkerInFlight
    <2> SUFFICES ASSUME HandoffInv, MarkerInv, NEW a \in Attempt
                 PROVE  Cardinality(toR[a]) <= 1 /\ Cardinality(toD[a]) <= 1
      BY DEF OneMarkerInFlight
    <2>1. toR[a] \in SUBSET {"H", "C"} /\ toD[a] \in SUBSET {"R", "A"}
      BY DEF HandoffInv, HandoffTypeOK, ChannelTypeOK
    <2>2. ~("H" \in toR[a] /\ "C" \in toR[a])
      BY DEF HandoffInv, CommitInFlight, MarkerInv, AnsweredOnce, Answered
    <2>3. ~("R" \in toD[a] /\ "A" \in toD[a])
      BY DEF MarkerInv, ReadyWasTaken
    <2> QED BY <2>1, <2>2, <2>3, AtMostOneOfTwo
  <1> QED BY <1>1, HandoffInvariant, MarkerInvariant, PTL

(* A donor of an upgrade that serves has a receiver that does not: clients *)
(* of the shared listener never meet two daemons.                          *)
THEOREM UpgradeHasOneServer == Spec => []OneServer
  <1>1. HandoffInv /\ MarkerInv => OneServer
    BY DEF HandoffInv, CommitIsFinal, MarkerInv, AdoptionIsCommitted, OneServer
  <1> QED BY <1>1, HandoffInvariant, MarkerInvariant, PTL
=============================================================================
