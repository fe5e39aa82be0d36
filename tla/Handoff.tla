------------------------------ MODULE Handoff ------------------------------
(***************************************************************************)
(* The transfer of live PTYs from one daemon to another: handoff.rs,       *)
(* handoff_io.rs, service_handoff.rs, service_upgrade.rs and the receiver  *)
(* child of upgrade_io.rs.                                                 *)
(*                                                                         *)
(* The donor sends its tabs' descriptors and sealed state (marker H); the  *)
(* receiver stages them without authority and answers R; the donor sends   *)
(* C, which is irrevocable, and disowns; the receiver adopts and sends A.  *)
(* Every wait has a five-second timeout and either process may be killed   *)
(* or asked to stop at any time.                                           *)
(*                                                                         *)
(* A manual transfer (WIRE_HANDIN, WIRE_HANDOFF) goes to one listening     *)
(* receiver, which keeps listening after a failed attempt.  An upgrade     *)
(* starts a fresh child as the receiver of each attempt.  In a loopback a  *)
(* daemon that listens is told to send its tabs to itself.                 *)
(***************************************************************************)
EXTENDS Integers, FiniteSets

CONSTANTS Session,     \* the shell sessions the donor starts with
          MaxAttempts, \* bound on transfers the donor starts
          MaxRead,     \* bound on output chunks read from one PTY
          Kinds,       \* how transfers may be made
          Crashes      \* TRUE: either process may be killed

ASSUME HandoffAssumption == /\ MaxAttempts \in Nat
                            /\ MaxRead \in Nat
                            /\ Kinds \subseteq {"manual", "loopback", "upgrade"}
                            /\ Crashes \in BOOLEAN

Attempt == 1..MaxAttempts
Counts == [Session -> Nat]

VARIABLES
  kind,      \* how this donor's tabs are transferred
  dpc,       \* where the donor is
  dtabs,     \* the donor's Service::tabs
  dparsed,   \* output chunks in the donor's terminal state, per session
  cur,       \* the donor's latest attempt, 0 before the first
  rpc,       \* where the receiver is
  rtabs,     \* the sessions in the receiver's Service::tabs
  rparsed,   \* output chunks in the receiver's terminal state, per session
  rch,       \* the attempt the receiver has accepted, 0 for none
  rstop,     \* a stop signal is pending at the receiver
  stopEarly, \* that signal arrived before the receiver's check for it
  snap,      \* per attempt, the sealed snapshot the donor sent
  dEnd,      \* per attempt, the donor's end of the socket
  rEnd,      \* per attempt, the receiver's end of the socket
  toR,       \* per attempt, markers on their way to the receiver
  toD,       \* per attempt, markers on their way to the donor
  committed, \* the attempts whose C was sent
  hups,      \* <<daemon, session>> for every SIGHUP a daemon sent
  consumed   \* output chunks read from each PTY, by whichever daemon

dvars == <<dpc, dtabs, dparsed, cur>>
rvars == <<rpc, rtabs, rparsed, rch, rstop, stopEarly>>
cvars == <<snap, dEnd, rEnd, toR, toD>>
gvars == <<committed, hups, consumed>>
vars == <<kind, dvars, rvars, cvars, gvars>>

Upgrade == kind = "upgrade"
Loopback == kind = "loopback"

NoSnap == [tabs |-> {}, parsed |-> [s \in Session |-> 0]]

(* The donor serves its tabs.  A manual receiver is bound and listening    *)
(* (WIRE_HANDIN was accepted); an upgrade has no receiver yet.             *)
Init ==
  /\ kind \in Kinds
  /\ dpc = "serving"
  /\ dtabs = Session
  /\ dparsed = [s \in Session |-> 0]
  /\ cur = 0
  /\ rpc = IF Upgrade THEN "absent" ELSE "listening"
  /\ rtabs = {}
  /\ rparsed = [s \in Session |-> 0]
  /\ rch = 0
  /\ rstop = FALSE
  /\ stopEarly = FALSE
  /\ snap = [a \in Attempt |-> NoSnap]
  /\ dEnd = [a \in Attempt |-> "none"]
  /\ rEnd = [a \in Attempt |-> "none"]
  /\ toR = [a \in Attempt |-> {}]
  /\ toD = [a \in Attempt |-> {}]
  /\ committed = {}
  /\ hups = {}
  /\ consumed = [s \in Session |-> 0]

-----------------------------------------------------------------------------
(* The donor. *)

(* terminal_ready: output is parsed into the donor's terminal state. *)
DonorRead(s) ==
  /\ dpc = "serving"
  /\ s \in dtabs
  /\ consumed[s] < MaxRead
  /\ consumed' = [consumed EXCEPT ![s] = @ + 1]
  /\ dparsed' = [dparsed EXCEPT ![s] = @ + 1]
  /\ UNCHANGED <<dpc, dtabs, cur, rvars, cvars, committed, hups>>

(* try_upgrade: bind the private listener and spawn the receiver child. *)
DonorSpawn ==
  /\ Upgrade
  /\ dpc = "serving"
  /\ cur < MaxAttempts
  /\ rpc \in {"absent", "dead"}
  /\ dpc' = "spawned"
  /\ rpc' = "waiting"
  /\ rch' = 0
  /\ rstop' = FALSE
  /\ stopEarly' = FALSE
  /\ UNCHANGED <<dtabs, dparsed, cur, rtabs, rparsed, cvars, gvars>>

(* Channel::connect: the connection waits in the listener's backlog until  *)
(* the receiver accepts it.                                                *)
DonorConnect ==
  /\ cur < MaxAttempts
  /\ IF Upgrade
     THEN dpc = "spawned"
     ELSE /\ dpc = "serving"
          /\ dtabs # {}
          /\ rpc \notin {"serving", "adopted", "dead"}
          /\ Loopback => rpc = "listening"
  /\ dpc' = "connected"
  /\ cur' = cur + 1
  /\ dEnd' = [dEnd EXCEPT ![cur + 1] = "open"]
  /\ rEnd' = [rEnd EXCEPT ![cur + 1] = "backlog"]
  /\ UNCHANGED <<dtabs, dparsed, rvars, snap, toR, toD, gvars>>

(* Mutant: the descriptors are given up as soon as they are sent. *)
SendHAndDisown ==
  /\ dpc = "connected"
  /\ rEnd[cur] # "closed"
  /\ snap' = [snap EXCEPT ![cur] = [tabs |-> dtabs, parsed |-> dparsed]]
  /\ toR' = [toR EXCEPT ![cur] = @ \cup {"H"}]
  /\ dpc' = "awaitR"
  /\ dtabs' = {}
  /\ UNCHANGED <<dparsed, cur, rvars, dEnd, rEnd, toD, gvars>>

(* Mutant: a retry sends the snapshot sealed for the first attempt. *)
ResendFirstSnapshot ==
  /\ dpc = "connected"
  /\ rEnd[cur] # "closed"
  /\ snap' = [snap EXCEPT ![cur] = IF snap[1].tabs # {} THEN snap[1]
                                   ELSE [tabs |-> dtabs, parsed |-> dparsed]]
  /\ toR' = [toR EXCEPT ![cur] = @ \cup {"H"}]
  /\ dpc' = "awaitR"
  /\ UNCHANGED <<dtabs, dparsed, cur, rvars, dEnd, rEnd, toD, gvars>>

(* encode, seal and send_descriptors: the snapshot holds every tab and the *)
(* state parsed so far.                                                    *)
DonorSendH ==
  /\ dpc = "connected"
  /\ rEnd[cur] # "closed"
  /\ snap' = [snap EXCEPT ![cur] = [tabs |-> dtabs, parsed |-> dparsed]]
  /\ toR' = [toR EXCEPT ![cur] = @ \cup {"H"}]
  /\ dpc' = "awaitR"
  /\ UNCHANGED <<dtabs, dparsed, cur, rvars, dEnd, rEnd, toD, gvars>>

(* Mutant: the donor does not wait for R. *)
CommitWithoutReady ==
  /\ dpc = "awaitR"
  /\ dpc' = "sendC"
  /\ UNCHANGED <<dtabs, dparsed, cur, rvars, cvars, gvars>>

(* Channel::commit, first half: expect R. *)
DonorTakeR ==
  /\ dpc = "awaitR"
  /\ "R" \in toD[cur]
  /\ toD' = [toD EXCEPT ![cur] = @ \ {"R"}]
  /\ dpc' = "sendC"
  /\ UNCHANGED <<dtabs, dparsed, cur, rvars, snap, dEnd, rEnd, toR, gvars>>

(* Channel::commit, second half: C reaches the peer's queue or fails. *)
DonorSendC ==
  /\ dpc = "sendC"
  /\ rEnd[cur] # "closed"
  /\ toR' = [toR EXCEPT ![cur] = @ \cup {"C"}]
  /\ committed' = committed \cup {cur}
  /\ dpc' = "disown"
  /\ UNCHANGED <<dtabs, dparsed, cur, rvars, snap, dEnd, rEnd, toD, hups, consumed>>

(* Mutant: a committed donor keeps its tabs while it waits for A. *)
DisownLater ==
  /\ dpc = "disown"
  /\ dpc' = "awaitA"
  /\ UNCHANGED <<dtabs, dparsed, cur, rvars, cvars, gvars>>

(* Pty::disown on every terminal, then tabs.clear(). *)
DonorDisown ==
  /\ dpc = "disown"
  /\ dtabs' = {}
  /\ dpc' = "awaitA"
  /\ UNCHANGED <<dparsed, cur, rvars, cvars, gvars>>

(* Mutant: the donor of a committed upgrade goes back to its loop. *)
FinishServing ==
  /\ dpc = "awaitA"
  /\ dpc' = "serving"
  /\ dEnd' = [dEnd EXCEPT ![cur] = "closed"]
  /\ toD' = [toD EXCEPT ![cur] = {}]
  /\ UNCHANGED <<dtabs, dparsed, cur, rvars, snap, rEnd, toR, gvars>>

(* A, a timeout or a closed peer: a committed send succeeds all the same.  *)
(* A manual donor serves on, without the tabs; an upgraded one exits, and  *)
(* dropping its Service would send SIGHUP to every tab left in it.         *)
DonorFinish ==
  /\ dpc = "awaitA"
  /\ dpc' = IF Upgrade THEN "exited" ELSE "serving"
  /\ dEnd' = [dEnd EXCEPT ![cur] = "closed"]
  /\ toD' = [toD EXCEPT ![cur] = {}]
  /\ hups' = hups \cup (IF Upgrade THEN {<<"donor", s>> : s \in dtabs} ELSE {})
  /\ dtabs' = IF Upgrade THEN {} ELSE dtabs
  /\ UNCHANGED <<dparsed, cur, rvars, snap, rEnd, toR, committed, consumed>>

(* Mutant: no timeout on the wait for R. *)
FailOnlyOnClose ==
  /\ \/ dpc \in {"spawned", "connected"}
     \/ dpc = "awaitR" /\ "R" \notin toD[cur] /\ rEnd[cur] = "closed"
     \/ dpc = "sendC" /\ rEnd[cur] = "closed"
  /\ dpc' = IF Upgrade THEN "rejecting" ELSE "serving"
  /\ dEnd' = [dEnd EXCEPT ![cur] = "closed"]
  /\ toD' = [toD EXCEPT ![cur] = {}]
  /\ UNCHANGED <<dtabs, dparsed, cur, rvars, snap, rEnd, toR, gvars>>

(* A failure of send before C: the encoding fails, the peer is gone, or R  *)
(* is wrong, late or never comes.  The channel closes when send returns.   *)
DonorFail ==
  /\ \/ dpc \in {"spawned", "connected"}
     \/ dpc = "awaitR" /\ "R" \notin toD[cur]
     \/ dpc = "sendC" /\ rEnd[cur] = "closed"
  /\ dpc' = IF Upgrade THEN "rejecting" ELSE "serving"
  /\ IF dpc = "spawned"
     THEN UNCHANGED <<dEnd, toD>>
     ELSE /\ dEnd' = [dEnd EXCEPT ![cur] = "closed"]
          /\ toD' = [toD EXCEPT ![cur] = {}]
  /\ UNCHANGED <<dtabs, dparsed, cur, rvars, snap, rEnd, toR, gvars>>

(* The receiver's ends after it is gone: its open channel closes, and so   *)
(* does a connection still in the backlog once nobody holds the listener.  *)
EndsClosed(listenerHeld) ==
  [a \in Attempt |-> IF rEnd[a] = "open" \/ (rEnd[a] = "backlog" /\ ~listenerHeld)
                     THEN "closed" ELSE rEnd[a]]

(* An upgrading donor keeps its own copy of the private listener. *)
ReceiverEndsClosed == EndsClosed(Upgrade /\ dpc \notin {"serving", "exited", "dead"})

(* ReceiverChild::reject: SIGKILL and wait before serving resumes.         *)
DonorReject ==
  /\ dpc = "rejecting"
  /\ dpc' = "serving"
  /\ rpc' = "dead"
  /\ rtabs' = {}
  /\ rEnd' = EndsClosed(FALSE)
  /\ UNCHANGED <<dtabs, dparsed, cur, rparsed, rch, rstop, stopEarly,
                 snap, dEnd, toR, toD, gvars>>

(* reject fails to wait for the child: that is logged and serving resumes. *)
DonorRejectFails ==
  /\ dpc = "rejecting"
  /\ dpc' = "serving"
  /\ rEnd' = IF rpc = "dead" THEN EndsClosed(FALSE) ELSE rEnd
  /\ UNCHANGED <<dtabs, dparsed, cur, rvars, snap, dEnd, toR, toD, gvars>>

(* A stop while serving: dropping Service sends SIGHUP to every tab left.  *)
DonorStop ==
  /\ ~Loopback
  /\ dpc = "serving"
  /\ dpc' = "exited"
  /\ hups' = hups \cup {<<"donor", s>> : s \in dtabs}
  /\ dtabs' = {}
  /\ UNCHANGED <<dparsed, cur, rvars, cvars, committed, consumed>>

(* The donor is killed: the kernel closes its descriptors. *)
DonorCrash ==
  /\ Crashes /\ ~Loopback
  /\ dpc \notin {"exited", "dead"}
  /\ dpc' = "dead"
  /\ dtabs' = {}
  /\ dEnd' = [a \in Attempt |-> IF dEnd[a] = "none" THEN "none" ELSE "closed"]
  /\ toD' = [a \in Attempt |-> {}]
  /\ UNCHANGED <<dparsed, cur, rvars, snap, rEnd, toR, gvars>>

-----------------------------------------------------------------------------
(* The receiver. *)

(* Listener::accept, oldest waiting connection first.  An upgrade child    *)
(* only ever meets the connection of its own attempt.                      *)
ReceiverAccept ==
  /\ rpc \in {"listening", "waiting"}
  /\ Loopback => dpc = "serving"
  /\ \E a \in Attempt :
       /\ rEnd[a] = "backlog"
       /\ \A b \in Attempt : b < a => rEnd[b] # "backlog"
       /\ rch' = a
       /\ rEnd' = [rEnd EXCEPT ![a] = "open"]
  /\ rpc' = "accepted"
  /\ UNCHANGED <<dvars, rtabs, rparsed, rstop, stopEarly, snap, dEnd, toR, toD, gvars>>

(* wait_receiver gives up, or child setup fails: the child exits. *)
ReceiverAbandon ==
  /\ rpc = "waiting"
  /\ rpc' = "dead"
  /\ rEnd' = ReceiverEndsClosed
  /\ UNCHANGED <<dvars, rtabs, rparsed, rch, rstop, stopEarly, snap, dEnd, toR, toD, gvars>>

(* receive, up to the reservations: the snapshot is decoded and validated. *)
ReceiverStage ==
  /\ rpc = "accepted"
  /\ "H" \in toR[rch]
  /\ toR' = [toR EXCEPT ![rch] = @ \ {"H"}]
  /\ rpc' = "staged"
  /\ UNCHANGED <<dvars, rtabs, rparsed, rch, rstop, stopEarly, snap, dEnd, rEnd, toD, gvars>>

(* Mutant: the pending stop is not looked for before R. *)
SkipStopCheck ==
  /\ rpc = "staged"
  /\ rpc' = "cleared"
  /\ UNCHANGED <<dvars, rtabs, rparsed, rch, rstop, stopEarly, cvars, gvars>>

(* signals.shutdown_requested(): a pending stop rejects the import. *)
ReceiverCheckStop ==
  /\ rpc = "staged"
  /\ rpc' = IF rstop THEN "closing" ELSE "cleared"
  /\ UNCHANGED <<dvars, rtabs, rparsed, rch, rstop, stopEarly, cvars, gvars>>

(* Channel::ready: send R; a closed donor end fails the import. *)
ReceiverReady ==
  /\ rpc = "cleared"
  /\ IF dEnd[rch] = "open"
     THEN toD' = [toD EXCEPT ![rch] = @ \cup {"R"}] /\ rpc' = "awaitC"
     ELSE rpc' = "closing" /\ UNCHANGED toD
  /\ UNCHANGED <<dvars, rtabs, rparsed, rch, rstop, stopEarly, snap, dEnd, rEnd, toR, gvars>>

(* Mutant: the staged tabs are adopted once R is sent. *)
AdoptBeforeCommit ==
  /\ rpc = "awaitC"
  /\ toR' = [toR EXCEPT ![rch] = @ \ {"C"}]
  /\ rtabs' = rtabs \cup snap[rch].tabs
  /\ rparsed' = [s \in Session |-> IF s \in snap[rch].tabs
                                   THEN snap[rch].parsed[s] ELSE rparsed[s]]
  /\ rpc' = "adopted"
  /\ UNCHANGED <<dvars, rch, rstop, stopEarly, snap, dEnd, rEnd, toD, gvars>>

(* accept_commit: C makes the staged tabs the receiver's own. *)
ReceiverAdopt ==
  /\ rpc = "awaitC"
  /\ "C" \in toR[rch]
  /\ toR' = [toR EXCEPT ![rch] = @ \ {"C"}]
  /\ rtabs' = rtabs \cup snap[rch].tabs
  /\ rparsed' = [s \in Session |-> IF s \in snap[rch].tabs
                                   THEN snap[rch].parsed[s] ELSE rparsed[s]]
  /\ rpc' = "adopted"
  /\ UNCHANGED <<dvars, rch, rstop, stopEarly, snap, dEnd, rEnd, toD, gvars>>

(* acknowledge, whose failure is ignored; receive returns, the channel and *)
(* the handin listener close.                                              *)
ReceiverAck ==
  /\ rpc = "adopted"
  /\ toD' = [toD EXCEPT ![rch] = IF dEnd[rch] = "open" THEN @ \cup {"A"} ELSE @]
  /\ rEnd' = ReceiverEndsClosed
  /\ rpc' = "serving"
  /\ UNCHANGED <<dvars, rtabs, rparsed, rch, rstop, stopEarly, snap, dEnd, toR, gvars>>

(* Mutant: no timeout on the wait for C. *)
FailOnlyOnSnapshot ==
  /\ rpc = "accepted"
  /\ rpc' = "closing"
  /\ UNCHANGED <<dvars, rtabs, rparsed, rch, rstop, stopEarly, cvars, gvars>>

(* A failure of receive: the snapshot is invalid, or a marker is wrong,    *)
(* late or never comes.  A marker may still arrive until the channel is    *)
(* closed.                                                                 *)
ReceiverFail ==
  /\ \/ rpc = "accepted"
     \/ rpc = "awaitC" /\ "C" \notin toR[rch]
  /\ rpc' = "closing"
  /\ UNCHANGED <<dvars, rtabs, rparsed, rch, rstop, stopEarly, cvars, gvars>>

(* receive returns its error: staged descriptors and the channel close.  A *)
(* manual receiver reports that the donor retains ownership and listens    *)
(* on; an upgrade child exits.                                             *)
ReceiverClose ==
  /\ rpc = "closing"
  /\ rpc' = IF Upgrade THEN "dead" ELSE "listening"
  /\ rEnd' = IF Upgrade THEN ReceiverEndsClosed ELSE [rEnd EXCEPT ![rch] = "closed"]
  /\ UNCHANGED <<dvars, rtabs, rparsed, rch, rstop, stopEarly, snap, dEnd, toR, toD,
                 committed, hups, consumed>>

(* terminal_ready at the receiver, once its loop runs. *)
ReceiverRead(s) ==
  /\ rpc \in {"serving", "listening"}
  /\ s \in rtabs
  /\ consumed[s] < MaxRead
  /\ consumed' = [consumed EXCEPT ![s] = @ + 1]
  /\ rparsed' = [rparsed EXCEPT ![s] = @ + 1]
  /\ UNCHANGED <<dvars, rpc, rtabs, rch, rstop, stopEarly, cvars, committed, hups>>

(* A stop signal is queued on the receiver's signal descriptor. *)
StopSignal ==
  /\ ~Loopback
  /\ rpc \notin {"absent", "dead"}
  /\ ~rstop
  /\ rstop' = TRUE
  /\ stopEarly' = (rpc \in {"listening", "waiting", "accepted", "staged"})
  /\ UNCHANGED <<dvars, rpc, rtabs, rparsed, rch, cvars, gvars>>

(* The receiver's loop notices the stop and drops its tabs. *)
ReceiverStop ==
  /\ rstop
  /\ rpc \in {"serving", "listening"}
  /\ rpc' = "dead"
  /\ hups' = hups \cup {<<"receiver", s>> : s \in rtabs}
  /\ rtabs' = {}
  /\ rEnd' = ReceiverEndsClosed
  /\ UNCHANGED <<dvars, rparsed, rch, rstop, stopEarly, snap, dEnd, toR, toD,
                 committed, consumed>>

ReceiverCrash ==
  /\ Crashes /\ ~Loopback
  /\ rpc \notin {"absent", "dead"}
  /\ rpc' = "dead"
  /\ rtabs' = {}
  /\ rEnd' = ReceiverEndsClosed
  /\ UNCHANGED <<dvars, rparsed, rch, rstop, stopEarly, snap, dEnd, toR, toD, gvars>>

-----------------------------------------------------------------------------
DonorProtocol == \/ DonorConnect \/ DonorSendH \/ DonorTakeR \/ DonorSendC
                 \/ DonorDisown \/ DonorFinish \/ DonorFail \/ DonorReject
                 \/ DonorRejectFails
ReceiverProtocol == \/ ReceiverAccept \/ ReceiverAbandon \/ ReceiverStage
                    \/ ReceiverCheckStop \/ ReceiverReady \/ ReceiverAdopt
                    \/ ReceiverAck \/ ReceiverFail \/ ReceiverClose

Next == /\ \/ DonorProtocol
           \/ ReceiverProtocol
           \/ \E s \in Session : DonorRead(s) \/ ReceiverRead(s)
           \/ DonorSpawn \/ DonorStop \/ DonorCrash
           \/ StopSignal \/ ReceiverStop \/ ReceiverCrash
        /\ UNCHANGED kind

(* Every wait of a transfer times out after HANDOFF_TIMEOUT_SECONDS, and   *)
(* the code between two waits does not block: once begun, a transfer's     *)
(* next step is always taken.  Starting one is up to the user.             *)
DonorContinues == dpc # "serving" /\ DonorProtocol /\ UNCHANGED kind
ReceiverContinues == ReceiverProtocol /\ UNCHANGED kind
Fairness == WF_vars(DonorContinues) /\ WF_vars(ReceiverContinues)

Spec == Init /\ [][Next]_vars
FairSpec == Spec /\ Fairness

-----------------------------------------------------------------------------
DonorState == {"serving", "spawned", "connected", "awaitR", "sendC", "disown",
               "awaitA", "rejecting", "exited", "dead"}
ReceiverState == {"absent", "listening", "waiting", "accepted", "staged", "cleared",
                  "awaitC", "adopted", "serving", "closing", "dead"}

DonorTypeOK == /\ dpc \in DonorState
               /\ dtabs \subseteq Session
               /\ dparsed \in Counts
               /\ cur \in 0..MaxAttempts
ReceiverTypeOK == /\ rpc \in ReceiverState
                  /\ rtabs \subseteq Session
                  /\ rparsed \in Counts
                  /\ rch \in 0..MaxAttempts
                  /\ rpc \in {"accepted", "staged", "cleared", "awaitC", "adopted", "closing"}
                       => rch \in Attempt /\ rEnd[rch] = "open"
SignalTypeOK == /\ rstop \in BOOLEAN
                /\ stopEarly \in BOOLEAN
                /\ hups \subseteq ({"donor", "receiver"} \X Session)
ChannelTypeOK == /\ snap \in [Attempt -> [tabs : SUBSET Session, parsed : Counts]]
                 /\ dEnd \in [Attempt -> {"none", "open", "closed"}]
                 /\ rEnd \in [Attempt -> {"none", "backlog", "open", "closed"}]
                 /\ toR \in [Attempt -> SUBSET {"H", "C"}]
                 /\ toD \in [Attempt -> SUBSET {"R", "A"}]
GhostTypeOK == /\ committed \subseteq Attempt
               /\ consumed \in Counts

(* Types; a receiver inside receive() holds an accepted, open channel. *)
HandoffTypeOK == /\ DonorTypeOK
                 /\ ReceiverTypeOK
                 /\ SignalTypeOK
                 /\ ChannelTypeOK
                 /\ GhostTypeOK

DonorActs(s) == dpc = "serving" /\ s \in dtabs
ReceiverActs(s) == rpc \in {"serving", "listening"} /\ s \in rtabs
Given == UNION {snap[a].tabs : a \in committed}

(* No session ever has two daemons that read its PTY or signal its shell:  *)
(* staged ownership has no authority and C moves it (handoff.rs).          *)
ExclusiveAuthority == \A s \in Session : ~(DonorActs(s) /\ ReceiverActs(s))

(* Every failure before C leaves the donor with all its sessions, whatever *)
(* the receiver did, however often the transfer is retried.                *)
DonorRetainsUntilCommit ==
  dpc \notin {"exited", "dead"} => Session \ Given \subseteq dtabs

(* The receiver adopts exactly the state the donor had: no output read by  *)
(* the donor is missing from it and none is replayed, even when snapshots  *)
(* of earlier, failed attempts are still about.                            *)
AdoptedStateIsCurrent == \A s \in rtabs : rparsed[s] = consumed[s]

(* After C the donor closes descriptors without signalling any session it  *)
(* has given away, through disowning, stopping or exiting.                 *)
GivenSessionsNotSignalled == \A s \in Given : <<"donor", s>> \notin hups

(* A receiver that was asked to stop before it answered R never takes the  *)
(* sessions, which its shutdown would kill.                                *)
StoppedReceiverNeverAdopts == stopEarly => rtabs = {} /\ \A s \in Session : <<"receiver", s>> \notin hups

(* Only one daemon of an upgrade accepts clients on the shared listener. *)
OneServer == Upgrade => ~(dpc = "serving" /\ rpc = "serving")

(* The socket never carries two markers in one direction, so the order of  *)
(* delivery cannot matter to expect().                                     *)
OneMarkerInFlight == \A a \in Attempt : /\ Cardinality(toR[a]) <= 1
                                        /\ Cardinality(toD[a]) <= 1

(* A donor blocked in a transfer, with every tab frozen, always comes back *)
(* or ends; so does a receiver.                                            *)
DonorUnblocks == (dpc \notin {"serving", "exited", "dead"}) ~> (dpc \in {"serving", "exited", "dead"})
ReceiverUnblocks == (rpc \in {"accepted", "staged", "cleared", "awaitC", "adopted", "closing"})
                      ~> (rpc \in {"listening", "serving", "dead"})
=============================================================================
