--------------------------- MODULE SpeechStreams ---------------------------
(***************************************************************************)
(* A live speech session: a browser's socket (relay-asr-stream.ts), which  *)
(* Relay ties to a node's connection, and the node's transcription process *)
(* (asr_stream.rs).  Relay reserves the node for the session, as Stream,   *)
(* while the node takes its gate with the bare session id, Session; so the *)
(* frames of its gate never speak of Relay's reservation, and Relay alone  *)
(* has to take that back: on the node's last event, on a control or audio  *)
(* message it refuses, on a deadline, when the browser or the node goes.   *)
(* Events that change no state (partial text, statistics) and the sequence *)
(* numbers of events and audio frames are left out.  Deadlines are passed  *)
(* at any time.                                                            *)
(***************************************************************************)
EXTENDS Requests

CONSTANT CanStream  \* devices with a compatible asr_streaming capability

ASSUME StreamConstants == CanStream \subseteq Device

VARIABLES
  session,   \* the ticket, then the browser socket's attachment
  told,      \* how many ends of the session the browser was told
  asrAlarm,  \* is a speech deadline stored for the alarm?
  live       \* the session each node has

streamVars == <<session, told, asrAlarm, live>>

Stage == {"none", "ticket", "open", "started", "ended"}
Live == [at : {"none", "runs", "ready", "over"}, cancelled : BOOLEAN]

NotLive == [at |-> "none", cancelled |-> FALSE]

StreamInit ==
  /\ session = [stage |-> "none", agent |-> None, ready |-> FALSE, stopping |-> FALSE]
  /\ told = 0 /\ asrAlarm = FALSE
  /\ live = [d \in Device |-> NotLive]

(* Is there something scheduleAsrStreamAlarm finds a deadline for?         *)
Timed(stage) == stage \in {"ticket", "open", "started"}

Schedule == asrAlarm' = Timed(session'.stage)

(* What a step of the session leaves alone, in Relay and in the nodes.     *)
KeepRelay == UNCHANGED <<setup, work, mem, keyed, connected, policy, todo, restarts>>
KeepNodes == UNCHANGED <<linked, tasks, gate, last, dirty, wire>>

(* releaseAgent: only the session's own reservation; the queue is not      *)
(* tried.                                                                  *)
ReleaseStream ==
  reserved' = [d \in Device |-> IF d = session.agent /\ reserved[d] = Stream THEN None
                                ELSE reserved[d]]

(* sendControl reached the node's session.                                 *)
CancelLive ==
  live' = [d \in Device |-> IF d = session.agent /\ d \in linked \cap connected
                                 /\ live[d].at # "none"
                            THEN [live[d] EXCEPT !.cancelled = TRUE] ELSE live[d]]

(* failBrowser.                                                            *)
FailBrowser ==
  /\ session' = [session EXCEPT !.stage = "ended"]
  /\ told' = told + 1
  /\ ReleaseStream

-----------------------------------------------------------------------------
(* The browser                                                             *)

(* compatibleAgent; no policy is asked.                                    *)
Idle(d) == d \in CanStream \cap connected /\ reserved[d] = None

CreateTicket ==
  /\ Quiet
  /\ setup.stream /\ session.stage = "none"
  /\ \E d \in Device : Idle(d) /\ session' = [session EXCEPT !.stage = "ticket", !.agent = d]
  /\ Schedule
  /\ KeepRelay /\ KeepNodes /\ UNCHANGED <<reserved, told, live>>

(* acceptAsrBrowserWebSocket: the ticket is used up in any case.           *)
AcceptBrowser_noAlarm ==
  /\ Quiet
  /\ session.stage = "ticket"
  /\ session' = [session EXCEPT !.stage = IF Idle(session.agent) THEN "open" ELSE "ended"]
  /\ asrAlarm' = FALSE
  /\ KeepRelay /\ KeepNodes /\ UNCHANGED <<reserved, told, live>>

AcceptBrowser ==
  /\ Quiet
  /\ session.stage = "ticket"
  /\ session' = [session EXCEPT !.stage = IF Idle(session.agent) THEN "open" ELSE "ended"]
  /\ Schedule
  /\ KeepRelay /\ KeepNodes /\ UNCHANGED <<reserved, told, live>>

(* LiveAsr::start at the node, in its read loop: the gate is tried, and    *)
(* those who wait for it go first; the process may fail to start.          *)
NodeStarts(d) ==
  \/ d \notin linked /\ UNCHANGED <<gate, dirty, wire, live>>
  \/ /\ d \in linked /\ gate[d] = None
     /\ GateChanged(d)
     /\ \/ /\ gate' = [gate EXCEPT ![d] = Session]
           /\ live' = [live EXCEPT ![d] = [at |-> "runs", cancelled |-> FALSE]]
           /\ UNCHANGED wire
        \/ /\ wire' = Sent(d, [type |-> "end", of |-> Session, n |-> 0, ok |-> FALSE])
           /\ UNCHANGED <<gate, live>>
  \/ /\ d \in linked /\ (gate[d] # None \/ \E t \in tasks : t.dev = d /\ t.at = "waits")
     /\ wire' = Sent(d, [type |-> "end", of |-> Session, n |-> 0, ok |-> FALSE])
     /\ UNCHANGED <<gate, dirty, live>>

StartStream ==
  LET d == session.agent IN
  /\ Quiet
  /\ session.stage = "open"
  /\ IF d \in connected /\ reserved[d] = None
     THEN /\ session' = [session EXCEPT !.stage = "started"]
          /\ reserved' = [reserved EXCEPT ![d] = Stream]
          /\ NodeStarts(d)
          /\ Schedule
          /\ UNCHANGED told
     ELSE FailBrowser /\ UNCHANGED <<gate, dirty, wire, live, asrAlarm>>
  /\ KeepRelay /\ UNCHANGED <<linked, tasks, last>>

(* asr_stream_stop, from the browser or at the end of the four hours; the  *)
(* node's process ends at a time of its own anyhow.                        *)
StopStream ==
  /\ IF session.agent \in connected
     THEN session' = [session EXCEPT !.stopping = TRUE] /\ UNCHANGED <<told, reserved>>
     ELSE FailBrowser
  /\ UNCHANGED live

BrowserStops ==
  /\ Quiet /\ session.stage = "started"
  /\ StopStream
  /\ IF session.agent \in connected THEN Schedule ELSE UNCHANGED asrAlarm
  /\ KeepRelay /\ KeepNodes

(* The browser's cancel waits for the node's last event, without a         *)
(* deadline of its own.                                                    *)
BrowserCancels ==
  /\ Quiet /\ session.stage = "started"
  /\ CancelLive
  /\ IF session.agent \in connected THEN UNCHANGED <<session, told, reserved>> ELSE FailBrowser
  /\ KeepRelay /\ KeepNodes /\ UNCHANGED asrAlarm

(* A message Relay refuses: one it does not know, another start, audio     *)
(* before ready, none for thirty seconds, too much, or for no node.        *)
BrowserErrs ==
  /\ Quiet /\ session.stage \in {"open", "started"}
  /\ FailBrowser
  /\ CancelLive \/ UNCHANGED live
  /\ KeepRelay /\ KeepNodes /\ UNCHANGED asrAlarm

(* handleAsrBrowserClose.                                                  *)
BrowserCloses_keeps ==
  /\ Quiet /\ session.stage \in {"open", "started"}
  /\ CancelLive
  /\ session' = [session EXCEPT !.stage = "ended"]
  /\ Schedule
  /\ KeepRelay /\ KeepNodes /\ UNCHANGED <<told, reserved>>

BrowserCloses ==
  /\ Quiet /\ session.stage \in {"open", "started"}
  /\ CancelLive
  /\ session' = [session EXCEPT !.stage = "ended"]
  /\ ReleaseStream
  /\ Schedule
  /\ KeepRelay /\ KeepNodes /\ UNCHANGED told

(* expireAsrStreamSessions and the ticket's end, on the alarm.             *)
ExpireStream ==
  /\ Quiet /\ asrAlarm
  /\ \/ /\ session.stage = "ticket"
        /\ session' = [session EXCEPT !.stage = "ended"]
        /\ UNCHANGED <<told, reserved, live>>
     \/ session.stage = "open" /\ FailBrowser /\ UNCHANGED live
     \/ session.stage = "started" /\ ~session.stopping /\ StopStream
     \/ /\ session.stage = "started" /\ (session.stopping \/ session.ready)
        /\ CancelLive /\ FailBrowser
  /\ Schedule
  /\ KeepRelay /\ KeepNodes

-----------------------------------------------------------------------------
(* The node's events at Relay                                              *)

EventArrives(d, type) ==
  /\ Quiet /\ Arrives(d, type)
  /\ Taken(d)
  /\ KeepRelay /\ UNCHANGED <<linked, tasks, gate, last, dirty, live>>

StreamReady(d) ==
  /\ EventArrives(d, "ready")
  /\ session' = [session EXCEPT !.ready = @ \/ session.stage = "started"]
  /\ IF session.stage = "started" THEN Schedule ELSE UNCHANGED asrAlarm
  /\ UNCHANGED <<told, reserved>>

StreamEnd_any(d) ==
  /\ EventArrives(d, "end")
  /\ FailBrowser /\ Schedule

StreamEnd(d) ==
  /\ EventArrives(d, "end")
  /\ IF session.stage = "started" THEN FailBrowser /\ Schedule
     ELSE UNCHANGED <<session, told, reserved, asrAlarm>>

(* closeAsrSessionsForAgent, when a device's socket closes; not when a new *)
(* connection of the device takes its place.                               *)
CloseForAgent(d) ==
  /\ IF session.agent = d /\ session.stage \in {"open", "started"}
     THEN session' = [session EXCEPT !.stage = "ended"] /\ told' = told + 1
     ELSE UNCHANGED <<session, told>>
  /\ UNCHANGED <<asrAlarm, live>>

-----------------------------------------------------------------------------
(* The node's session (run_session)                                        *)

NodeReady(d) ==
  /\ live[d].at = "runs"
  /\ live' = [live EXCEPT ![d].at = "ready"]
  /\ wire' = Sent(d, [type |-> "ready", of |-> Session, n |-> 0, ok |-> TRUE])
  /\ UNCHANGED <<setup, relayVars, linked, tasks, gate, last, dirty, session, told, asrAlarm>>

(* The process says it has ended, fails, is cancelled or runs into a limit *)
(* of the node.                                                            *)
NodeEnds(d) ==
  /\ live[d].at \in {"runs", "ready"}
  /\ live' = [live EXCEPT ![d].at = "over"]
  /\ \E ok \in BOOLEAN : wire' = Sent(d, [type |-> "end", of |-> Session, n |-> 0, ok |-> ok])
  /\ UNCHANGED <<setup, relayVars, linked, tasks, gate, last, dirty, session, told, asrAlarm>>

(* The process is gone and the permit with it; a cancel that came while it *)
(* was ending makes for a second last event.                               *)
NodeLeaves(d) ==
  /\ live[d].at = "over"
  /\ live' = [live EXCEPT ![d] = NotLive]
  /\ gate' = [gate EXCEPT ![d] = None]
  /\ GateChanged(d)
  /\ \/ UNCHANGED wire
     \/ /\ live[d].cancelled
        /\ wire' = Sent(d, [type |-> "end", of |-> Session, n |-> 0, ok |-> TRUE])
  /\ UNCHANGED <<setup, relayVars, linked, tasks, last, session, told, asrAlarm>>

(* The node's connection ends: cancel_all.                                 *)
LiveLoses(d) ==
  /\ live' = [live EXCEPT ![d].cancelled = live[d].at # "none"]
  /\ UNCHANGED <<session, told, asrAlarm>>

(* The object restarts: the browser's socket is gone, stored tickets and   *)
(* deadlines are not.                                                      *)
StreamRestarts ==
  /\ session' = [session EXCEPT !.stage = IF @ \in {"open", "started"} THEN "ended" ELSE @]
  /\ UNCHANGED <<told, asrAlarm, live>>

StreamStep ==
  \/ CreateTicket \/ AcceptBrowser \/ StartStream \/ BrowserStops \/ BrowserCancels
  \/ BrowserErrs \/ BrowserCloses \/ ExpireStream
  \/ \E d \in Device :
       \/ StreamReady(d) \/ StreamEnd(d) \/ NodeReady(d) \/ NodeEnds(d) \/ NodeLeaves(d)

-----------------------------------------------------------------------------
StreamTypeOK ==
  /\ session \in [stage : Stage, agent : Device \cup {None}, ready : BOOLEAN,
                  stopping : BOOLEAN]
  /\ told \in Nat /\ asrAlarm \in BOOLEAN
  /\ live \in [Device -> Live]

(* However the node's last events, deadlines, refusals and closes race:    *)
(* the browser is told one end of its session at most.                     *)
EndToldOnce == told <= 1

(* No node stays reserved for a session that has ended: nobody would ever  *)
(* release it, for the node's own frames do not name that reservation.     *)
NoDeadReservation ==
  \A d \in Device : reserved[d] = Stream => session.stage = "started" /\ session.agent = d

(* A ticket or session that nobody ends is ended by the alarm.             *)
SessionHasAlarm == Timed(session.stage) => asrAlarm
=============================================================================
