----------------------------- MODULE UnixStream ----------------------------
(***************************************************************************)
(* send_vectored_with_ancillary() and recv_vectored_with_ancillary() of a  *)
(* tokio UnixStream (zpr-ext/src/tokio.rs), over the system calls of       *)
(* zpr-ext/src/std/os/unix.rs.  Two tasks share the stream: one sends, one *)
(* receives.                                                               *)
(*                                                                         *)
(* tokio keeps the readiness of the socket, which an edge-triggered poll   *)
(* sets and a call that would block clears: a bit cleared by mistake stays *)
(* clear until something happens to the socket.                            *)
(***************************************************************************)
EXTENDS Ancillary

CONSTANTS
  QueueMax,     \* messages on the way to us
  Cap           \* messages the socket takes before it is full

ASSUME StreamAssumption == QueueMax \in Nat /\ Cap \in Nat \ {0}

VARIABLES
  rq,           \* how many recvmsg() there is data for
  sq,           \* how many messages the peer has not read yet
  closed,       \* the peer has closed its end
  event,        \* an edge the driver has not seen
  ready,        \* tokio's readiness: "R", "W" and, for the closed ends, "RC", "WC"
  pc            \* where each task is in its call

sockVars   == <<rq, sq, closed>>
streamVars == <<sockVars, event, ready, pc>>
unixVars   == <<ancVars, streamVars>>

\* The stream has just been registered, which counts as an edge.
StreamInit ==
  /\ AncInit
  /\ rq = 0 /\ sq = 0 /\ closed = FALSE
  /\ event = TRUE /\ ready = {}
  /\ pc = [t \in Sides |-> "idle"]

----------------------------------------------------------------------------
(* External: the peer, the kernel's poll, and tokio's driver. *)

peer_send ==
  /\ ~closed /\ rq < QueueMax
  /\ rq' = rq + 1
  /\ event' = TRUE
  /\ UNCHANGED <<ancVars, sq, closed, ready, pc>>

peer_read ==
  /\ ~closed /\ sq > 0
  /\ sq' = sq - 1
  /\ event' = TRUE
  /\ UNCHANGED <<ancVars, rq, closed, ready, pc>>

peer_close ==
  /\ ~closed /\ closed' = TRUE
  /\ event' = TRUE
  /\ UNCHANGED <<ancVars, rq, sq, ready, pc>>

\* What poll answers now.
Level ==
  {b \in {"R", "W", "RC", "WC"} :
     \/ closed
     \/ b = "R" /\ rq > 0
     \/ b = "W" /\ sq < Cap}

driver ==
  /\ event
  /\ event' = FALSE
  /\ ready' = ready \cup Level
  /\ UNCHANGED <<ancVars, sockVars, pc>>

\* clear_readiness(), after WouldBlock under the given interest.
Cleared(interest) == ready \ (interest \ {"RC", "WC"})

----------------------------------------------------------------------------
READABLE == {"R", "RC"}
WRITABLE == {"W", "WC"}

\* What each loop waits for, and what it calls try_io() with.
Awaited(t)  == IF t = "send" THEN WRITABLE ELSE READABLE
Interest(t) == WRITABLE

begin(t) ==
  /\ pc[t] = "idle"
  /\ t = "recv" => MayReceive(t)
  /\ pc' = [pc EXCEPT ![t] = "await"]
  /\ UNCHANGED <<ancVars, sockVars, event, ready>>

\* readable().await or writable().await comes back.
awaited(t) ==
  /\ pc[t] = "await" /\ ready \cap Awaited(t) # {}
  /\ pc' = [pc EXCEPT ![t] = "try"]
  /\ UNCHANGED <<ancVars, sockVars, event, ready>>

\* The future is dropped where it awaits.
cancel(t) ==
  /\ pc[t] = "await"
  /\ pc' = [pc EXCEPT ![t] = "idle"]
  /\ UNCHANGED <<ancVars, sockVars, event, ready>>

Return(t) == pc' = [pc EXCEPT ![t] = "idle"] /\ UNCHANGED ready

\* WouldBlock: the loop goes round.
Again(t) ==
  /\ pc' = [pc EXCEPT ![t] = "await"]
  /\ ready' = Cleared(Interest(t))

\* try_io() does not get as far as the system call.
not_ready(t) ==
  /\ pc[t] = "try" /\ ready \cap Interest(t) = {}
  /\ Again(t)
  /\ UNCHANGED <<ancVars, sockVars, event>>

Calls(t) == pc[t] = "try" /\ ready \cap Interest(t) # {}

send ==
  /\ Calls("send") /\ Attach("send")
  /\ \/ closed /\ Return("send") /\ UNCHANGED sq
     \/ ~closed /\ sq < Cap /\ Return("send") /\ sq' = sq + 1
     \/ ~closed /\ sq = Cap /\ Again("send") /\ UNCHANGED sq
  /\ UNCHANGED <<rq, closed, event>>

\* Mutant: readiness is cleared by a call that did not block.
recv_data_Clears ==
  /\ Calls("recv") /\ rq > 0
  /\ (\E k \in 0 .. Room : recv_ok("recv", k)) /\ rq' = rq - 1
  /\ pc' = [pc EXCEPT !["recv"] = "idle"]
  /\ ready' = ready \ {"R", "W"}
  /\ UNCHANGED <<sq, closed, event>>

recv_data ==
  /\ Calls("recv") /\ rq > 0
  /\ (\E k \in 0 .. Room : recv_ok("recv", k)) /\ rq' = rq - 1
  /\ Return("recv")
  /\ UNCHANGED <<sq, closed, event>>

recv_empty ==
  /\ Calls("recv") /\ rq = 0 /\ ~closed
  /\ recv_failed("recv")
  /\ Again("recv")
  /\ UNCHANGED <<sockVars, event>>

\* The end of the stream is no error to the kernel, so last_os_error() is
\* that of an earlier call; it may be the one that says "would block".
recv_eof ==
  /\ Calls("recv") /\ rq = 0 /\ closed
  /\ Return("recv") \/ Again("recv")
  /\ UNCHANGED <<ancVars, sockVars, event>>

Task(t) ==
  \/ awaited(t) \/ not_ready(t)
  \/ t = "send" /\ send
  \/ t = "recv" /\ (recv_data \/ recv_empty \/ recv_eof)

Client ==
  \/ OnFds /\ UNCHANGED streamVars
  \/ \E t \in Sides : pc[t] = "idle" /\ OnSide(t) /\ UNCHANGED streamVars

StreamNext ==
  \/ Client
  \/ \E t \in Sides : begin(t) \/ cancel(t) \/ Task(t)
  \/ peer_send \/ peer_read \/ peer_close \/ driver

\* The runtime polls its driver while tasks run (a runtime of several
\* threads does), and the task that is ready.  Nothing is assumed of the peer.
StreamSpec ==
  /\ StreamInit /\ [][StreamNext]_unixVars
  /\ WF_unixVars(driver)
  /\ \A t \in Sides : WF_unixVars(Task(t))

----------------------------------------------------------------------------
\* The peer keeps up with the sender.
PeerKeepsUp == <>[](sq < Cap)

\* From some time on nothing happens to the socket.
Quiet == <>[]~event

\* A receive that runs while there is data comes back: however the edges meet
\* the calls, no wake-up is lost, also not one that came while nobody received.
RecvReturns == PeerKeepsUp => ((pc["recv"] # "idle" /\ rq > 0) ~> pc["recv"] = "idle")

\* The send of the test ancillary_fd is awaited and gives 3: a send on a socket
\* that is, and stays, writable comes back.
SendReturns ==
  PeerKeepsUp /\ Quiet => (pc["send"] # "idle" ~> pc["send"] = "idle")
============================================================================
