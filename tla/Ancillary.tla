----------------------------- MODULE Ancillary -----------------------------
(***************************************************************************)
(* Descriptors that travel with messages: SocketAncillary and its control  *)
(* buffer (zpr-ext/src/std/os/unix.rs) and CowFd, a descriptor that is     *)
(* borrowed or owned (zpr-ext/src/std/os/fd.rs).                           *)
(*                                                                         *)
(* Nothing but the convention that an open descriptor has one owner keeps  *)
(* a descriptor from being closed twice or never: recvmsg() returns bare   *)
(* numbers, and the code claims to own them.  A Vec of CowFds is a set     *)
(* here: borrows may be copied, and owned descriptors are all different.   *)
(***************************************************************************)
EXTENDS Naturals, FiniteSets

CONSTANTS
  MaxFd,        \* the largest descriptor the process may have
  Room,         \* how many descriptors a control buffer holds
  Reuse         \* whether a SocketAncillary receives again, or receives after
                \* a send, with what the first call left in its buffer

ASSUME AncillaryAssumption == MaxFd \in Nat /\ Room \in Nat /\ Reuse \in BOOLEAN

Fds   == 0 .. MaxFd
Std   == 0              \* a descriptor of the rest of the process
Sides == {"send", "recv"}

VARIABLES
  open,         \* the open descriptors of the process
  fds,          \* the fds of a sender's and of a receiver's SocketAncillary
  control,      \* the buffer of each: cmsg_len, 0 when there is no SCM_RIGHTS
                \* header, and the words that follow the header
  held,         \* the CowFds the client got from into_messages()
  mine          \* the OwnedFds of the client

ancVars == <<open, fds, control, held, mine>>

Borrowed(f) == [fd |-> f, owned |-> FALSE]
Owned(f)    == [fd |-> f, owned |-> TRUE]

OwnedIn(S)    == {c.fd : c \in {d \in S : d.owned}}
BorrowedIn(S) == {c.fd : c \in {d \in S : ~d.owned}}

\* An array of zeros, as every caller in the repository passes to new().
Zeroed == [len |-> 0, data |-> [j \in 1 .. Room |-> 0]]

AncInit ==
  /\ open = {Std}
  /\ fds = [t \in Sides |-> {}]
  /\ control = [t \in Sides |-> Zeroed]
  /\ held = {} /\ mine = {}

----------------------------------------------------------------------------
(* External: the kernel's descriptor table. *)

\* The n descriptors allocated next, or as many as there are.
Lowest(n) == {f \in Fds \ open : Cardinality({g \in Fds \ open : g < f}) < n}

----------------------------------------------------------------------------
(* SCM_RIGHTS.  The widths are those of a 64-bit Linux. *)

SizeOfFd    == 4
CMSG_LEN(n) == 16 + n

\* Mutant: the length is taken for one that includes the padding.
num_fds_Padded(c) == (8 * ((c.len + 7) \div 8) - 16) \div SizeOfFd

\* The header's own size is found as a difference of two lengths.
num_fds(c) ==
  (c.len - (2 * CMSG_LEN(SizeOfFd) - CMSG_LEN(2 * SizeOfFd))) \div SizeOfFd

\* Buffer t with the descriptors of F listed in it, by send() or (external)
\* by recvmsg(); further words stay as they were.
Listing(t, F) ==
  [len |-> CMSG_LEN(SizeOfFd * Cardinality(F)),
   data |-> [j \in 1 .. Room |->
               IF j <= Cardinality(F)
               THEN CHOOSE f \in F : Cardinality({g \in F : g < f}) = j - 1
               ELSE control[t].data[j]]]

\* send() writes a header if there is anything to list; the CowFds stay.
Attach(t) ==
  /\ control' = IF fds[t] = {} THEN control
                ELSE [control EXCEPT ![t] = Listing(t, {c.fd : c \in fds[t]})]
  /\ UNCHANGED <<open, fds, held, mine>>

\* recv() finds header c, takes ownership of what it lists, and drops the
\* CowFds it had.  o is the table after the system call.
Adopt(t, c, o) ==
  /\ fds' = [fds EXCEPT ![t] = {Owned(c.data[j]) : j \in 1 .. num_fds(c)}]
  /\ open' = o \ OwnedIn(fds[t])
  /\ control' = [control EXCEPT ![t] = c]
  /\ UNCHANGED <<held, mine>>

\* recvmsg() succeeded on data with k descriptors, of which it installs as
\* many as there is room for.  With none there is no header, and the CowFds
\* stay.
recv_ok(t, k) ==
  LET F == Lowest(IF k < Room THEN k ELSE Room)
  IN  IF F = {} THEN UNCHANGED ancVars ELSE Adopt(t, Listing(t, F), open \cup F)

\* recvmsg() failed.  It has left msg_controllen at the size of the buffer,
\* and the code looks for a header all the same.
recv_failed(t) ==
  IF control[t].len = 0 THEN UNCHANGED ancVars ELSE Adopt(t, control[t], open)

MayReceive(t) == Reuse \/ control[t].len = 0

----------------------------------------------------------------------------
(* Calls of the client, each while side t is not in a send or receive.  A  *)
(* borrow is alive while something that holds it is.                       *)

\* File::open() and the like.
open_file ==
  /\ Lowest(1) # {}
  /\ open' = open \cup Lowest(1) /\ mine' = mine \cup Lowest(1)
  /\ UNCHANGED <<fds, control, held>>

\* An OwnedFd is dropped, which no borrow may outlive.
close(f) ==
  /\ f \in mine
  /\ \A t \in Sides : f \notin BorrowedIn(fds[t])
  /\ f \notin BorrowedIn(held)
  /\ open' = open \ {f} /\ mine' = mine \ {f}
  /\ UNCHANGED <<fds, control, held>>

\* The buffer must have room, which add_fds() does not check.
add_fds(t, f) ==
  /\ f \in mine /\ Cardinality(fds[t]) < Room
  /\ fds' = [fds EXCEPT ![t] = @ \cup {Borrowed(f)}]
  /\ UNCHANGED <<open, control, held, mine>>

clear(t) ==
  /\ fds' = [fds EXCEPT ![t] = {}]
  /\ open' = open \ OwnedIn(fds[t])
  /\ UNCHANGED <<control, held, mine>>

\* What remains when side t begins again, with a new buffer.
Renew(t) ==
  /\ fds' = [fds EXCEPT ![t] = {}]
  /\ control' = [control EXCEPT ![t] = Zeroed]

\* The SocketAncillary is dropped, and its Vec with it.
drop(t) ==
  /\ Renew(t)
  /\ open' = open \ OwnedIn(fds[t])
  /\ UNCHANGED <<held, mine>>

into_messages(t) ==
  /\ Renew(t)
  /\ held' = held \cup fds[t]
  /\ UNCHANGED <<open, mine>>

\* CowFd: dup() may fail, which leaves a CowFd that was passed by value
\* dropped.
try_into_owned(c) ==
  /\ c \in held
  /\ held' = held \ {c}
  /\ IF c.owned
     THEN mine' = mine \cup {c.fd} /\ UNCHANGED open
     ELSE mine' = mine \cup Lowest(1) /\ open' = open \cup Lowest(1)
  /\ UNCHANGED <<fds, control>>

\* A borrow is copied, which changes nothing here.
try_clone(c) ==
  /\ c \in held /\ c.owned
  /\ held' = held \cup {Owned(f) : f \in Lowest(1)}
  /\ open' = open \cup Lowest(1)
  /\ UNCHANGED <<fds, control, mine>>

try_clone_to_owned(c) ==
  /\ c \in held
  /\ mine' = mine \cup Lowest(1)
  /\ open' = open \cup Lowest(1)
  /\ UNCHANGED <<fds, control, held>>

drop_cow(c) ==
  /\ c \in held
  /\ held' = held \ {c}
  /\ open' = open \ OwnedIn({c})
  /\ UNCHANGED <<fds, control, mine>>

\* From<OwnedFd> for CowFd.
from_owned(f) ==
  /\ f \in mine
  /\ \A t \in Sides : f \notin BorrowedIn(fds[t])
  /\ f \notin BorrowedIn(held)
  /\ mine' = mine \ {f}
  /\ held' = held \cup {Owned(f)}
  /\ UNCHANGED <<open, fds, control>>

\* UnixStreamExt for std's UnixStream, on a stream that blocks: recvmsg()
\* returns data with k descriptors, is interrupted, or is at the end of the
\* stream, where it leaves no header.
recv_blocking(k) == MayReceive("recv") /\ recv_ok("recv", k)
recv_interrupted == MayReceive("recv") /\ recv_failed("recv")
send_blocking(t) == Attach(t)

OnSide(t) ==
  \/ t = "recv" /\ (recv_interrupted \/ \E k \in 0 .. Room : recv_blocking(k))
  \/ send_blocking(t)
  \/ clear(t) \/ drop(t) \/ into_messages(t)
  \/ \E f \in mine : add_fds(t, f)

OnFds ==
  \/ open_file
  \/ \E f \in mine : close(f) \/ from_owned(f)
  \/ \E c \in held : try_into_owned(c) \/ try_clone(c) \/ try_clone_to_owned(c) \/ drop_cow(c)

----------------------------------------------------------------------------
(***************************************************************************)
(* "The referenced FD must be open and suitable for assuming ownership"    *)
(* (from_raw_fd): every open descriptor has one owner and every owner has  *)
(* an open descriptor, so none is closed twice, or under somebody else, or *)
(* never.  What is borrowed is open.                                       *)
(***************************************************************************)
OwnersExact ==
  LET anc == [t \in Sides |-> OwnedIn(fds[t])]
  IN  /\ open \ {Std} = mine \cup OwnedIn(held) \cup anc["send"] \cup anc["recv"]
      /\ Cardinality(open \ {Std}) = Cardinality(mine) + Cardinality(OwnedIn(held))
                                     + Cardinality(anc["send"]) + Cardinality(anc["recv"])
      /\ \A t \in Sides : BorrowedIn(fds[t]) \subseteq open
      /\ BorrowedIn(held) \subseteq open
============================================================================
