----------------------------- MODULE LocalSocket -----------------------------
(***************************************************************************)
(* Unix sockets: agents/src/listen/sys/unix.rs.  Several processes may     *)
(* bind the same path; every system call is a step.                        *)
(***************************************************************************)
EXTENDS Naturals

CONSTANTS
  Procs, None,
  MaxFiles    \* bound: files made at the path

VARIABLES
  file,       \* the file at the path: its inode, or None
  socket,     \* whether it is a socket
  made,       \* inodes made so far
  proc,       \* proc[p]: [pc, id, kept], id the inode p listens on, kept that of File
  raced       \* two processes were between their checks and their calls at once (history)

LocalSocketAssumption == None \notin Nat

vars == <<file, socket, made, proc, raced>>

Off == [pc |-> "off", id |-> None, kept |-> None]

Init ==
  /\ proc = [p \in Procs |-> Off]
  /\ raced = FALSE
  /\ \/ file = None /\ socket = FALSE /\ made = 0
     \/ file = 1 /\ socket \in BOOLEAN /\ made = 1    \* a file, or a socket left by a crash

Critical(p) ==
  proc[p].pc \in {"check", "connect", "remove", "bind", "stat", "chmod", "closed", "unlink"}
\* p goes on as r, or to step `to`; the race is recorded when another is under way.
Become(p, r) ==
  /\ proc' = [proc EXCEPT ![p] = r]
  /\ raced' = (raced \/ \E q \in Procs \ {p} : Critical(q))
Go(p, to) == Become(p, [proc[p] EXCEPT !.pc = to])

\* A socket is answered from its bind until its listener closes.
Bound == {"stat", "chmod", "listening"}
Answers == \E q \in Procs : proc[q].id = file /\ proc[q].pc \in Bound

BindBegin(p) ==
  /\ proc[p].pc = "off"
  /\ Go(p, "check")
  /\ UNCHANGED <<file, socket, made>>

\* clear_stale: nothing there, a socket to probe, or something to refuse.
Inspect(p) ==
  /\ proc[p].pc = "check"
  /\ Go(p, IF file = None THEN "bind" ELSE IF socket THEN "connect" ELSE "off")
  /\ UNCHANGED <<file, socket, made>>

\* Mutant: the stale socket is removed without asking whether it answers.
ConnectBlind(p) ==
  /\ proc[p].pc = "connect"
  /\ Go(p, "remove")
  /\ UNCHANGED <<file, socket, made>>
Connect(p) ==
  /\ proc[p].pc = "connect"
  /\ Go(p, IF file = None \/ Answers THEN "off" ELSE "remove")
  /\ UNCHANGED <<file, socket, made>>

Remove(p) ==
  /\ proc[p].pc = "remove"
  /\ Go(p, IF file = None THEN "off" ELSE "bind")
  /\ file' = None /\ socket' = FALSE
  /\ UNCHANGED made

\* bind_unix: the file is made; its inode is looked up at the path and kept for the
\* drop; its mode is set.  A look-up that fails leaves the file behind, a mode that
\* cannot be set drops it again.
BindFile(p) ==
  /\ proc[p].pc = "bind"
  /\ IF file # None \/ made = MaxFiles
     THEN Go(p, "off") /\ UNCHANGED <<file, socket, made>>
     ELSE /\ made' = made + 1 /\ file' = made + 1 /\ socket' = TRUE
          /\ Become(p, [pc |-> "stat", id |-> made + 1, kept |-> None])

Metadata(p) ==
  /\ proc[p].pc = "stat"
  /\ \/ Go(p, "off")
     \/ file # None /\ Become(p, [proc[p] EXCEPT !.pc = "chmod", !.kept = file])
  /\ UNCHANGED <<file, socket, made>>

SetPermissions(p) ==
  /\ proc[p].pc = "chmod"
  /\ Go(p, "closed") \/ (file # None /\ Go(p, "listening"))
  /\ UNCHANGED <<file, socket, made>>

\* Drop: the listener closes first, then its file is looked at, then removed.
Close(p) ==
  /\ proc[p].pc = "listening"
  /\ Go(p, "closed")
  /\ UNCHANGED <<file, socket, made>>

Ours(p) == file = proc[p].kept

DropCheck(p) ==
  /\ proc[p].pc = "closed"
  /\ Go(p, IF Ours(p) THEN "unlink" ELSE "off")
  /\ UNCHANGED <<file, socket, made>>

Unlink(p) ==
  /\ proc[p].pc = "unlink"
  /\ Go(p, "off")
  /\ file' = None /\ socket' = FALSE
  /\ UNCHANGED made

\* The process is killed: its socket file stays behind.
Crash(p) ==
  /\ proc[p].pc = "listening"
  /\ proc' = [proc EXCEPT ![p] = Off]
  /\ UNCHANGED <<file, socket, made, raced>>

Next ==
  \E p \in Procs :
    \/ BindBegin(p) \/ Inspect(p) \/ Connect(p) \/ Remove(p)
    \/ BindFile(p) \/ Metadata(p) \/ SetPermissions(p)
    \/ Close(p) \/ DropCheck(p) \/ Unlink(p) \/ Crash(p)

Spec == Init /\ [][Next]_vars

-----------------------------------------------------------------------------
(* Properties *)

\* What unix.rs says: a socket something still answers on is refused rather than removed,
\* and a drop removes only the socket it made.
Reachable == \A p \in Procs : proc[p].pc = "listening" => file = proc[p].id

\* A listening server stays reachable at its path, and a file that is not a socket stays,
\* as long as no two processes bind or drop there at once.
ReachableUnlessRaced == raced \/ Reachable

=============================================================================
