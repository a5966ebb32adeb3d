------------------------------- MODULE PidFile -------------------------------
(***************************************************************************)
(* The pid file that keeps a second lcd4linux daemon from starting: pid.c  *)
(* and the calls of main.  A process writes its pid to a file of its own   *)
(* and links that as the pid file, which fails if there is one.  Then it   *)
(* reads whose it is, and takes it away if that process is dead.  No two   *)
(* of these system calls are atomic together.                              *)
(***************************************************************************)
EXTENDS Integers

CONSTANTS
    Pids,         \* process ids
    NoPid,        \* content of a pid file that is not there
    Foreground,   \* processes run in the foreground, which take no pid file
    MaxStarts     \* bound on how often lcd4linux is started

ASSUME PidAssumption == NoPid \notin Pids /\ Foreground \subseteq Pids /\ MaxStarts \in Nat

VARIABLES
    file,     \* the pid in the pid file
    pc,       \* where in main each process is
    seen,     \* the pid a process has read from the pid file
    starts,   \* counted for the bound
    robbed    \* history: the pid file of a live process was removed by another

pidVars == <<file, pc, seen, starts, robbed>>

Starting == {"link", "open", "kill", "unlink"}

\* A pid that lcd4linux has left may become some other program's, "other".
PidTypeOK ==
    /\ file \in Pids \cup {NoPid}
    /\ pc \in [Pids -> Starting \cup {"off", "loop", "leaving", "other"}]
    /\ seen \in [Pids -> Pids \cup {NoPid}]
    /\ \A p \in Pids : pc[p] \in {"kill", "unlink"} => seen[p] \in Pids \ {p}
    /\ starts \in 0 .. MaxStarts
    /\ robbed \in BOOLEAN

\* The pid file may be there from before the last boot.
PidInit ==
    /\ file \in Pids \cup {NoPid}
    /\ pc = [p \in Pids |-> "off"]
    /\ seen = [p \in Pids |-> NoPid]
    /\ starts = 0
    /\ robbed = FALSE

Goes(p, from, to) == pc[p] = from /\ pc' = [pc EXCEPT ![p] = to]

\* Process p removes the pid file, whosever it is.
RemovePid(p) ==
    /\ file' = NoPid
    /\ robbed' = (robbed \/ \E q \in Pids \ {p} : file = q /\ pc[q] = "loop")

\* main, up to pid_init; a foreground process goes on without.
Begin(p, from) ==
    /\ starts < MaxStarts
    /\ starts' = starts + 1
    /\ Goes(p, from, IF p \in Foreground THEN "loop" ELSE "link")
    /\ UNCHANGED <<file, seen, robbed>>

Start(p) == Begin(p, "off")

\* A SIGHUP makes main call execv, which keeps the pid.
Restart(p) == Begin(p, "leaving")

\* Variant for mutation: rename takes the place of link.
Rename(p) ==
    /\ Goes(p, "link", "loop")
    /\ file' = p
    /\ UNCHANGED <<seen, starts, robbed>>

\* link(tmpfile, pidfile)
Link(p) ==
    /\ \/ /\ file = NoPid
          /\ file' = p
          /\ Goes(p, "link", "loop")
       \/ /\ file # NoPid
          /\ Goes(p, "link", "open")
          /\ UNCHANGED file
    /\ UNCHANGED <<seen, starts, robbed>>

\* open and read: the file may have disappeared, or name the process itself.
Open(p) ==
    /\ \/ file = NoPid /\ Goes(p, "open", "link") /\ UNCHANGED seen
       \/ file = p /\ Goes(p, "open", "loop") /\ UNCHANGED seen
       \/ /\ file \notin {NoPid, p}
          /\ Goes(p, "open", "kill")
          /\ seen' = [seen EXCEPT ![p] = file]
    /\ UNCHANGED <<file, starts, robbed>>

\* kill(pid, 0): "lcd4linux already running as process", or a stale pid file.
Kill(p) ==
    /\ Goes(p, "kill", IF pc[seen[p]] = "off" THEN "unlink" ELSE "off")
    /\ UNCHANGED <<file, seen, starts, robbed>>

\* unlink(pidfile): it may be another's by now.
Unlink(p) ==
    /\ Goes(p, "unlink", "link")
    /\ RemovePid(p)
    /\ UNCHANGED <<seen, starts>>

\* main leaves the loop and calls pid_exit, in the foreground as well.
Leave(p) ==
    /\ Goes(p, "loop", "leaving")
    /\ RemovePid(p)
    /\ UNCHANGED <<seen, starts>>

Exit(p) ==
    /\ Goes(p, "leaving", "off")
    /\ UNCHANGED <<file, seen, starts, robbed>>

\* The process is killed, or exits because of a missing layout: the pid file stays.
Crash(p) ==
    /\ Goes(p, "loop", "off")
    /\ UNCHANGED <<file, seen, starts, robbed>>

\* A process of another program gets the pid, or gives it back.
Reuse(p) ==
    /\ Goes(p, "off", "other") \/ Goes(p, "other", "off")
    /\ UNCHANGED <<file, seen, starts, robbed>>

InPidInit(p) == Link(p) \/ Open(p) \/ Kill(p) \/ Unlink(p)

PidNext ==
    \E p \in Pids :
        InPidInit(p) \/ Start(p) \/ Restart(p) \/ Leave(p) \/ Exit(p) \/ Crash(p) \/ Reuse(p)

PidSpec == PidInit /\ [][PidNext]_pidVars

-----------------------------------------------------------------------------
Daemons == {p \in Pids \ Foreground : pc[p] = "loop"}

\* pid_init: as long as no process removes the pid file of one that runs, the
\* pid file names every running daemon: link lets only one of them through, and taking
\* away a stale file, a pid that comes back and the end of a daemon change nothing of it.
LockHeld == ~robbed => \A p \in Daemons : file = p

\* pid_init: so there are never two daemons, however many start at once.
Alone == ~robbed => \A p, q \in Daemons : p = q
=============================================================================
