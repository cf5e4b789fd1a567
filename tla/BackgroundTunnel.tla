--------------------------- MODULE BackgroundTunnel ---------------------------
(***************************************************************************)
(* Tunnels in the background: `zotunnel http -d`, `stop` and `status` as   *)
(* processes that share one pid file and one log file for each name        *)
(* (spawn_detached, cmd_stop, list_running_tunnels, read_pid), and what a  *)
(* tunnel process does to them (cmd_http).                                 *)
(*                                                                         *)
(* A step is one access to the file system or to another process.  Any of  *)
(* them may fail, and a command may be interrupted or killed before it.    *)
(* `status` and `stop` without a name do to one name after the other what  *)
(* they do to one.  What commands print is left out.  What the printer of  *)
(* a tunnel reports is TunnelClient's.                                     *)
(***************************************************************************)
EXTENDS Naturals

CONSTANTS
  Shells,        \* shells, each running one zotunnel command at a time
  Names,         \* tunnel names
  Pids,          \* process ids
  None,          \* no process, no name, no shell
  Polls          \* polls of the log before a start gives up (75 in 15 s)

ASSUME BackgroundAssumption ==
  /\ None \notin Shells \cup Names \cup Pids
  /\ Polls \in Nat

VARIABLES
  kind,          \* what runs under each pid
  tunnel,        \* the name a tunnel process is for, until it is done with its files
  parent,        \* the shell whose command spawned it and still runs
  signalled,     \* SIGTERM was sent to it and it has not ended yet
  printed,       \* it printed its "Forwarding" line
  pidfile,       \* the pid in <name>.pid, None without one and for an empty file
  log,           \* the process whose "Forwarding" line is in <name>.log
  command,       \* what each shell runs
  step,          \* how far that command is
  name,          \* the name it is about
  pid,           \* the pid it read or spawned
  polls,         \* how often it polled the log
  unsettled      \* history: the names whose files an event that the code
                 \* does not guard against has touched (see the properties)

processVars == <<kind, tunnel, parent, signalled, printed>>
fileVars    == <<pidfile, log>>
shellVars   == <<command, step, name, pid, polls>>
vars == <<processVars, fileVars, shellVars, unsettled>>

TypeOK ==
  /\ kind \in [Pids -> {"free", "foreign", "tunnel", "leaving", "left", "zombie"}]
  /\ tunnel \in [Pids -> Names \cup {None}]
  /\ parent \in [Pids -> Shells \cup {None}]
  /\ \A p \in Pids : kind[p] = "zombie" => step[parent[p]] # "idle"
  /\ signalled \in [Pids -> BOOLEAN]
  /\ \A p \in Pids : signalled[p] => kind[p] \in {"tunnel", "leaving"}
  /\ printed \in [Pids -> BOOLEAN]
  /\ pidfile \in [Names -> Pids \cup {None}]
  /\ log \in [Names -> Pids \cup {None}]
  /\ command \in [Shells -> {"none", "start", "stop", "status"}]
  /\ step \in [Shells -> {"idle", "read", "probe", "clean", "truncate", "spawn", "write",
                          "fill", "wait", "kill", "unlink"}]
  /\ name \in [Shells -> Names \cup {None}]
  /\ pid \in [Shells -> Pids \cup {None}]
  /\ polls \in [Shells -> 0 .. Polls]
  /\ unsettled \subseteq Names

Init ==
  /\ kind = [p \in Pids |-> "free"]
  /\ tunnel = [p \in Pids |-> None]
  /\ parent = [p \in Pids |-> None]
  /\ signalled = [p \in Pids |-> FALSE]
  /\ printed = [p \in Pids |-> FALSE]
  /\ pidfile = [n \in Names |-> None]
  /\ log = [n \in Names |-> None]
  /\ command = [c \in Shells |-> "none"]
  /\ step = [c \in Shells |-> "idle"]
  /\ name = [c \in Shells |-> None]
  /\ pid = [c \in Shells |-> None]
  /\ polls = [c \in Shells |-> 0]
  /\ unsettled = {}

-----------------------------------------------------------------------------
(* Processes.                                                              *)

(* kill(pid, 0) finds any process of that number, one that has exited and  *)
(* was not waited for included.                                            *)
is_pid_alive(p) == kind[p] # "free"

(* A process ends: what is left is a zombie while the command that spawned *)
(* it runs, for that command never waits for it.                           *)
Die(p) ==
  /\ kind' = [kind EXCEPT ![p] = IF parent[p] = None THEN "free" ELSE "zombie"]
  /\ tunnel' = [tunnel EXCEPT ![p] = None]
  /\ signalled' = [signalled EXCEPT ![p] = FALSE]
  /\ printed' = [printed EXCEPT ![p] = FALSE]
  /\ UNCHANGED parent

(* Fault: the children of a command that returned stay its own. *)
Finish_NoReaping(c) ==
  /\ step' = [step EXCEPT ![c] = "idle"]
  /\ command' = [command EXCEPT ![c] = "none"]
  /\ name' = [name EXCEPT ![c] = None]
  /\ pid' = [pid EXCEPT ![c] = None]
  /\ polls' = [polls EXCEPT ![c] = 0]
  /\ UNCHANGED processVars

(* A command returns; its children are no longer its own. *)
Finish(c) ==
  /\ step' = [step EXCEPT ![c] = "idle"]
  /\ command' = [command EXCEPT ![c] = "none"]
  /\ name' = [name EXCEPT ![c] = None]
  /\ pid' = [pid EXCEPT ![c] = None]
  /\ polls' = [polls EXCEPT ![c] = 0]
  /\ parent' = [p \in Pids |-> IF parent[p] = c THEN None ELSE parent[p]]
  /\ kind' = [p \in Pids |-> IF parent[p] = c /\ kind[p] = "zombie" THEN "free" ELSE kind[p]]
  /\ UNCHANGED <<tunnel, signalled, printed>>

(* remove_file on a pid file; nobody looks whether it failed. *)
Remove(n) == pidfile' \in {pidfile, [pidfile EXCEPT ![n] = None]}

GoTo(c, l) ==
  /\ step' = [step EXCEPT ![c] = l]
  /\ UNCHANGED <<command, name>>

-----------------------------------------------------------------------------
(* read_pid, with which every command begins.                              *)

(* Nothing locks a pid file: a start and another command about the same    *)
(* name can run at a time.                                                 *)
StartOverlaps(cmd, n) ==
  \E d \in Shells : name[d] = n /\ "start" \in {cmd, command[d]}

(* No command is about the name and no process will touch its files.       *)
Quiet(n) ==
  /\ \A d \in Shells : name[d] # n
  /\ \A p \in Pids : tunnel[p] # n

Begin(c) ==
  /\ step[c] = "idle"
  /\ \E cmd \in {"start", "stop", "status"}, n \in Names :
       /\ command' = [command EXCEPT ![c] = cmd]
       /\ name' = [name EXCEPT ![c] = n]
       /\ unsettled' = IF StartOverlaps(cmd, n) THEN unsettled \cup {n}
                       ELSE IF Quiet(n) THEN unsettled \ {n} ELSE unsettled
  /\ step' = [step EXCEPT ![c] = "read"]
  /\ UNCHANGED <<processVars, fileVars, pid, polls>>

(* read_pid answers None. *)
NotRunning(c) ==
  IF command[c] = "start"
  THEN GoTo(c, "truncate") /\ UNCHANGED <<processVars, pid, polls>>
  ELSE Finish(c)

(* Fault: a start does not mind a running tunnel. *)
Running_StartsAnyway(c) ==
  IF command[c] = "status"
  THEN Finish(c)
  ELSE /\ GoTo(c, IF command[c] = "start" THEN "truncate" ELSE "kill")
       /\ UNCHANGED <<processVars, pid, polls>>

(* read_pid answers Some(pid). *)
Running(c) ==
  IF command[c] = "stop"
  THEN GoTo(c, "kill") /\ UNCHANGED <<processVars, pid, polls>>
  ELSE Finish(c)

ReadFile(c) ==
  /\ step[c] = "read"
  /\ IF pidfile[name[c]] = None
     THEN NotRunning(c)
     ELSE /\ GoTo(c, "probe")
          /\ pid' = [pid EXCEPT ![c] = pidfile[name[c]]]
          /\ UNCHANGED <<processVars, polls>>
  /\ UNCHANGED fileVars

Probe(c) ==
  /\ step[c] = "probe"
  /\ IF is_pid_alive(pid[c])
     THEN Running(c)
     ELSE GoTo(c, "clean") /\ UNCHANGED <<processVars, pid, polls>>
  /\ UNCHANGED fileVars

(* The file of a dead process is removed, whatever it holds by now. *)
Clean(c) ==
  /\ step[c] = "clean"
  /\ Remove(name[c])
  /\ NotRunning(c)
  /\ UNCHANGED log

-----------------------------------------------------------------------------
(* spawn_detached after read_pid.                                          *)

(* Fault: the log is opened for appending. *)
TruncateLog_Appends(c) ==
  /\ step[c] = "truncate"
  /\ GoTo(c, "spawn")
  /\ UNCHANGED <<processVars, fileVars, pid, polls>>

TruncateLog(c) ==
  /\ step[c] = "truncate"
  /\ log' = [log EXCEPT ![name[c]] = None]
  /\ GoTo(c, "spawn")
  /\ UNCHANGED <<processVars, pidfile, pid, polls>>

(* The child is spawned, or there is no room for another process. *)
Spawn(c) ==
  /\ step[c] = "spawn"
  /\ \/ /\ \E p \in Pids :
             /\ kind[p] = "free"
             /\ kind' = [kind EXCEPT ![p] = "tunnel"]
             /\ tunnel' = [tunnel EXCEPT ![p] = name[c]]
             /\ parent' = [parent EXCEPT ![p] = c]
             /\ pid' = [pid EXCEPT ![c] = p]
        /\ GoTo(c, "write")
        /\ UNCHANGED <<signalled, printed, polls>>
     \/ Finish(c)
  /\ UNCHANGED fileVars

(* write_pid: the file is opened, which empties it, and then filled.       *)
OpenPidFile(c) ==
  /\ step[c] = "write"
  /\ pidfile' = [pidfile EXCEPT ![name[c]] = None]
  /\ GoTo(c, "fill")
  /\ UNCHANGED <<processVars, log, pid, polls>>

FillPidFile(c) ==
  /\ step[c] = "fill"
  /\ pidfile' = [pidfile EXCEPT ![name[c]] = pid[c]]
  /\ GoTo(c, "wait")
  /\ UNCHANGED <<processVars, log, pid, polls>>

PollAgain(c) ==
  /\ polls' = [polls EXCEPT ![c] = @ + 1]
  /\ GoTo(c, "wait")
  /\ UNCHANGED <<processVars, pid>>

(* Fault: the wait for the "Forwarding" line has no deadline. *)
Poll_NoDeadline(c) ==
  /\ step[c] = "wait"
  /\ IF ~is_pid_alive(pid[c]) \/ log[name[c]] # None
     THEN Finish(c)
     ELSE UNCHANGED <<processVars, shellVars>>
  /\ UNCHANGED fileVars

(* One round of the wait for the "Forwarding" line, or its end. *)
Poll(c) ==
  /\ step[c] = "wait"
  /\ IF polls[c] = Polls \/ ~is_pid_alive(pid[c]) \/ log[name[c]] # None
     THEN Finish(c)
     ELSE PollAgain(c)
  /\ UNCHANGED fileVars

-----------------------------------------------------------------------------
(* cmd_stop after read_pid.                                                *)

(* Fault: the signal is not sent. *)
Kill_NoEffect(c) ==
  /\ step[c] = "kill"
  /\ GoTo(c, "unlink")
  /\ UNCHANGED <<processVars, fileVars, pid, polls>>

(* SIGTERM to whatever has that pid.  A tunnel has no handler for it, but  *)
(* dies (Crash) in its own time: one that is stopped, or in the middle of  *)
(* a write, outlives this command.                                         *)
Kill(c) ==
  /\ step[c] = "kill"
  /\ signalled' = [signalled EXCEPT ![pid[c]] =
                     @ \/ kind[pid[c]] \in {"tunnel", "leaving"}]
  /\ GoTo(c, "unlink")
  /\ UNCHANGED <<kind, tunnel, parent, printed, fileVars, pid, polls>>

(* Nobody waits for the process to end. *)
Unlink(c) ==
  /\ step[c] = "unlink"
  /\ Remove(name[c])
  /\ Finish(c)
  /\ UNCHANGED log

Continue(c) ==
  /\ \/ ReadFile(c) \/ Probe(c) \/ Clean(c)
     \/ TruncateLog(c) \/ Spawn(c) \/ OpenPidFile(c) \/ FillPidFile(c) \/ Poll(c)
     \/ Kill(c) \/ Unlink(c)
  /\ UNCHANGED unsettled

(* Ctrl-C, a kill, or an error of the access that was next, at any step.   *)
(* A tunnel it spawned has a session of its own and lives on; nothing ends *)
(* it when write_pid fails.                                                *)
CutShort(c) ==
  /\ step[c] # "idle"
  /\ Finish(c)
  /\ unsettled' = IF step[c] \in {"write", "fill"} THEN unsettled \cup {name[c]} ELSE unsettled
  /\ UNCHANGED fileVars

-----------------------------------------------------------------------------
(* A tunnel process.                                                       *)

(* The configuration cannot be loaded: the command fails at once. *)
FailsToStart(p) ==
  /\ kind[p] = "tunnel"
  /\ ~printed[p]
  /\ Die(p)
  /\ UNCHANGED <<fileVars, shellVars, unsettled>>

(* A process that was stopped still writes to the files of its name. *)
LateWrite(p) == unsettled' = IF signalled[p] THEN unsettled \cup {tunnel[p]} ELSE unsettled

(* The printer sees, if it ever does, that the client is connected, and    *)
(* prints its line once.                                                   *)
Printer(p) ==
  /\ kind[p] = "tunnel"
  /\ ~printed[p]
  /\ printed' = [printed EXCEPT ![p] = TRUE]
  /\ log' = [log EXCEPT ![tunnel[p]] = p]
  /\ LateWrite(p)
  /\ UNCHANGED <<kind, tunnel, parent, signalled, pidfile, shellVars>>

(* SIGINT: run_with_reconnect returns and the printer is aborted. *)
Interrupted(p) ==
  /\ kind[p] = "tunnel"
  /\ kind' = [kind EXCEPT ![p] = "leaving"]
  /\ printed' = [printed EXCEPT ![p] = FALSE]
  /\ UNCHANGED <<tunnel, parent, signalled, fileVars, shellVars, unsettled>>

(* It removes the pid file of its name, whatever that holds, and has       *)
(* nothing more to do with its files.                                      *)
RemovePidFile(p) ==
  /\ kind[p] = "leaving"
  /\ kind' = [kind EXCEPT ![p] = "left"]
  /\ tunnel' = [tunnel EXCEPT ![p] = None]
  /\ signalled' = [signalled EXCEPT ![p] = FALSE]
  /\ Remove(tunnel[p])
  /\ LateWrite(p)
  /\ UNCHANGED <<parent, printed, log, shellVars>>

Exit(p) ==
  /\ kind[p] = "left"
  /\ Die(p)
  /\ UNCHANGED <<fileVars, shellVars, unsettled>>

(* A foreground tunnel of the name returns: all it does to shared files.   *)
ForegroundReturns(n) ==
  /\ unsettled' = unsettled \cup {n}
  /\ Remove(n)
  /\ UNCHANGED <<processVars, log, shellVars>>

(* Killed by `stop` or from outside, with no chance to clean up. *)
Crash(p) ==
  /\ kind[p] \in {"tunnel", "leaving", "left"}
  /\ Die(p)
  /\ UNCHANGED <<fileVars, shellVars, unsettled>>

(* Other programs of the user take and free pids. *)
Foreign(p) ==
  /\ kind[p] \in {"free", "foreign"}
  /\ kind' = [kind EXCEPT ![p] = IF @ = "free" THEN "foreign" ELSE "free"]
  /\ UNCHANGED <<tunnel, parent, signalled, printed, fileVars, shellVars, unsettled>>

Tunnel(p) ==
  \/ FailsToStart(p) \/ Printer(p) \/ Interrupted(p)
  \/ RemovePidFile(p) \/ Exit(p) \/ Crash(p)

Next ==
  \/ \E c \in Shells : Begin(c) \/ Continue(c) \/ CutShort(c)
  \/ \E p \in Pids : Tunnel(p) \/ Foreign(p)
  \/ \E n \in Names : ForegroundReturns(n)

(* A command goes on; no tunnel has to connect, to stop or to be stopped. *)
Spec == Init /\ [][Next]_vars /\ \A c \in Shells : WF_vars(Continue(c))

-----------------------------------------------------------------------------
(* Properties.  They hold for any number of shells, of the names that are  *)
(* not `unsettled`.  A name becomes unsettled by what the code does not    *)
(* guard against: a start beside another command about it, a start that    *)
(* ends between the spawn and the pid file, a foreground tunnel of the     *)
(* name that returns, a stopped process that writes before it dies.  It is *)
(* settled again when a command finds no other command about it and no     *)
(* process of it left, whatever the files hold.                            *)

InStart(p) == \E c \in Shells : step[c] \in {"write", "fill"} /\ pid[c] = p

Background(p) == kind[p] = "tunnel" /\ ~signalled[p] /\ tunnel[p] \notin unsettled

(* There is at most one background tunnel for a name, those that `stop`    *)
(* has sent a signal to aside: spawn_detached finds the one that runs.     *)
OneTunnelPerName ==
  \A p, q \in Pids : (Background(p) /\ Background(q) /\ tunnel[p] = tunnel[q]) => p = q

(* A background tunnel can be listed and stopped as long as it runs: its   *)
(* pid file is there and names it, also after others have crashed, left or *)
(* been stopped, after commands were interrupted, and when pids are used   *)
(* again.                                                                  *)
ListedWhileRunning ==
  \A p \in Pids : Background(p) => pidfile[tunnel[p]] = p \/ InStart(p)

(* The "Forwarding" line a start shows is its own tunnel's and not one an  *)
(* earlier tunnel of the name left in the log.                             *)
LogIsOwn ==
  \A c \in Shells :
    (step[c] = "wait" /\ name[c] \notin unsettled) => log[name[c]] \in {None, pid[c]}

(* Every command ends, also a start whose tunnel never connects. *)
CommandsEnd == \A c \in Shells : step[c] # "idle" ~> step[c] = "idle"
=============================================================================
