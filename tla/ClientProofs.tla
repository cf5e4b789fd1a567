------------------------------ MODULE ClientProofs ------------------------------
(***************************************************************************)
(* Proofs about the client program.  First BackgroundTunnel, for any       *)
(* shells, names, pids and number of polls: types, and of a name that is   *)
(* not unsettled its one background tunnel, its pid file and its log.      *)
(* Then TunnelClient, which is what runs in such a process, for any number *)
(* of clients, names and connections.                                      *)
(***************************************************************************)
EXTENDS BackgroundTunnel, TLAPS

Kinds    == {"free", "foreign", "tunnel", "leaving", "left", "zombie"}
Steps    == {"idle", "read", "probe", "clean", "truncate", "spawn", "write", "fill", "wait",
             "kill", "unlink"}
Cmds     == {"start", "stop", "status"}

(* From the spawn on a start has a child.                                  *)
WithChild == {"write", "fill", "wait"}

(* The conjuncts of TypeOK by whom they are about; instead of the one on   *)
(* zombies, that a child has its parent until the parent returns.          *)
ProcTypes ==
  /\ kind \in [Pids -> Kinds]
  /\ tunnel \in [Pids -> Names \cup {None}]
  /\ parent \in [Pids -> Shells \cup {None}]
  /\ signalled \in [Pids -> BOOLEAN]
  /\ printed \in [Pids -> BOOLEAN]
  /\ \A p \in Pids : kind[p] \in {"tunnel", "leaving"} => tunnel[p] \in Names
  /\ \A p \in Pids : signalled[p] => kind[p] \in {"tunnel", "leaving"}
  /\ \A p \in Pids : kind[p] = "zombie" => parent[p] # None

FileTypes ==
  /\ pidfile \in [Names -> Pids \cup {None}]
  /\ log \in [Names -> Pids \cup {None}]

ShellTypes ==
  /\ command \in [Shells -> Cmds \cup {"none"}]
  /\ step \in [Shells -> Steps]
  /\ name \in [Shells -> Names \cup {None}]
  /\ pid \in [Shells -> Pids \cup {None}]
  /\ polls \in [Shells -> 0 .. Polls]
  /\ \A c \in Shells : step[c] # "idle" => name[c] \in Names /\ command[c] \in Cmds
  /\ \A c \in Shells : step[c] \in {"truncate", "spawn"} \cup WithChild => command[c] = "start"
  /\ \A c \in Shells :
       step[c] \in {"probe", "clean", "kill", "unlink"} \cup WithChild => pid[c] \in Pids

Children == \A p \in Pids : parent[p] # None => step[parent[p]] \in WithChild

Types == ProcTypes /\ FileTypes /\ ShellTypes /\ Children /\ unsettled \subseteq Names

LEMMA Typed == Types => TypeOK
<1> SUFFICES ASSUME Types PROVE TypeOK
  OBVIOUS
<1>1. \A p \in Pids : kind[p] = "zombie" => step[parent[p]] # "idle"
  BY DEF Types, ProcTypes, Children, WithChild
<1> QED
  BY <1>1 DEF Types, ProcTypes, FileTypes, ShellTypes, TypeOK, Kinds, Steps, Cmds

LEMMA InitTypes == Init => Types
BY BackgroundAssumption
   DEF Init, Types, ProcTypes, FileTypes, ShellTypes, Children, Kinds, Steps, Cmds, WithChild

(* The types of what a command changes when it returns.                    *)
LEMMA FinishTypes ==
  ASSUME Types, NEW c \in Shells, Finish(c), FileTypes', unsettled' \subseteq Names
  PROVE  Types'
<1> USE DEF Types, Finish
<1>1. /\ parent' \in [Pids -> Shells \cup {None}]
      /\ \A p \in Pids : parent'[p] # None => parent'[p] = parent[p] /\ parent[p] # c
  BY DEF ProcTypes
<1>2. /\ kind' \in [Pids -> Kinds]
      /\ \A p \in Pids : kind'[p] # "free" => kind'[p] = kind[p]
      /\ \A p \in Pids : kind[p] # "zombie" => kind'[p] = kind[p]
      /\ \A p \in Pids : kind'[p] = "zombie" => parent[p] # c
  BY DEF ProcTypes, Kinds
<1>3. ProcTypes' BY <1>1, <1>2 DEF ProcTypes
<1>4. ShellTypes'
  <2>1. polls' \in [Shells -> 0 .. Polls] BY BackgroundAssumption DEF ShellTypes
  <2> QED BY <2>1 DEF ShellTypes, Steps, WithChild
<1>5. Children' BY <1>1 DEF Children, ShellTypes, ProcTypes
<1> QED BY <1>3, <1>4, <1>5

(* And of a step within a command. *)
LEMMA GoToTypes ==
  ASSUME Types, NEW c \in Shells, step[c] # "idle", NEW l \in Steps, GoTo(c, l),
         UNCHANGED <<processVars, unsettled>>, FileTypes',
         pid' \in [Shells -> Pids \cup {None}], \A d \in Shells \ {c} : pid'[d] = pid[d],
         l \in {"probe", "clean", "kill", "unlink"} \cup WithChild => pid'[c] \in Pids,
         l \in {"truncate", "spawn"} \cup WithChild => command[c] = "start",
         \A p \in Pids : parent[p] = c => l \in WithChild,
         polls' \in [Shells -> 0 .. Polls]
  PROVE  Types'
<1> USE DEF Types, GoTo
<1>1. ProcTypes' BY DEF ProcTypes, processVars
<1>2. ShellTypes' BY DEF ShellTypes, Steps
<1>3. Children' BY DEF Children, processVars, ShellTypes, ProcTypes
<1> QED BY <1>1, <1>2, <1>3

(* The end of a process. *)
LEMMA DieTypes ==
  ASSUME ProcTypes, NEW p \in Pids, Die(p)
  PROVE  ProcTypes'
BY DEF ProcTypes, Die, Kinds

LEMMA RemoveTypes ==
  ASSUME FileTypes, NEW n, Remove(n), log' = log
  PROVE  FileTypes'
BY DEF FileTypes, Remove

LEMMA NotRunningTypes ==
  ASSUME Types, NEW c \in Shells, step[c] \in {"read", "clean"}, NotRunning(c), FileTypes',
         unsettled' = unsettled
  PROVE  Types'
<1>1. CASE command[c] = "start"
  <2>1. GoTo(c, "truncate") /\ UNCHANGED <<processVars, pid, polls>> BY <1>1 DEF NotRunning
  <2>2. \A p \in Pids : parent[p] # c
    BY BackgroundAssumption DEF Types, Children, ProcTypes, ShellTypes, WithChild
  <2> QED BY <1>1, <2>1, <2>2, GoToTypes DEF Types, ShellTypes, Steps, WithChild
<1>2. CASE command[c] # "start" BY <1>2, FinishTypes DEF NotRunning, Types
<1> QED BY <1>1, <1>2

LEMMA RunningTypes ==
  ASSUME Types, NEW c \in Shells, step[c] = "probe", Running(c), FileTypes', unsettled' = unsettled
  PROVE  Types'
<1>1. pid[c] \in Pids BY DEF Types, ShellTypes
<1>2. CASE command[c] = "stop"
  <2>1. GoTo(c, "kill") /\ UNCHANGED <<processVars, pid, polls>> BY <1>2 DEF Running
  <2>2. \A p \in Pids : parent[p] # c
    BY BackgroundAssumption DEF Types, Children, ProcTypes, ShellTypes, WithChild
  <2> QED BY <1>1, <2>1, <2>2, GoToTypes DEF Types, ShellTypes, Steps, WithChild
<1>3. CASE command[c] # "stop" BY <1>3, FinishTypes DEF Running, Types
<1> QED BY <1>2, <1>3

LEMMA ContinueTypes ==
  ASSUME Types, NEW c \in Shells, Continue(c)
  PROVE  Types'
<1> USE DEF Types
<1>1. /\ step[c] # "idle" => name[c] \in Names
      /\ step[c] \notin WithChild => \A p \in Pids : parent[p] # c
      /\ step[c] \in {"truncate", "spawn"} \cup WithChild => command[c] = "start"
      /\ pid \in [Shells -> Pids \cup {None}] /\ polls \in [Shells -> 0 .. Polls]
      /\ unsettled' = unsettled
  BY BackgroundAssumption DEF Children, ProcTypes, ShellTypes, Continue
<1>2. CASE ReadFile(c)
  <2>1. FileTypes' BY <1>2 DEF ReadFile, FileTypes, fileVars
  <2>2. CASE pidfile[name[c]] = None
    BY <1>1, <1>2, <2>1, <2>2, NotRunningTypes DEF ReadFile
  <2>3. CASE pidfile[name[c]] # None
    <3>1. pidfile[name[c]] \in Pids BY <1>1, <1>2, <2>3 DEF ReadFile, FileTypes
    <3>2. /\ GoTo(c, "probe") /\ UNCHANGED <<processVars, polls>> /\ step[c] = "read"
          /\ pid' = [pid EXCEPT ![c] = pidfile[name[c]]]
      BY <1>2, <2>3 DEF ReadFile
    <3> QED BY <1>1, <2>1, <3>1, <3>2, GoToTypes DEF Steps, WithChild
  <2> QED BY <2>2, <2>3
<1>3. CASE Probe(c)
  <2>1. FileTypes' /\ step[c] = "probe" BY <1>3 DEF Probe, FileTypes, fileVars
  <2>2. CASE is_pid_alive(pid[c]) BY <1>1, <1>3, <2>1, <2>2, RunningTypes DEF Probe
  <2>3. CASE ~is_pid_alive(pid[c])
    <3>1. GoTo(c, "clean") /\ UNCHANGED <<processVars, pid, polls>> BY <1>3, <2>3 DEF Probe
    <3>2. pid[c] \in Pids BY <2>1 DEF ShellTypes
    <3> QED BY <1>1, <2>1, <3>1, <3>2, GoToTypes DEF Steps, WithChild
  <2> QED BY <2>2, <2>3
<1>4. CASE Clean(c)
  BY <1>1, <1>4, NotRunningTypes, RemoveTypes DEF Clean
<1>5. CASE TruncateLog(c)
  <2>1. FileTypes' BY <1>1, <1>5 DEF TruncateLog, FileTypes
  <2> QED BY <1>1, <1>5, <2>1, GoToTypes DEF TruncateLog, Steps, WithChild
<1>6. CASE Spawn(c)
  <2>1. FileTypes' /\ step[c] = "spawn" /\ name[c] \in Names
    BY <1>1, <1>6 DEF Spawn, FileTypes, fileVars
  <2>2. CASE Finish(c) BY <1>1, <2>1, <2>2, FinishTypes
  <2>3. ASSUME NEW p \in Pids, kind[p] = "free", kind' = [kind EXCEPT ![p] = "tunnel"],
               tunnel' = [tunnel EXCEPT ![p] = name[c]], parent' = [parent EXCEPT ![p] = c],
               pid' = [pid EXCEPT ![c] = p], GoTo(c, "write"),
               UNCHANGED <<signalled, printed, polls>>
        PROVE  Types'
    <3>1. ProcTypes' BY <2>1, <2>3 DEF ProcTypes, Kinds
    <3>2. ShellTypes' BY <1>1, <2>1, <2>3 DEF ShellTypes, Steps, GoTo
    <3>3. Children' BY <2>1, <2>3 DEF Children, ProcTypes, ShellTypes, GoTo, WithChild
    <3> QED BY <1>1, <2>1, <3>1, <3>2, <3>3
  <2> QED BY <1>6, <2>2, <2>3 DEF Spawn
<1>7. CASE OpenPidFile(c)
  <2>1. FileTypes' BY <1>7 DEF OpenPidFile, FileTypes
  <2>2. /\ step[c] = "write" /\ GoTo(c, "fill") /\ "fill" \in Steps /\ "fill" \in WithChild
        /\ UNCHANGED <<processVars, pid, polls>> /\ pid[c] \in Pids
    BY <1>7 DEF OpenPidFile, Steps, ShellTypes, WithChild
  <2> QED BY <1>1, <2>1, <2>2, GoToTypes DEF WithChild
<1>8. CASE FillPidFile(c)
  <2>1. pid[c] \in Pids BY <1>8 DEF FillPidFile, ShellTypes, WithChild
  <2>2. FileTypes' BY <1>8, <2>1 DEF FillPidFile, FileTypes
  <2>3. /\ step[c] = "fill" /\ GoTo(c, "wait") /\ "wait" \in Steps /\ "wait" \in WithChild
        /\ UNCHANGED <<processVars, pid, polls>>
    BY <1>8 DEF FillPidFile, Steps, WithChild
  <2> QED BY <1>1, <2>1, <2>2, <2>3, GoToTypes DEF WithChild
<1>9. CASE Poll(c)
  <2>1. FileTypes' BY <1>9 DEF Poll, FileTypes, fileVars
  <2>2. CASE Finish(c) BY <1>1, <2>1, <2>2, FinishTypes
  <2>3. CASE PollAgain(c) /\ polls[c] # Polls
    <3>1. polls' \in [Shells -> 0 .. Polls]
      BY <1>1, <2>3, BackgroundAssumption DEF PollAgain
    <3>2. step[c] = "wait" /\ pid[c] \in Pids BY <1>9 DEF Poll, ShellTypes, WithChild
    <3>3. /\ GoTo(c, "wait") /\ "wait" \in Steps /\ "wait" \in WithChild
          /\ UNCHANGED <<processVars, pid>>
      BY <2>3 DEF PollAgain, Steps, WithChild
    <3> QED BY <1>1, <2>1, <3>1, <3>2, <3>3, GoToTypes DEF WithChild
  <2> QED BY <1>9, <2>2, <2>3 DEF Poll
<1>10. CASE Kill(c)
  <2>1. step[c] = "kill" /\ pid[c] \in Pids BY <1>10 DEF Kill, ShellTypes
  <2>2. ProcTypes' /\ parent' = parent BY <1>10, <2>1 DEF Kill, ProcTypes
  <2>3. FileTypes' BY <1>10 DEF Kill, FileTypes, fileVars
  <2>4. ShellTypes' BY <1>10, <2>1 DEF Kill, GoTo, ShellTypes, Steps, WithChild
  <2>5. Children' BY <1>10, <2>1, <2>2 DEF Kill, GoTo, Children, ShellTypes, ProcTypes, WithChild
  <2> QED BY <1>1, <2>2, <2>3, <2>4, <2>5
<1>11. CASE Unlink(c)
  BY <1>1, <1>11, FinishTypes, RemoveTypes DEF Unlink
<1> QED
  BY <1>2, <1>3, <1>4, <1>5, <1>6, <1>7, <1>8, <1>9, <1>10, <1>11 DEF Continue

LEMMA TypesStep ==
  ASSUME Types, [Next]_vars
  PROVE  Types'
<1> USE DEF Types
<1>1. ASSUME NEW c \in Shells, Begin(c) PROVE Types'
  <2>1. ProcTypes' /\ FileTypes' /\ unsettled' \subseteq Names
    BY <1>1 DEF Begin, ProcTypes, FileTypes, processVars, fileVars
  <2>2. ShellTypes' BY <1>1 DEF Begin, ShellTypes, Steps, Cmds, WithChild
  <2>3. Children' BY <1>1 DEF Begin, Children, ProcTypes, ShellTypes, processVars, WithChild
  <2> QED BY <2>1, <2>2, <2>3
<1>2. ASSUME NEW c \in Shells, CutShort(c) PROVE Types'
  <2>1. FileTypes' /\ unsettled' \subseteq Names
    BY <1>2 DEF CutShort, FileTypes, fileVars, ShellTypes
  <2> QED BY <1>2, <2>1, FinishTypes DEF CutShort
<1>3. ASSUME NEW p \in Pids, Tunnel(p) \/ Foreign(p) PROVE Types'
  <2>1. UNCHANGED shellVars /\ parent' = parent
    BY <1>3 DEF Tunnel, Foreign, FailsToStart, Printer, Interrupted, RemovePidFile, Exit,
           Crash, Die
  <2>2. ShellTypes' /\ Children' BY <2>1 DEF ShellTypes, Children, shellVars
  <2>3. FileTypes' /\ unsettled' \subseteq Names
    <3>1. CASE Printer(p) BY <3>1 DEF Printer, LateWrite, FileTypes, ProcTypes
    <3>2. CASE RemovePidFile(p)
      <4>1. tunnel[p] \in Names BY <3>2 DEF RemovePidFile, ProcTypes
      <4> QED BY <3>2, <4>1, RemoveTypes DEF RemovePidFile, LateWrite
    <3>3. UNCHANGED <<fileVars, unsettled>> => FileTypes' /\ unsettled' \subseteq Names
      BY DEF FileTypes, fileVars
    <3> QED
      BY <1>3, <3>1, <3>2, <3>3 DEF Tunnel, Foreign, FailsToStart, Interrupted, Exit, Crash
  <2>4. ProcTypes'
    <3>1. CASE FailsToStart(p) \/ Exit(p) \/ Crash(p)
      BY <3>1, DieTypes DEF FailsToStart, Exit, Crash
    <3>2. CASE Printer(p) BY <3>2 DEF Printer, ProcTypes
    <3>3. CASE Interrupted(p) \/ RemovePidFile(p)
      BY <3>3 DEF Interrupted, RemovePidFile, ProcTypes, Kinds
    <3>4. CASE Foreign(p) BY <3>4 DEF Foreign, ProcTypes, Kinds
    <3> QED BY <1>3, <3>1, <3>2, <3>3, <3>4 DEF Tunnel
  <2> QED BY <2>2, <2>3, <2>4
<1>4. ASSUME NEW n \in Names, ForegroundReturns(n) PROVE Types'
  <2>1. FileTypes' BY <1>4, RemoveTypes DEF ForegroundReturns
  <2> QED
    BY <1>4, <2>1 DEF ForegroundReturns, ProcTypes, ShellTypes, Children, processVars, shellVars
<1>5. CASE UNCHANGED vars
  BY <1>5 DEF vars, ProcTypes, FileTypes, ShellTypes, Children, processVars, fileVars, shellVars
<1> QED BY <1>1, <1>2, <1>3, <1>4, <1>5, ContinueTypes DEF Next

(* Every variable of a shell, of a process and of a file keeps its type,   *)
(* and an exited child stays a zombie only while its parent runs.          *)
THEOREM TypeCorrect == Spec => []TypeOK
<1>1. Init => Types BY InitTypes
<1>2. Types /\ [Next]_vars => Types' BY TypesStep
<1>3. Types => TypeOK BY Typed
<1> QED BY <1>1, <1>2, <1>3, PTL DEF Spec

-----------------------------------------------------------------------------
(* What a command knows between its steps of a settled name, although      *)
(* nothing is locked and other shells' commands and processes go on.       *)

(* A background tunnel of a settled name that still touches its files.     *)
Live(p) == kind[p] \in {"tunnel", "leaving"} /\ ~signalled[p] /\ tunnel[p] \notin unsettled

(* Beside a start there is no other command about its name. *)
Alone ==
  \A c, d \in Shells :
    (c # d /\ name[c] = name[d] /\ name[c] \in Names \ unsettled) => command[c] # "start"

Listed == \A p \in Pids : Live(p) => pidfile[tunnel[p]] = p \/ InStart(p)

(* The live tunnel of the command's name, if there is one, is the process  *)
(* it read or spawned, and there is none once it found so or killed it.    *)
KnowsTunnel(c) ==
  \A p \in Pids : (Live(p) /\ tunnel[p] = name[c]) =>
     /\ step[c] \in {"probe", "kill"} \cup WithChild => p = pid[c]
     /\ step[c] \notin {"clean", "truncate", "spawn", "unlink"}

(* A start's child keeps its pid until the start returns, dead or alive.   *)
KnowsChild(c) ==
  step[c] \in WithChild =>
     /\ kind[pid[c]] \in {"tunnel", "leaving", "left", "zombie"}
     /\ parent[pid[c]] = c
     /\ kind[pid[c]] \in {"tunnel", "leaving"} => tunnel[pid[c]] = name[c]

KnowsLog(c) ==
  name[c] \notin unsettled =>
     /\ step[c] = "spawn" => log[name[c]] = None
     /\ step[c] \in WithChild => log[name[c]] \in {None, pid[c]}

Knows(c) == KnowsTunnel(c) /\ KnowsChild(c) /\ KnowsLog(c)

IInv == Types /\ Alone /\ Listed /\ \A c \in Shells : Knows(c)

LEMMA OneLive ==
  ASSUME IInv, NEW p \in Pids, NEW q \in Pids, Live(p), Live(q), tunnel[p] = tunnel[q]
  PROVE  p = q
<1> USE DEF IInv
<1>1. ASSUME NEW a \in Pids, NEW b \in Pids, Live(a), Live(b), tunnel[a] = tunnel[b], InStart(a)
      PROVE  a = b
  <2>1. PICK c \in Shells : step[c] \in WithChild /\ pid[c] = a
    BY <1>1 DEF InStart, WithChild
  <2>2. tunnel[a] = name[c] BY <1>1, <2>1 DEF Live, Knows, KnowsChild
  <2> QED BY <1>1, <2>1, <2>2 DEF Knows, KnowsTunnel
<1> QED BY <1>1 DEF Listed

LEMMA Promises == IInv => OneTunnelPerName /\ ListedWhileRunning /\ LogIsOwn
<1> SUFFICES ASSUME IInv PROVE OneTunnelPerName /\ ListedWhileRunning /\ LogIsOwn
  OBVIOUS
<1>1. \A p \in Pids : Background(p) => Live(p) BY DEF Background, Live
<1>2. OneTunnelPerName BY <1>1, OneLive DEF OneTunnelPerName, Background
<1>3. ListedWhileRunning BY <1>1 DEF IInv, ListedWhileRunning, Listed
<1>4. LogIsOwn BY DEF IInv, LogIsOwn, Knows, KnowsLog, WithChild
<1> QED BY <1>2, <1>3, <1>4

LEMMA InitKnows == Init => Alone /\ Listed /\ \A c \in Shells : Knows(c)
BY BackgroundAssumption
   DEF Init, Alone, Listed, Live, Knows, KnowsTunnel, KnowsChild, KnowsLog, WithChild

(* Who else would be starting this tunnel would not leave this command     *)
(* alone.                                                                  *)
LEMMA NoneStarting ==
  ASSUME IInv, NEW c \in Shells, step[c] \notin {"idle", "write", "fill"},
         NEW p \in Pids, Live(p), tunnel[p] = name[c]
  PROVE  ~InStart(p)
<1> SUFFICES ASSUME NEW d \in Shells, step[d] \in {"write", "fill"}, pid[d] = p PROVE FALSE
  BY DEF InStart
<1>1. tunnel[p] = name[d] BY DEF IInv, Knows, KnowsChild, Live, WithChild
<1>2. command[d] = "start" /\ name[d] \in Names BY DEF IInv, Types, ShellTypes, WithChild
<1>3. c # d OBVIOUS
<1> QED BY <1>1, <1>2, <1>3 DEF IInv, Alone, Live

(* What a command knows, over a step that is not its own.                  *)
LEMMA StillKnows ==
  ASSUME IInv, NEW d \in Shells,
         step'[d] = step[d], name'[d] = name[d], pid'[d] = pid[d],
         name[d] \notin unsettled' => name[d] \notin unsettled,
         \A p \in Pids : (Live(p)' /\ tunnel'[p] = name[d]) => Live(p) /\ tunnel[p] = name[d],
         (step[d] \in {"spawn"} \cup WithChild /\ name[d] \notin unsettled') =>
            log'[name[d]] = log[name[d]] \/ log'[name[d]] = None
              \/ (log'[name[d]] = pid[d] /\ step[d] # "spawn"),
         KnowsChild(d)'
  PROVE  Knows(d)'
<1> USE DEF IInv
<1>1. KnowsTunnel(d)' BY DEF Knows, KnowsTunnel
<1>2. KnowsLog(d)' BY DEF Knows, KnowsLog, WithChild
<1> QED BY <1>1, <1>2 DEF Knows

(* A child of a start over a step that neither spawns nor ends a start.    *)
LEMMA StillChild ==
  ASSUME IInv, NEW d \in Shells, step'[d] = step[d], name'[d] = name[d], pid'[d] = pid[d],
         step[d] \in WithChild => parent'[pid[d]] = parent[pid[d]],
         \A p \in Pids : kind'[p] # kind[p] =>
            \/ kind'[p] \in {"tunnel", "leaving", "left", "zombie"} /\ kind[p] # "free"
            \/ kind[p] \in {"free", "foreign"}
            \/ parent[p] # d,
         \A p \in Pids : kind'[p] \in {"tunnel", "leaving"} /\ kind[p] \notin {"free", "foreign"} =>
            kind[p] \in {"tunnel", "leaving"} /\ tunnel'[p] = tunnel[p]
  PROVE  KnowsChild(d)'
<1>1. step[d] \in WithChild => pid[d] \in Pids BY DEF IInv, Types, ShellTypes
<1> QED BY <1>1 DEF IInv, Knows, KnowsChild, WithChild

(* A step of no command, that makes nothing live.                          *)
LEMMA NothingNew ==
  ASSUME IInv, UNCHANGED <<command, step, name, pid>>, unsettled \subseteq unsettled',
         \A p \in Pids : Live(p)' => Live(p) /\ tunnel'[p] = tunnel[p],
         \A p \in Pids : Live(p)' => pidfile'[tunnel[p]] = pidfile[tunnel[p]],
         \A d \in Shells : KnowsChild(d)',
         \A d \in Shells : (step[d] \in {"spawn"} \cup WithChild /\ name[d] \notin unsettled') =>
            log'[name[d]] = log[name[d]] \/ (log'[name[d]] = pid[d] /\ step[d] # "spawn")
  PROVE  Alone' /\ Listed' /\ \A d \in Shells : Knows(d)'
<1>1. Alone' BY DEF IInv, Alone
<1>2. Listed' BY DEF IInv, Listed, InStart
<1>3. ASSUME NEW d \in Shells PROVE Knows(d)'
  <2>1. name[d] \notin unsettled' => name[d] \notin unsettled OBVIOUS
  <2> QED BY <2>1, StillKnows
<1> QED BY <1>1, <1>2, <1>3

LEMMA TunnelKnows ==
  ASSUME IInv, NEW p \in Pids, Tunnel(p) \/ Foreign(p)
  PROVE  Alone' /\ Listed' /\ \A d \in Shells : Knows(d)'
<1> USE DEF IInv
<1>1. /\ UNCHANGED <<parent, shellVars>>
      /\ \A q \in Pids \ {p} : kind'[q] = kind[q] /\ tunnel'[q] = tunnel[q]
                               /\ signalled'[q] = signalled[q]
      /\ kind[p] \in Kinds /\ unsettled \subseteq unsettled'
  BY DEF Tunnel, Foreign, FailsToStart, Printer, LateWrite, Interrupted, RemovePidFile, Exit, Crash,
         Die, Types, ProcTypes
<1>2. \/ kind'[p] \in {"left", "zombie"} /\ kind[p] # "free"
      \/ kind'[p] = "free" /\ parent[p] = None
      \/ kind'[p] \in {"tunnel", "leaving"} /\ kind[p] = "tunnel" /\ tunnel'[p] = tunnel[p]
                                            /\ signalled'[p] = signalled[p]
      \/ kind[p] \in {"free", "foreign"} /\ kind'[p] \in {"free", "foreign"}
  BY DEF Tunnel, Foreign, FailsToStart, Printer, Interrupted, RemovePidFile, Exit, Crash,
         Die, Types, ProcTypes, Kinds
<1>3. ASSUME NEW d \in Shells PROVE KnowsChild(d)'
  <2>1. /\ step'[d] = step[d] /\ name'[d] = name[d] /\ pid'[d] = pid[d]
        /\ parent'[pid[d]] = parent[pid[d]] /\ d # None
    BY <1>1, BackgroundAssumption DEF shellVars
  <2> QED BY <1>1, <1>2, <2>1, StillChild
<1>4. \A q \in Pids : Live(q)' => Live(q) /\ tunnel'[q] = tunnel[q]
  BY <1>1, <1>2 DEF Live
<1>5. CASE UNCHANGED fileVars BY <1>1, <1>3, <1>4, <1>5, NothingNew DEF shellVars, fileVars
<1>6. CASE Printer(p)
  <2>1. /\ kind[p] = "tunnel" /\ pidfile' = pidfile /\ tunnel[p] \in Names
        /\ log' = [log EXCEPT ![tunnel[p]] = p] /\ LateWrite(p)
    BY <1>6 DEF Printer, Types, ProcTypes
  <2>2. ASSUME NEW d \in Shells, step[d] \in {"spawn"} \cup WithChild, name[d] \notin unsettled'
        PROVE  log'[name[d]] = log[name[d]] \/ (log'[name[d]] = pid[d] /\ step[d] # "spawn")
    <3>1. CASE tunnel[p] # name[d] BY <2>1, <3>1 DEF Types, FileTypes
    <3>2. CASE tunnel[p] = name[d]
      <4>1. Live(p) BY <1>1, <2>1, <2>2, <3>2 DEF Live, LateWrite
      <4>2. step[d] # "spawn" /\ p = pid[d] BY <2>2, <3>2, <4>1 DEF Knows, KnowsTunnel
      <4> QED BY <2>1, <3>2, <4>2 DEF Types, FileTypes
    <3> QED BY <3>1, <3>2
  <2> QED BY <1>1, <1>3, <1>4, <2>1, <2>2, NothingNew DEF shellVars
<1>7. CASE RemovePidFile(p)
  <2>1. /\ kind[p] = "leaving" /\ kind'[p] = "left" /\ tunnel[p] \in Names /\ log' = log
        /\ Remove(tunnel[p]) /\ LateWrite(p)
    BY <1>7 DEF RemovePidFile, Types, ProcTypes
  <2>2. ASSUME NEW q \in Pids, Live(q)' PROVE tunnel[q] # tunnel[p]
    <3> SUFFICES ASSUME tunnel[q] = tunnel[p] PROVE FALSE
      OBVIOUS
    <3>1. Live(q) /\ q # p /\ tunnel[q] \notin unsettled' BY <1>4, <2>1, <2>2 DEF Live
    <3>2. Live(p) BY <1>1, <2>1, <3>1 DEF Live, LateWrite
    <3> QED BY <3>1, <3>2, OneLive
  <2>3. \A q \in Pids : Live(q)' => pidfile'[tunnel[q]] = pidfile[tunnel[q]]
    BY <1>4, <2>1, <2>2 DEF Remove, Live, Types, ProcTypes, FileTypes
  <2> QED BY <1>1, <1>3, <1>4, <2>1, <2>3, NothingNew DEF shellVars
<1> QED
  BY <1>5, <1>6, <1>7 DEF Tunnel, Foreign, FailsToStart, Interrupted, Exit, Crash

(* A command returns, and gives up a child only when its pid file is       *)
(* written, or unsettles the name.                                         *)
LEMMA FinishKnows ==
  ASSUME IInv, NEW c \in Shells, step[c] # "idle", Finish(c), log' = log,
         unsettled \subseteq unsettled',
         step[c] \in {"write", "fill"} => name[c] \in unsettled',
         \A p \in Pids : Live(p) => pidfile'[tunnel[p]] = pidfile[tunnel[p]]
  PROVE  Alone' /\ Listed' /\ \A d \in Shells : Knows(d)'
<1> USE DEF IInv
<1>1. /\ step'[c] = "idle" /\ name'[c] = None /\ None \notin Names /\ tunnel' = tunnel
      /\ \A d \in Shells \ {c} : /\ step'[d] = step[d] /\ name'[d] = name[d]
                                 /\ pid'[d] = pid[d] /\ command'[d] = command[d]
  BY BackgroundAssumption DEF Finish, Types, ShellTypes
<1>2. \A p \in Pids : Live(p)' => Live(p) /\ tunnel[p] \in Names /\ tunnel[p] \notin unsettled'
  BY <1>1 DEF Finish, Live, Types, ProcTypes
<1>3. Alone' BY <1>1 DEF Alone
<1>4. Listed'
  <2> SUFFICES ASSUME NEW p \in Pids, Live(p)', InStart(p) PROVE InStart(p)'
    BY <1>1, <1>2 DEF Listed
  <2>1. PICK d \in Shells : step[d] \in {"write", "fill"} /\ pid[d] = p BY DEF InStart
  <2>2. tunnel[p] = name[d] BY <1>2, <2>1 DEF Knows, KnowsChild, Live, WithChild
  <2>3. d # c BY <1>2, <2>1, <2>2
  <2> QED BY <1>1, <2>1, <2>3 DEF InStart
<1>5. Knows(c)' BY <1>1, <1>2 DEF Knows, KnowsTunnel, KnowsChild, KnowsLog, WithChild
<1>6. ASSUME NEW d \in Shells \ {c} PROVE Knows(d)'
  <2>1. step[d] \in WithChild => pid[d] \in Pids /\ parent[pid[d]] = d
    BY DEF Types, ShellTypes, Knows, KnowsChild
  <2>2. step[d] \in WithChild => parent'[pid[d]] = parent[pid[d]] BY <2>1 DEF Finish
  <2>3. \A p \in Pids : kind'[p] # kind[p] => parent[p] # d BY DEF Finish
  <2>4. \A p \in Pids : kind'[p] \in {"tunnel", "leaving"} => kind[p] = kind'[p]
    BY DEF Finish
  <2>5. KnowsChild(d)' BY <1>1, <2>2, <2>3, <2>4, StillChild
  <2> QED BY <1>1, <1>2, <2>5, StillKnows
<1> QED BY <1>3, <1>4, <1>5, <1>6

(* A step of a command, without a child, that leaves processes and the log *)
(* alone.                                                                  *)
LEMMA GoToKnows ==
  ASSUME IInv, NEW c \in Shells, NEW l \in Steps, GoTo(c, l),
         UNCHANGED <<processVars, log, unsettled>>,
         step[c] \notin {"idle", "write", "fill"}, l \notin {"spawn"} \cup WithChild,
         \A d \in Shells \ {c} : pid'[d] = pid[d],
         \A p \in Pids : Live(p) => pidfile'[tunnel[p]] = pidfile[tunnel[p]],
         \A p \in Pids : (Live(p) /\ tunnel[p] = name[c]) =>
            /\ l \in {"probe", "kill"} => p = pid'[c]
            /\ l \notin {"clean", "truncate", "unlink"}
  PROVE  Alone' /\ Listed' /\ \A d \in Shells : Knows(d)'
<1> USE DEF IInv
<1>1. /\ step'[c] = l /\ name' = name /\ command' = command
      /\ \A d \in Shells \ {c} : step'[d] = step[d]
  BY DEF GoTo, Types, ShellTypes
<1>2. \A p \in Pids : (Live(p)' <=> Live(p)) /\ tunnel'[p] = tunnel[p] /\ kind'[p] = kind[p]
  BY DEF Live, processVars
<1>3. Alone' BY <1>1 DEF Alone
<1>4. Listed' BY <1>1, <1>2 DEF Listed, InStart
<1>5. Knows(c)' BY <1>1, <1>2 DEF Knows, KnowsTunnel, KnowsChild, KnowsLog
<1>6. ASSUME NEW d \in Shells \ {c} PROVE Knows(d)'
  <2>1. KnowsChild(d)' BY <1>1, <1>2, StillChild DEF processVars
  <2> QED BY <1>1, <1>2, <2>1, StillKnows
<1> QED BY <1>3, <1>4, <1>5, <1>6

(* read_pid's end, when it found nothing.                                  *)
LEMMA NotRunningKnows ==
  ASSUME IInv, NEW c \in Shells, NotRunning(c), step[c] \in {"read", "clean"},
         UNCHANGED <<log, unsettled>>, pidfile' = pidfile \/ Remove(name[c]),
         \A p \in Pids : Live(p) => tunnel[p] # name[c]
  PROVE  Alone' /\ Listed' /\ \A d \in Shells : Knows(d)'
<1>1. \A p \in Pids : Live(p) => pidfile'[tunnel[p]] = pidfile[tunnel[p]]
  BY DEF Live, Remove, IInv, Types, ProcTypes, FileTypes
<1>2. CASE command[c] = "start"
  <2>1. GoTo(c, "truncate") /\ UNCHANGED <<processVars, pid>> BY <1>2 DEF NotRunning
  <2> QED BY <1>1, <2>1, GoToKnows DEF Steps, WithChild
<1>3. CASE command[c] # "start" BY <1>1, <1>3, FinishKnows DEF NotRunning
<1> QED BY <1>2, <1>3

LEMMA ReadPidKnows ==
  ASSUME IInv, NEW c \in Shells, ReadFile(c) \/ Probe(c) \/ Clean(c), unsettled' = unsettled
  PROVE  Alone' /\ Listed' /\ \A d \in Shells : Knows(d)'
<1> USE DEF IInv
<1>1. CASE ReadFile(c)
  <2>1. /\ step[c] = "read" /\ UNCHANGED <<pidfile, log>>
        /\ \A p \in Pids : (Live(p) /\ tunnel[p] = name[c]) => pidfile[name[c]] = p
    BY <1>1, NoneStarting DEF ReadFile, fileVars, Listed
  <2>2. CASE pidfile[name[c]] = None
    <3>1. \A p \in Pids : Live(p) => tunnel[p] # name[c]
      BY <2>1, <2>2, BackgroundAssumption
    <3> QED BY <1>1, <2>1, <2>2, <3>1, NotRunningKnows DEF ReadFile
  <2>3. CASE pidfile[name[c]] # None
    <3>1. /\ GoTo(c, "probe") /\ UNCHANGED processVars
          /\ pid' = [pid EXCEPT ![c] = pidfile[name[c]]]
      BY <1>1, <2>3 DEF ReadFile
    <3>2. pid'[c] = pidfile[name[c]] /\ \A d \in Shells \ {c} : pid'[d] = pid[d]
      BY <3>1 DEF Types, ShellTypes
    <3> QED BY <2>1, <3>1, <3>2, GoToKnows DEF Steps, WithChild
  <2> QED BY <2>2, <2>3
<1>2. CASE Probe(c)
  <2>1. step[c] = "probe" /\ UNCHANGED <<pidfile, log>> BY <1>2 DEF Probe, fileVars
  <2>2. \A p \in Pids : (Live(p) /\ tunnel[p] = name[c]) => p = pid[c]
    BY <2>1 DEF Knows, KnowsTunnel
  <2>3. CASE is_pid_alive(pid[c]) /\ command[c] = "stop"
    <3>1. GoTo(c, "kill") /\ UNCHANGED <<processVars, pid>> BY <1>2, <2>3 DEF Probe, Running
    <3> QED BY <2>1, <2>2, <3>1, GoToKnows DEF Steps, WithChild
  <2>4. CASE is_pid_alive(pid[c]) /\ command[c] # "stop"
    <3>1. Finish(c) BY <1>2, <2>4 DEF Probe, Running
    <3> QED BY <2>1, <3>1, FinishKnows
  <2>5. CASE ~is_pid_alive(pid[c])
    <3>1. GoTo(c, "clean") /\ UNCHANGED <<processVars, pid>> BY <1>2, <2>5 DEF Probe
    <3>2. ~Live(pid[c]) BY <2>5 DEF is_pid_alive, Live
    <3> QED BY <2>1, <2>2, <3>1, <3>2, GoToKnows DEF Steps, WithChild
  <2> QED BY <2>3, <2>4, <2>5
<1>3. CASE Clean(c)
  <2>1. \A p \in Pids : Live(p) => tunnel[p] # name[c]
    BY <1>3 DEF Clean, Knows, KnowsTunnel
  <2> QED BY <1>3, <2>1, NotRunningKnows DEF Clean
<1> QED BY <1>1, <1>2, <1>3

LEMMA StopKnows ==
  ASSUME IInv, NEW c \in Shells, Kill(c) \/ Unlink(c), unsettled' = unsettled
  PROVE  Alone' /\ Listed' /\ \A d \in Shells : Knows(d)'
<1> USE DEF IInv
<1>1. CASE Kill(c)
  <2>1. /\ step[c] = "kill" /\ step'[c] = "unlink" /\ pid[c] \in Pids
        /\ \A d \in Shells \ {c} : step'[d] = step[d]
        /\ UNCHANGED <<kind, tunnel, parent, pidfile, log, command, name, pid>>
    BY <1>1 DEF Kill, GoTo, fileVars, Types, ShellTypes
  <2>2. \A p \in Pids : Live(p)' => Live(p) /\ p # pid[c]
    BY <1>1, <2>1 DEF Kill, Live, Types, ProcTypes
  <2>3. Alone' BY <2>1 DEF Alone
  <2>4. Listed' BY <2>1, <2>2 DEF Listed, InStart
  <2>5. Knows(c)'
    BY <2>1, <2>2 DEF Knows, KnowsTunnel, KnowsChild, KnowsLog, WithChild
  <2>6. ASSUME NEW d \in Shells \ {c} PROVE Knows(d)'
    <3>1. KnowsChild(d)' BY <2>1, StillChild
    <3> QED BY <2>1, <2>2, <3>1, StillKnows
  <2> QED BY <2>3, <2>4, <2>5, <2>6
<1>2. CASE Unlink(c)
  <2>1. step[c] = "unlink" /\ Finish(c) /\ log' = log /\ Remove(name[c]) BY <1>2 DEF Unlink
  <2>2. \A p \in Pids : Live(p) => tunnel[p] # name[c] BY <2>1 DEF Knows, KnowsTunnel
  <2>3. \A p \in Pids : Live(p) => pidfile'[tunnel[p]] = pidfile[tunnel[p]]
    BY <2>1, <2>2 DEF Remove, Live, Types, ProcTypes, FileTypes
  <2> QED BY <2>1, <2>3, FinishKnows
<1> QED BY <1>1, <1>2

(* What spawning keeps apart: the commands about other names, and those of *)
(* unsettled names.                                                        *)
LEMMA NoOtherStart ==
  ASSUME IInv, NEW c \in Shells, NEW d \in Shells, d # c, name[d] = name[c],
         step[c] \in {"truncate", "spawn"} \cup WithChild
  PROVE  name[c] \in unsettled
BY DEF IInv, Alone, Types, ShellTypes, WithChild

LEMMA SpawnKnows ==
  ASSUME IInv, NEW c \in Shells, TruncateLog(c) \/ Spawn(c), unsettled' = unsettled
  PROVE  Alone' /\ Listed' /\ \A d \in Shells : Knows(d)'
<1> USE DEF IInv
<1>1. CASE TruncateLog(c)
  <2>1. /\ step[c] = "truncate" /\ step'[c] = "spawn" /\ name[c] \in Names
        /\ \A d \in Shells \ {c} : step'[d] = step[d]
        /\ UNCHANGED <<kind, tunnel, parent, signalled, pidfile, command, name, pid>>
        /\ log' = [log EXCEPT ![name[c]] = None] /\ log'[name[c]] = None
    BY <1>1 DEF TruncateLog, GoTo, processVars, Types, ShellTypes, FileTypes
  <2>2. \A p \in Pids : Live(p)' <=> Live(p) BY <2>1 DEF Live
  <2>3. Alone' BY <2>1 DEF Alone
  <2>4. Listed' BY <2>1, <2>2 DEF Listed, InStart
  <2>5. Knows(c)' BY <2>1, <2>2 DEF Knows, KnowsTunnel, KnowsChild, KnowsLog, WithChild
  <2>6. ASSUME NEW d \in Shells \ {c} PROVE Knows(d)'
    <3>1. KnowsChild(d)' BY <2>1, StillChild
    <3>2. step[d] # "idle" => log'[name[d]] = log[name[d]] \/ log'[name[d]] = None
      BY <2>1 DEF Types, ShellTypes, FileTypes
    <3> QED BY <2>1, <2>2, <3>1, <3>2, StillKnows DEF WithChild
  <2> QED BY <2>3, <2>4, <2>5, <2>6
<1>2. CASE Spawn(c)
  <2>1. step[c] = "spawn" /\ UNCHANGED <<pidfile, log>> /\ name[c] \in Names
    BY <1>2 DEF Spawn, fileVars, Types, ShellTypes
  <2>2. CASE Finish(c) BY <2>1, <2>2, FinishKnows
  <2>3. ASSUME NEW p \in Pids, kind[p] = "free", kind' = [kind EXCEPT ![p] = "tunnel"],
               tunnel' = [tunnel EXCEPT ![p] = name[c]], parent' = [parent EXCEPT ![p] = c],
               pid' = [pid EXCEPT ![c] = p], GoTo(c, "write"), signalled' = signalled
        PROVE  Alone' /\ Listed' /\ \A d \in Shells : Knows(d)'
    <3>1. /\ step'[c] = "write" /\ pid'[c] = p /\ UNCHANGED <<command, name>>
          /\ \A d \in Shells \ {c} : step'[d] = step[d] /\ pid'[d] = pid[d]
      BY <2>1, <2>3 DEF GoTo, Types, ShellTypes
    <3>2. /\ tunnel'[p] = name[c] /\ kind'[p] = "tunnel" /\ parent'[p] = c
          /\ \A q \in Pids \ {p} : /\ (Live(q)' <=> Live(q)) /\ tunnel'[q] = tunnel[q]
                                   /\ kind'[q] = kind[q] /\ parent'[q] = parent[q]
      BY <2>3 DEF Live, Types, ProcTypes
    <3>3. Alone' BY <3>1 DEF Alone
    <3>4. Listed' BY <2>1, <3>1, <3>2 DEF Listed, InStart
    <3>5. \A q \in Pids : Live(q) => tunnel[q] # name[c] BY <2>1 DEF Knows, KnowsTunnel
    <3>6. Knows(c)'
      <4>1. KnowsTunnel(c)' BY <3>1, <3>2, <3>5 DEF KnowsTunnel
      <4>2. KnowsChild(c)' BY <3>1, <3>2 DEF KnowsChild
      <4>3. KnowsLog(c)' BY <2>1, <3>1 DEF Knows, KnowsLog
      <4> QED BY <4>1, <4>2, <4>3 DEF Knows
    <3>7. ASSUME NEW d \in Shells \ {c} PROVE Knows(d)'
      <4>1. step[d] \in WithChild => pid[d] \in Pids /\ pid[d] # p
        BY <2>3 DEF Types, ShellTypes, Knows, KnowsChild
      <4>2. KnowsChild(d)' BY <3>1, <3>2, <4>1 DEF Knows, KnowsChild
      <4>3. \A q \in Pids : (Live(q)' /\ tunnel'[q] = name[d]) => Live(q) /\ tunnel[q] = name[d]
        <5>1. name[d] = name[c] => ~Live(p)' BY <2>1, <3>2, NoOtherStart DEF Live
        <5> QED BY <3>2, <5>1
      <4> QED BY <2>1, <3>1, <4>2, <4>3, StillKnows
    <3> QED BY <3>3, <3>4, <3>6, <3>7
  <2> QED BY <1>2, <2>2, <2>3 DEF Spawn
<1> QED BY <1>1, <1>2

LEMMA WritePidKnows ==
  ASSUME IInv, NEW c \in Shells, OpenPidFile(c) \/ FillPidFile(c), unsettled' = unsettled
  PROVE  Alone' /\ Listed' /\ \A d \in Shells : Knows(d)'
<1> USE DEF IInv
<1>1. /\ step[c] \in {"write", "fill"} /\ step[c] \in WithChild /\ step'[c] \in WithChild
      /\ \A d \in Shells \ {c} : step'[d] = step[d]
      /\ UNCHANGED <<kind, tunnel, parent, signalled, log, command, name, pid>>
      /\ name[c] \in Names /\ pid[c] \in Pids
      /\ \A n \in Names \ {name[c]} : pidfile'[n] = pidfile[n]
      /\ step'[c] = "fill" \/ pidfile'[name[c]] = pid[c]
  BY DEF OpenPidFile, FillPidFile, GoTo, processVars, Types, ShellTypes, FileTypes, WithChild
<1>2. \A p \in Pids : Live(p)' <=> Live(p) BY <1>1 DEF Live
<1>3. Alone' BY <1>1 DEF Alone
<1>4. Listed'
  <2> SUFFICES ASSUME NEW p \in Pids, Live(p) PROVE pidfile'[tunnel[p]] = p \/ InStart(p)'
    BY <1>1, <1>2 DEF Listed
  <2>1. tunnel[p] \in Names BY DEF Live, Types, ProcTypes
  <2>2. CASE tunnel[p] = name[c]
    <3>1. p = pid[c] BY <1>1, <2>2 DEF Knows, KnowsTunnel
    <3> QED BY <1>1, <2>2, <3>1 DEF InStart
  <2>3. CASE tunnel[p] # name[c]
    <3>1. pid[c] # p BY <1>1, <2>3 DEF Knows, KnowsChild, Live
    <3>2. InStart(p) => InStart(p)' BY <1>1, <3>1 DEF InStart
    <3> QED BY <1>1, <2>1, <2>3, <3>2 DEF Listed
  <2> QED BY <2>2, <2>3
<1>5. Knows(c)' BY <1>1, <1>2 DEF Knows, KnowsTunnel, KnowsChild, KnowsLog, WithChild
<1>6. ASSUME NEW d \in Shells \ {c} PROVE Knows(d)'
  <2>1. KnowsChild(d)' BY <1>1, StillChild
  <2> QED BY <1>1, <1>2, <2>1, StillKnows
<1> QED BY <1>3, <1>4, <1>5, <1>6

LEMMA PollKnows ==
  ASSUME IInv, NEW c \in Shells, Poll(c), unsettled' = unsettled
  PROVE  Alone' /\ Listed' /\ \A d \in Shells : Knows(d)'
<1>1. step[c] = "wait" /\ UNCHANGED <<pidfile, log>> BY DEF Poll, fileVars
<1>2. CASE Finish(c) BY <1>1, <1>2, FinishKnows
<1>3. CASE PollAgain(c)
  <2>1. UNCHANGED <<command, step, name, pid, kind, tunnel, parent, signalled>>
    BY <1>1, <1>3 DEF PollAgain, GoTo, processVars, IInv, Types, ShellTypes
  <2>2. \A d \in Shells : KnowsChild(d)' BY <2>1 DEF IInv, Knows, KnowsChild
  <2>3. \A p \in Pids : Live(p)' => Live(p) BY <2>1 DEF Live
  <2> QED BY <1>1, <2>1, <2>2, <2>3, NothingNew
<1> QED BY <1>2, <1>3 DEF Poll

(* A command begins.  A name becomes settled only when there is no other   *)
(* command about it and no process that touches its files.                 *)
LEMMA BeginKnows ==
  ASSUME IInv, NEW c \in Shells, Begin(c)
  PROVE  Alone' /\ Listed' /\ \A d \in Shells : Knows(d)'
<1> USE DEF IInv
<1>1. PICK cmd \in Cmds, n \in Names :
        /\ command' = [command EXCEPT ![c] = cmd]
        /\ name' = [name EXCEPT ![c] = n]
        /\ unsettled' = IF StartOverlaps(cmd, n) THEN unsettled \cup {n}
                        ELSE IF Quiet(n) THEN unsettled \ {n} ELSE unsettled
  BY DEF Begin, Cmds
<1>2. /\ step[c] = "idle" /\ step'[c] = "read"
      /\ name'[c] = n /\ command'[c] = cmd
      /\ \A d \in Shells \ {c} : /\ step'[d] = step[d] /\ name'[d] = name[d]
                                 /\ command'[d] = command[d]
      /\ UNCHANGED <<kind, tunnel, parent, signalled, pidfile, log, pid>>
  BY <1>1 DEF Begin, processVars, fileVars, Types, ShellTypes
<1>3. /\ \A m \in Names : m \notin unsettled' => m \notin unsettled \/ (m = n /\ Quiet(n))
      /\ \A d \in Shells : name[d] \in Names \ unsettled' => name[d] \notin unsettled
  BY <1>1 DEF Quiet
<1>4. \A p \in Pids : Live(p)' => Live(p) BY <1>2, <1>3 DEF Live, Quiet, Types, ProcTypes
<1>5. Alone'
  <2> SUFFICES ASSUME NEW a \in Shells, NEW b \in Shells, a # b, name'[a] = name'[b],
                      name'[a] \in Names \ unsettled'
               PROVE  command'[a] # "start"
    BY DEF Alone
  <2>1. CASE a # c /\ b # c BY <1>2, <1>3, <2>1 DEF Alone
  <2>2. CASE a = c \/ b = c
    <3>1. ~StartOverlaps(cmd, n) BY <1>1, <1>2, <2>2
    <3> QED BY <1>2, <2>2, <3>1 DEF StartOverlaps
  <2> QED BY <2>1, <2>2
<1>6. Listed' BY <1>2, <1>4 DEF Listed, InStart
<1>7. Knows(c)' BY <1>2 DEF Knows, KnowsTunnel, KnowsChild, KnowsLog, WithChild
<1>8. ASSUME NEW d \in Shells \ {c} PROVE Knows(d)'
  <2>1. KnowsChild(d)' BY <1>2, StillChild
  <2>2. KnowsTunnel(d)' BY <1>2, <1>4 DEF Knows, KnowsTunnel
  <2>3. KnowsLog(d)'
    <3>1. step[d] \in {"spawn"} \cup WithChild => name[d] \in Names
      BY DEF Types, ShellTypes, WithChild
    <3> QED BY <1>2, <1>3, <3>1 DEF Knows, KnowsLog
  <2> QED BY <2>1, <2>2, <2>3 DEF Knows
<1> QED BY <1>5, <1>6, <1>7, <1>8

LEMMA KnowsStep ==
  ASSUME IInv, [Next]_vars
  PROVE  IInv'
<1>1. Types' BY TypesStep DEF IInv
<1>2. ASSUME NEW c \in Shells, CutShort(c) PROVE Alone' /\ Listed' /\ \A d \in Shells : Knows(d)'
  BY <1>2, FinishKnows DEF CutShort, fileVars
<1>3. ASSUME NEW c \in Shells, Continue(c) PROVE Alone' /\ Listed' /\ \A d \in Shells : Knows(d)'
  BY <1>3, ReadPidKnows, SpawnKnows, WritePidKnows, PollKnows, StopKnows DEF Continue
<1>4. ASSUME NEW n \in Names, ForegroundReturns(n)
      PROVE  Alone' /\ Listed' /\ \A d \in Shells : Knows(d)'
  <2>1. /\ UNCHANGED <<kind, tunnel, parent, signalled, log, command, step, name, pid>>
        /\ unsettled' = unsettled \cup {n} /\ Remove(n)
    BY <1>4 DEF ForegroundReturns, processVars, shellVars
  <2>2. \A p \in Pids : Live(p)' => Live(p) /\ tunnel[p] \in Names \ {n}
    BY <2>1 DEF Live, IInv, Types, ProcTypes
  <2>3. \A p \in Pids : Live(p)' => pidfile'[tunnel[p]] = pidfile[tunnel[p]]
    BY <2>1, <2>2 DEF Remove, IInv, Types, FileTypes
  <2>4. \A d \in Shells : KnowsChild(d)' BY <2>1 DEF IInv, Knows, KnowsChild
  <2> QED BY <2>1, <2>2, <2>3, <2>4, NothingNew
<1>5. ASSUME UNCHANGED vars PROVE Alone' /\ Listed' /\ \A d \in Shells : Knows(d)'
  <2>1. UNCHANGED <<kind, tunnel, parent, signalled, pidfile, log, command, step, name, pid, unsettled>>
    BY <1>5 DEF vars, processVars, fileVars, shellVars
  <2>2. \A d \in Shells : KnowsChild(d)' BY <2>1 DEF IInv, Knows, KnowsChild
  <2> QED BY <2>1, <2>2, NothingNew DEF Live
<1>6. Alone' /\ Listed' /\ \A d \in Shells : Knows(d)'
  BY <1>2, <1>3, <1>4, <1>5, BeginKnows, TunnelKnows DEF Next
<1> QED BY <1>1, <1>6 DEF IInv

(* What a command knows of a settled name stays true until it acts on it,  *)
(* whatever other commands, processes and pids do meanwhile.               *)
THEOREM InductiveInvariant == Spec => []IInv
<1>1. Init => IInv BY InitTypes, InitKnows DEF IInv
<1>2. IInv /\ [Next]_vars => IInv' BY KnowsStep
<1> QED BY <1>1, <1>2, PTL DEF Spec

(* A settled name never gets two background tunnels. *)
THEOREM StartsOnce == Spec => []OneTunnelPerName
BY InductiveInvariant, Promises, PTL

(* `status` and `stop` find every running tunnel of a settled name. *)
THEOREM RunningIsListed == Spec => []ListedWhileRunning
BY InductiveInvariant, Promises, PTL

(* A start of a settled name never shows an earlier tunnel's line. *)
THEOREM ShownLineIsOwn == Spec => []LogIsOwn
BY InductiveInvariant, Promises, PTL

-----------------------------------------------------------------------------
(* What runs in a tunnel process: TunnelClient, any number of clients, any *)
(* names, and a server that may restart.                                   *)
CONSTANTS Clients, client_id, Sessions
VARIABLES owner, live, spent, stage, from, down, pc, conn, cancelled, calm
Client == INSTANCE TunnelClient

(* What TunnelClient assumes of its constants (ClientAssumption). *)
ClientPremise ==
  /\ client_id \in [Clients -> Names]
  /\ None \notin Sessions \cup Clients

(* The connection a client holds is the one it opened, also after others   *)
(* were hung up, forgotten by both ends and used again.                    *)
OwnConnection == \A p \in Clients : conn[p] # None => from[conn[p]] = p

(* A name leads to a connection of a client that asked for this name.      *)
OwnName == \A c \in Names : owner[c] # None => client_id[from[owner[c]]] = c

(* Of the clients that ask for one name, one at most is served.            *)
OneServed ==
  \A p, q \in Clients :
    Client!Served(p) /\ Client!Served(q) /\ client_id[p] = client_id[q] => p = q

(* What the lease does not do: both ends are done with a connection.       *)
PlaceFreed ==
  /\ \E s \in (spent \ live) \ Client!Lease!Owners : spent' = spent \ {s}
  /\ UNCHANGED <<owner, live>>

(* Types alone are not inductive: Forget frees the place of a spent        *)
(* handler, so none may hold a name, also not a second one when displaced. *)
Leased == Client!Lease!SpentHoldNothing /\ Client!Lease!OneNameEach
ClientInv == Client!TypeOK /\ Leased /\ OwnConnection /\ OwnName

LEMMA InitClient ==
  ASSUME ClientPremise, Client!Init
  PROVE  ClientInv
<1> USE DEF Client!Init, Client!Lease!LeaseInit
<1>1. Client!Lease!Owners = {} /\ Client!InUse = {}
  BY DEF Client!Lease!Owners, Client!InUse
<1>2. Leased
  BY <1>1 DEF Leased, Client!Lease!SpentHoldNothing, Client!Lease!OneNameEach
<1>3. OwnConnection /\ OwnName BY DEF OwnConnection, OwnName
<1>4. Client!TypeOK BY <1>1 DEF Client!TypeOK, Client!Lease!LeaseTypeOK
<1> QED BY <1>2, <1>3, <1>4 DEF ClientInv

(* The properties of the registry speak of the registry and of from.       *)
LEMMA RegistryStays ==
  ASSUME ClientInv, UNCHANGED Client!registryVars,
         \A s \in Client!Lease!Owners : from'[s] = from[s]
  PROVE  Leased' /\ OwnName'
BY DEF ClientInv, Leased, OwnName, Client!registryVars, Client!Lease!Owners,
       Client!Lease!SpentHoldNothing, Client!Lease!OneNameEach

(* Ending an attempt, for whatever reason, drops the connection.           *)
LEMMA HangUpStep ==
  ASSUME ClientPremise, ClientInv, NEW p \in Clients, NEW l \in {"asleep", "exited"},
         Client!GoTo(p, l), Client!HangUp(p),
         UNCHANGED Client!serverVars, UNCHANGED <<cancelled, calm>>
  PROVE  ClientInv'
<1> USE DEF Client!GoTo, Client!HangUp, Client!serverVars
<1>1. Leased' /\ OwnName' BY RegistryStays
<1>2. OwnConnection' BY DEF ClientInv, Client!TypeOK, OwnConnection
<1>3. Client!TypeOK'
  <2>1. conn' \in [Clients -> Client!InUse' \cup {None}]
    BY DEF ClientInv, Client!TypeOK, Client!InUse
  <2>2. down' \subseteq Client!InUse'
    BY DEF ClientInv, Client!TypeOK, Client!InUse
  <2>3. \A q \in Clients : conn'[q] # None <=> pc'[q] \in {"waiting", "serving"}
    BY DEF ClientInv, Client!TypeOK
  <2>4. pc' \in [Clients -> {"idle", "connecting", "waiting", "serving", "asleep", "exited"}]
    BY DEF ClientInv, Client!TypeOK
  <2> QED
    BY <2>1, <2>2, <2>3, <2>4
       DEF ClientInv, Client!TypeOK, Client!InUse, Client!registryVars,
           Client!Lease!LeaseTypeOK, Client!Lease!Owners
<1> QED BY <1>1, <1>2, <1>3 DEF ClientInv

(* A new connection gets a place that nothing refers to.                   *)
LEMMA ConnectStep ==
  ASSUME ClientPremise, ClientInv, NEW p \in Clients, Client!Connect(p)
  PROVE  ClientInv'
<1>1. PICK s \in Sessions \ Client!InUse :
        /\ stage' = [stage EXCEPT ![s] = "asked"]
        /\ from' = [from EXCEPT ![s] = p]
        /\ conn' = [conn EXCEPT ![p] = s]
  BY DEF Client!Connect
<1> USE <1>1 DEF Client!Connect, Client!GoTo
<1>2. Leased' /\ OwnName'
  <2>1. s \notin Client!Lease!Owners BY DEF ClientInv, Client!TypeOK
  <2>2. \A o \in Client!Lease!Owners : o \in Sessions
    BY DEF ClientInv, Client!TypeOK, Client!InUse
  <2> QED BY <2>1, <2>2, RegistryStays DEF ClientInv, Client!TypeOK
<1>3. OwnConnection'
  BY DEF ClientPremise, ClientInv, Client!TypeOK, Client!InUse, OwnConnection
<1>4. Client!TypeOK'
  <2>1. Client!InUse' = Client!InUse \cup {s}
    BY DEF ClientInv, Client!TypeOK, Client!InUse
  <2>2. stage' \in [Sessions -> {"free", "asked", "refused", "granted", "opened", "registered"}]
    BY DEF ClientInv, Client!TypeOK
  <2>3. from' \in [Sessions -> Clients \cup {None}]
        /\ \A i \in Sessions : i \in Client!InUse' <=> from'[i] # None
    BY <2>1 DEF ClientPremise, ClientInv, Client!TypeOK
  <2>4. conn' \in [Clients -> Client!InUse' \cup {None}]
    BY <2>1 DEF ClientInv, Client!TypeOK
  <2>5. pc' \in [Clients -> {"idle", "connecting", "waiting", "serving", "asleep", "exited"}]
        /\ \A q \in Clients : conn'[q] # None <=> pc'[q] \in {"waiting", "serving"}
    BY DEF ClientPremise, ClientInv, Client!TypeOK
  <2> QED
    BY <2>1, <2>2, <2>3, <2>4, <2>5
       DEF ClientInv, Client!TypeOK, Client!registryVars, Client!Lease!LeaseTypeOK,
           Client!Lease!Owners
<1> QED BY <1>2, <1>3, <1>4 DEF ClientInv

(* The other steps of a client move its program counter or the token only. *)
LEMMA QuietSteps ==
  ASSUME ClientPremise, ClientInv, NEW p \in Clients,
         Client!Attempt(p) \/ Client!Accepted(p) \/ Client!Wake(p) \/ Client!Interrupt(p)
  PROVE  ClientInv'
<1>1. UNCHANGED <<Client!serverVars, down, conn, calm>>
      /\ (pc' = pc \/ Client!Attempt(p) \/ Client!Accepted(p) \/ Client!Wake(p))
  BY DEF Client!Attempt, Client!Accepted, Client!Wake, Client!Interrupt
<1>2. Leased' /\ OwnName' BY <1>1, RegistryStays DEF Client!serverVars
<1>3. OwnConnection' BY <1>1 DEF ClientInv, OwnConnection, Client!serverVars
<1>4. Client!TypeOK'
  <2>1. pc' \in [Clients -> {"idle", "connecting", "waiting", "serving", "asleep", "exited"}]
        /\ cancelled' \in [Clients -> BOOLEAN]
    BY DEF ClientInv, Client!TypeOK, Client!Attempt, Client!Accepted, Client!Wake,
           Client!Interrupt, Client!GoTo
  <2>2. \A q \in Clients : conn'[q] # None <=> pc'[q] \in {"waiting", "serving"}
    BY <1>1 DEF ClientInv, Client!TypeOK, Client!Attempt, Client!Accepted, Client!Wake,
                Client!GoTo
  <2> QED
    BY <1>1, <2>1, <2>2
       DEF ClientInv, Client!TypeOK, Client!InUse, Client!serverVars, Client!registryVars,
           Client!Lease!LeaseTypeOK, Client!Lease!Owners
<1> QED BY <1>2, <1>3, <1>4 DEF ClientInv

(* A handler that asks, opens, gives up or ends, and a connection that is  *)
(* cut, leave every name where it is.                                      *)
LEMMA HandlerSteps ==
  ASSUME ClientPremise, ClientInv, NEW s \in Sessions,
         \/ Client!Answer(s) \/ Client!StartDriver(s) \/ Client!GiveUp(s)
         \/ Client!DriverEnds(s) \/ Client!Cut(s) \/ Client!Evict(s)
  PROVE  ClientInv'
<1> USE DEF Client!Answer, Client!StartDriver, Client!GiveUp, Client!DriverEnds, Client!Cut,
            Client!Evict, Client!EndDriver, Client!Stage, Client!Lease!Open,
            Client!Lease!Close, Client!Lease!Discard, Client!serverVars,
            Client!registryVars, Client!clientVars
<1>1. UNCHANGED <<owner, from, conn, pc, cancelled, calm>> OBVIOUS
<1>2. OwnConnection' /\ OwnName' BY <1>1 DEF ClientInv, OwnConnection, OwnName
<1>3. Leased'
  BY DEF ClientInv, Leased, Client!Lease!SpentHoldNothing, Client!Lease!OneNameEach,
         Client!Lease!Owners
<1>4. Client!TypeOK'
  BY <1>1 DEF ClientInv, Client!TypeOK, Client!InUse, Client!Lease!LeaseTypeOK,
              Client!Lease!Owners
<1> QED BY <1>2, <1>3, <1>4 DEF ClientInv

(* The last claim wins, whoever asked for it.                              *)
LEMMA RegisterStep ==
  ASSUME ClientPremise, ClientInv, NEW s \in Sessions, Client!Register(s)
  PROVE  ClientInv'
<1> USE DEF Client!Register, Client!Stage, Client!Lease!Claim, Client!clientVars
<1> DEFINE c == client_id[from[s]]
<1>1. s # None /\ s \in Client!InUse /\ from[s] \in Clients /\ c \in Names
  BY DEF ClientPremise, ClientInv, Client!TypeOK, Client!InUse
<1>2. /\ owner' = [owner EXCEPT ![c] = s] /\ owner \in [Names -> Sessions \cup {None}]
      /\ s \notin spent \cup Client!Lease!Owners
      /\ spent' = spent \cup ({owner[c]} \ {None})
  BY DEF ClientInv, Client!TypeOK, Client!Lease!LeaseTypeOK
<1>3. UNCHANGED <<from, conn>> OBVIOUS
<1> HIDE DEF c
<1>4. OwnConnection' BY <1>3 DEF ClientInv, OwnConnection
<1>5. OwnName' BY <1>1, <1>2, <1>3 DEF ClientInv, OwnName, c
<1>6. Leased'
  BY <1>1, <1>2 DEF ClientInv, Leased, Client!Lease!SpentHoldNothing, Client!Lease!OneNameEach,
                    Client!Lease!Owners
<1>7. Client!TypeOK'
  BY <1>1, <1>2 DEF ClientInv, Client!TypeOK, Client!InUse, Client!Lease!LeaseTypeOK,
                    Client!Lease!Owners
<1> QED BY <1>4, <1>5, <1>6, <1>7 DEF ClientInv

(* Only the name the handler still holds falls free.                       *)
LEMMA UnregisterStep ==
  ASSUME ClientPremise, ClientInv, NEW s \in Sessions, Client!Unregister(s)
  PROVE  ClientInv'
<1>1. PICK c \in Names : owner[c] = s /\ Client!Lease!Release(c)
  BY DEF Client!Unregister
<1>2. /\ owner' = [owner EXCEPT ![c] = None] /\ spent' = spent \cup {s} /\ s # None
      /\ UNCHANGED <<live, stage, from, down, Client!clientVars, calm>>
  BY <1>1 DEF Client!Unregister, Client!Lease!Release
<1>3. owner \in [Names -> Sessions \cup {None}]
  BY DEF ClientInv, Client!TypeOK, Client!Lease!LeaseTypeOK
<1>4. OwnConnection' BY <1>2 DEF ClientInv, OwnConnection, Client!clientVars
<1>5. OwnName' BY <1>2, <1>3 DEF ClientInv, OwnName
<1>6. Leased'
  BY <1>1, <1>2, <1>3 DEF ClientInv, Leased, Client!Lease!SpentHoldNothing,
                          Client!Lease!OneNameEach, Client!Lease!Owners
<1>7. Client!TypeOK'
  <2>1. Client!Lease!Owners' \subseteq Client!Lease!Owners /\ s \in Client!Lease!Owners
    BY <1>1, <1>2, <1>3 DEF Client!Lease!Owners
  <2>2. Client!Lease!LeaseTypeOK'
    BY <1>2, <1>3 DEF ClientInv, Client!TypeOK, Client!Lease!LeaseTypeOK
  <2> QED
    BY <1>2, <2>1, <2>2 DEF ClientInv, Client!TypeOK, Client!InUse, Client!clientVars
<1> QED BY <1>4, <1>5, <1>6, <1>7 DEF ClientInv

(* A place is free again once nothing refers to it: not the registry, for  *)
(* a spent handler holds no name, and no client.                           *)
LEMMA ForgetStep ==
  ASSUME ClientPremise, ClientInv, NEW s \in Sessions, Client!Forget(s)
  PROVE  ClientInv'
<1> USE DEF Client!Forget, Client!Stage, Client!clientVars
<1>1. s \notin Client!Lease!Owners
  BY DEF ClientInv, Leased, Client!Lease!SpentHoldNothing
<1>2. OwnConnection' BY DEF ClientInv, OwnConnection, Client!TypeOK, Client!InUse
<1>3. OwnName'
  BY <1>1 DEF ClientInv, OwnName, Client!TypeOK, Client!InUse, Client!Lease!Owners
<1>4. Leased'
  BY DEF ClientInv, Leased, Client!Lease!SpentHoldNothing, Client!Lease!OneNameEach,
         Client!Lease!Owners
<1>5. Client!TypeOK'
  BY <1>1 DEF ClientInv, Client!TypeOK, Client!InUse, Client!Lease!LeaseTypeOK,
              Client!Lease!Owners
<1> QED BY <1>2, <1>3, <1>4, <1>5 DEF ClientInv

(* A restart empties the registry and ends every connection.               *)
LEMMA RestartStep ==
  ASSUME ClientPremise, ClientInv, Client!Restart
  PROVE  ClientInv'
<1> USE DEF Client!Restart, Client!Lease!Reset, Client!clientVars
<1>1. Client!Lease!Owners' = {} BY DEF Client!Lease!Owners
<1>2. Leased'
  BY <1>1 DEF Leased, Client!Lease!SpentHoldNothing, Client!Lease!OneNameEach
<1>3. OwnConnection' /\ OwnName' BY DEF ClientInv, OwnConnection, OwnName
<1>4. Client!TypeOK'
  BY <1>1 DEF ClientInv, Client!TypeOK, Client!InUse, Client!Lease!LeaseTypeOK
<1> QED BY <1>2, <1>3, <1>4 DEF ClientInv

LEMMA NothingMoves ==
  ASSUME ClientInv,
         UNCHANGED <<Client!serverVars, down, Client!clientVars>>, calm' \in BOOLEAN
  PROVE  ClientInv'
BY DEF ClientInv, Leased, OwnConnection, OwnName, Client!serverVars, Client!registryVars,
       Client!clientVars, Client!TypeOK, Client!InUse, Client!Lease!LeaseTypeOK,
       Client!Lease!Owners, Client!Lease!SpentHoldNothing, Client!Lease!OneNameEach

LEMMA NextClient ==
  ASSUME ClientPremise, ClientInv, [Client!Next]_(Client!vars)
  PROVE  ClientInv'
<1>1. ASSUME NEW p \in Clients,
             Client!Run(p) \/ Client!ConnectFails(p) \/ Client!Interrupt(p) \/ Client!Terminate(p)
      PROVE  ClientInv'
  <2>1. CASE \/ Client!NotAccepted(p) \/ Client!ConnectFails(p) \/ Client!SessionEnds(p)
             \/ Client!Quit(p) \/ Client!Terminate(p)
    BY <2>1, HangUpStep DEF Client!NotAccepted, Client!ConnectFails, Client!SessionEnds,
                            Client!Quit, Client!Terminate, Client!Fail
  <2> QED BY <1>1, <2>1, ConnectStep, QuietSteps DEF Client!Run
<1>2. ASSUME NEW s \in Sessions, Client!Handle(s) \/ Client!Cut(s) \/ Client!Evict(s)
      PROVE  ClientInv'
  BY <1>2, HandlerSteps, RegisterStep, UnregisterStep, ForgetStep DEF Client!Handle
<1>3. CASE Client!CalmDown \/ UNCHANGED Client!vars
  BY <1>3, NothingMoves DEF Client!CalmDown, Client!vars, ClientInv, Client!TypeOK
<1> QED BY <1>1, <1>2, <1>3, RestartStep DEF Client!Next

(* Clients, connections and registry keep their types; nothing refers to a *)
(* connection that both ends have forgotten, though its place is used      *)
(* again, and though the server restarts.                                  *)
THEOREM ClientTypeCorrect ==
  ASSUME ClientPremise
  PROVE  Client!Spec => []Client!TypeOK
<1>1. Client!Init => ClientInv BY InitClient
<1>2. ClientInv /\ [Client!Next]_(Client!vars) => ClientInv' BY NextClient
<1>3. ClientInv => Client!TypeOK BY DEF ClientInv
<1> QED BY <1>1, <1>2, <1>3, PTL DEF Client!Spec

(* The registry leads a public name only to a connection whose client      *)
(* asked for that name, and of two clients of one name one at most is      *)
(* served: a takeover leaves no moment with two.                           *)
THEOREM ServedOverItsOwnConnection ==
  ASSUME ClientPremise
  PROVE  Client!Spec => [](OwnName /\ OneServed)
<1>1. ClientInv => OwnName /\ OneServed
  BY DEF ClientInv, OwnConnection, OwnName, OneServed, Client!Served, Client!TypeOK
<1>2. Client!Init => ClientInv BY InitClient
<1>3. ClientInv /\ [Client!Next]_(Client!vars) => ClientInv' BY NextClient
<1> QED BY <1>1, <1>2, <1>3, PTL DEF Client!Spec

LEMMA RegistrySteps ==
  ASSUME ClientPremise, ClientInv, [Client!Next]_(Client!vars)
  PROVE  Client!Lease!LeaseNext \/ PlaceFreed \/ UNCHANGED Client!registryVars
<1>1. ASSUME NEW p \in Clients,
             Client!Run(p) \/ Client!ConnectFails(p) \/ Client!Interrupt(p) \/ Client!Terminate(p)
      PROVE  UNCHANGED Client!registryVars
  BY <1>1 DEF Client!Run, Client!Attempt, Client!Connect, Client!Accepted, Client!NotAccepted,
              Client!SessionEnds, Client!Wake, Client!Quit, Client!ConnectFails,
              Client!Interrupt, Client!Terminate, Client!Fail, Client!serverVars
<1>2. ASSUME NEW s \in Sessions, Client!Handle(s) \/ Client!Cut(s) \/ Client!Evict(s)
      PROVE  Client!Lease!LeaseNext \/ PlaceFreed \/ UNCHANGED Client!registryVars
  <2>1. CASE \/ Client!Answer(s) \/ Client!StartDriver(s) \/ Client!GiveUp(s)
             \/ Client!DriverEnds(s) \/ Client!Cut(s) \/ Client!Evict(s)
    BY <2>1 DEF Client!Answer, Client!StartDriver, Client!GiveUp, Client!DriverEnds, Client!Cut,
                Client!Evict, Client!EndDriver, Client!serverVars, Client!Lease!LeaseNext
  <2>2. CASE Client!Register(s)
    <3>1. client_id[from[s]] \in Names
      BY <2>2 DEF ClientPremise, ClientInv, Client!TypeOK, Client!InUse, Client!Register
    <3> QED BY <2>2, <3>1 DEF Client!Register, Client!Lease!LeaseNext
  <2>3. CASE Client!Unregister(s)
    BY <2>3 DEF Client!Unregister, Client!Lease!LeaseNext
  <2>4. CASE Client!Forget(s)
    BY <2>4 DEF Client!Forget, PlaceFreed, ClientInv, Leased, Client!Lease!SpentHoldNothing
  <2> QED BY <1>2, <2>1, <2>2, <2>3, <2>4 DEF Client!Handle
<1>3. CASE Client!Restart
  <2>1. Client!Lease!Reset BY <1>3 DEF Client!Restart
  <2> QED BY <2>1 DEF Client!Lease!LeaseNext
<1>4. CASE Client!CalmDown \/ UNCHANGED Client!vars
  BY <1>4 DEF Client!CalmDown, Client!vars, Client!serverVars
<1> QED BY <1>1, <1>2, <1>3, <1>4 DEF Client!Next

(* The server that clients meet is the one whose promises ControlPlane     *)
(* keeps: it steps as NameLease does, and besides only forgets a handler   *)
(* that holds no name, to use its place again.                             *)
THEOREM ServerIsNameLease ==
  ASSUME ClientPremise
  PROVE  Client!Spec => Client!Lease!LeaseInit
                        /\ [][Client!Lease!LeaseNext \/ PlaceFreed]_(Client!registryVars)
<1>1. Client!Init => ClientInv /\ Client!Lease!LeaseInit BY InitClient DEF Client!Init
<1>2. ClientInv /\ [Client!Next]_(Client!vars) => ClientInv' BY NextClient
<1>3. ClientInv /\ [Client!Next]_(Client!vars)
        => [Client!Lease!LeaseNext \/ PlaceFreed]_(Client!registryVars)
  BY RegistrySteps
<1> QED BY <1>1, <1>2, <1>3, PTL DEF Client!Spec
=============================================================================
