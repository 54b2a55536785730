------------------------------ MODULE Monitor ------------------------------
(***************************************************************************)
(* The scripts that keep the service alive: cron runs monitor.sh, which    *)
(* looks for the processes in the pid file and for error logs, and calls   *)
(* startup.sh restart; an operator may call startup.sh as well.  Nothing   *)
(* keeps them from running at the same time.                               *)
(*                                                                         *)
(* A process is known by its pid.  A process that cannot bind the port     *)
(* goes on without a web server ("deaf"); one that starts before there is  *)
(* an index file serves an empty index until it polls again ("empty").     *)
(***************************************************************************)
EXTENDS Naturals, FiniteSets

CONSTANTS Pids,       \* the numbers that processes get
          Scripts,    \* scripts that may run at the same time
          Confusable, \* numbers that may stand in the ps lines of other processes at first
          MaxFaults,  \* bound: failures of the service, reboots of the machine
          MaxCommands,\* bound: commands of the operator
          MaxOverlaps \* bound: scripts that begin before what went before is done

ASSUME MonitorAssumption == MaxFaults \in Nat /\ MaxCommands \in Nat /\ MaxOverlaps \in Nat

VARIABLES
  proc,       \* "none", "starting", "serving", "empty" or "deaf", by pid
  file,       \* the pids in the pid file; no file is as good as an empty one
  echoes,     \* pids that a background echo is about to append to the file
  script,     \* by script: what it does (pc, command), the pids left to look at, and
              \* whether one of those looked at was not found
  error_log,  \* there is an error log
  watched,    \* error logs are where monitor.sh looks for them
  index,      \* there is an index file
  alike,      \* pids that stand in the ps line of some other process of that name
  faults, commands, overlaps,
  late        \* what a reader of this model wants to know, by script: the pids that
              \* came into the file since the script read it to kill

services == <<proc, index>>
events   == <<faults, commands, overlaps>>
outside  == <<watched, alike, events>>
vars     == <<services, file, echoes, script, error_log, outside, late>>

Asleep == [pc |-> "idle", command |-> "monitor", list |-> {}, lost |-> FALSE]

Init == /\ proc = [p \in Pids |-> "none"] /\ file = {} /\ echoes = {}
        /\ script = [s \in Scripts |-> Asleep]
        /\ error_log = FALSE /\ watched \in BOOLEAN /\ index \in BOOLEAN
        /\ alike \in SUBSET Confusable
        /\ faults = 0 /\ commands = 0 /\ overlaps = 0
        /\ late = [s \in Scripts |-> {}]

Alive(p) == proc[p] # "none"

\* ps | grep PID | grep service: the number may stand anywhere in the line.
Found(p) == Alive(p) \/ p \in alike

\* cron and the operator may call a script at any time, also while another one runs or
\* the echo of the last one is not done.
Begin == overlaps' = IF echoes = {} /\ \A s \in Scripts : script[s].pc = "idle"
                     THEN overlaps ELSE overlaps + 1

Go(s, pc) == script' = [script EXCEPT ![s].pc = pc]

-----------------------------------------------------------------------------
(* monitor.sh                                                              *)

\* It is in the file that processes are looked for, if there is one.
Cron(s) == /\ script[s].pc = "idle" /\ Begin /\ overlaps' <= MaxOverlaps
           /\ script' = [script EXCEPT ![s] =
                [Asleep EXCEPT !.pc = IF file = {} THEN "error" ELSE "cat", !.lost = file = {}]]
           /\ UNCHANGED <<services, file, echoes, error_log, watched, alike, faults, commands, late>>

\* cat, of _status and of _stop: the file is read once, and may be gone by now.
Cat(s) == /\ script[s].pc = "cat"
          /\ script' = [script EXCEPT
               ![s].list = file,
               ![s].pc = IF script[s].command = "monitor" THEN "status" ELSE "kill"]
          /\ UNCHANGED <<services, file, echoes, error_log, outside, late>>

\* Mutant of Status: one process that is found is enough.
StatusAny(s) == /\ script[s].pc = "status"
                /\ IF script[s].list = {} THEN Go(s, "error")
                   ELSE \E p \in script[s].list :
                          script' = [script EXCEPT ![s].list = IF Found(p) THEN {} ELSE @ \ {p},
                                                   ![s].lost = ~Found(p)]
                /\ UNCHANGED <<services, file, echoes, error_log, outside, late>>

\* _status: every pid of the file must be found.
Status(s) == /\ script[s].pc = "status"
             /\ IF script[s].list = {} THEN Go(s, "error")
                ELSE \E p \in script[s].list :
                       script' = [script EXCEPT ![s].list = @ \ {p},
                                                ![s].lost = @ \/ ~Found(p)]
             /\ UNCHANGED <<services, file, echoes, error_log, outside, late>>

\* _error mails and removes the logs that it finds; then main decides.
Error(s) == /\ script[s].pc = "error"
            /\ error_log' = (error_log /\ ~watched)
            /\ IF script[s].lost \/ (error_log /\ watched)
               THEN script' = [script EXCEPT ![s] = [Asleep EXCEPT !.pc = "stop",
                                                                   !.command = "restart"]]
               ELSE script' = [script EXCEPT ![s] = Asleep]
            /\ UNCHANGED <<services, file, echoes, outside, late>>

-----------------------------------------------------------------------------
(* startup.sh                                                              *)

Command(s, command) == /\ script[s].pc = "idle" /\ Begin /\ overlaps' <= MaxOverlaps
                       /\ commands < MaxCommands
                       /\ commands' = commands + 1
                       /\ script' = [script EXCEPT ![s] =
                            [Asleep EXCEPT !.pc = IF command = "start" THEN "start" ELSE "stop",
                                           !.command = command]]
                       /\ UNCHANGED <<services, file, echoes, error_log, watched, alike, faults,
                                      late>>

\* After _stop.
Stopped(s) == IF script[s].command = "restart" THEN Go(s, "start")
              ELSE script' = [script EXCEPT ![s] = Asleep]

\* _stop does nothing if there is no file.
Stop(s) == /\ script[s].pc = "stop"
           /\ IF file = {} THEN Stopped(s) ELSE Go(s, "cat")
           /\ UNCHANGED <<services, file, echoes, error_log, outside, late>>

\* Each process that is found is killed, each in its turn.
Kill(s) == /\ script[s].pc = "kill"
           /\ \E p \in script[s].list :
                /\ proc' = IF Found(p) THEN [proc EXCEPT ![p] = "none"] ELSE proc
                /\ script' = [script EXCEPT ![s].list = @ \ {p}]
           /\ UNCHANGED <<index, file, echoes, error_log, outside, late>>

\* The file is removed with whatever is in it by now.
Remove(s) == /\ script[s].pc = "kill" /\ script[s].list = {}
             /\ file' = {}
             /\ Stopped(s)
             /\ late' = [late EXCEPT ![s] = {}]
             /\ UNCHANGED <<services, echoes, error_log, outside>>

\* _start: the process and the echo of its pid run in the background.
Start(s) == /\ script[s].pc = "start"
            /\ \E p \in Pids : /\ ~Alive(p) /\ p \notin file \cup echoes
                               /\ \A t \in Scripts : p \notin script[t].list
                               /\ proc' = [proc EXCEPT ![p] = "starting"]
                               /\ echoes' = echoes \cup {p}
            /\ script' = [script EXCEPT ![s] = Asleep]
            /\ UNCHANGED <<index, file, error_log, outside, late>>

\* Mutant of Echo: > for >>.
EchoOver(p) == /\ p \in echoes
               /\ echoes' = echoes \ {p} /\ file' = {p}
               /\ late' = [s \in Scripts |-> IF script[s].pc = "kill" THEN late[s] \cup {p} ELSE {}]
               /\ UNCHANGED <<services, script, error_log, outside>>

Echo(p) == /\ p \in echoes
           /\ echoes' = echoes \ {p} /\ file' = file \cup {p}
           /\ late' = [s \in Scripts |-> IF script[s].pc = "kill" THEN late[s] \cup {p} ELSE {}]
           /\ UNCHANGED <<services, script, error_log, outside>>

-----------------------------------------------------------------------------
(* The service                                                             *)

Port == {p \in Pids : proc[p] \in {"serving", "empty"}}

\* Mutant of Listen: the port is taken away from whoever has it.
ListenShared(p) == /\ proc[p] = "starting"
                   /\ proc' = [proc EXCEPT ![p] = IF index THEN "serving" ELSE "empty"]
                   /\ UNCHANGED <<index, file, echoes, script, error_log, outside, late>>

\* main loads the files, an index that is missing counts as loaded, and mg_start binds
\* the port or returns NULL, which nobody looks at.
Listen(p) == /\ proc[p] = "starting"
             /\ proc' = [proc EXCEPT ![p] = IF Port # {} THEN "deaf"
                                            ELSE IF index THEN "serving" ELSE "empty"]
             /\ UNCHANGED <<index, file, echoes, script, error_log, outside, late>>

\* The loop of main finds the index file.
Poll(p) == /\ proc[p] = "empty" /\ index
           /\ proc' = [proc EXCEPT ![p] = "serving"]
           /\ UNCHANGED <<index, file, echoes, script, error_log, outside, late>>

\* A query finds no merge bitmap.
Post(p) == /\ proc[p] = "empty"
           /\ proc' = [proc EXCEPT ![p] = "none"] /\ error_log' = TRUE
           /\ UNCHANGED <<index, file, echoes, script, outside, late>>

\* A file that does not load, and other reasons to exit.
Fail(p) == /\ Alive(p) /\ faults < MaxFaults
           /\ faults' = faults + 1
           /\ proc' = [proc EXCEPT ![p] = "none"] /\ error_log' = TRUE
           /\ UNCHANGED <<index, file, echoes, script, watched, alike, commands, overlaps, late>>

-----------------------------------------------------------------------------
(* The machine                                                             *)

\* All processes are gone, the scripts too, and the files stay.
Reboot == /\ faults < MaxFaults /\ faults' = faults + 1
          /\ proc' = [p \in Pids |-> "none"] /\ echoes' = {}
          /\ script' = [s \in Scripts |-> Asleep]
          /\ late' = [s \in Scripts |-> {}]
          /\ UNCHANGED <<index, file, error_log, watched, alike, commands, overlaps>>

Build == /\ ~index /\ index' = TRUE
         /\ UNCHANGED <<proc, file, echoes, script, error_log, outside, late>>

OthersEnd == /\ alike # {} /\ alike' = {}
             /\ UNCHANGED <<services, file, echoes, script, error_log, watched, events, late>>

Step(s) == Cat(s) \/ Status(s) \/ Error(s) \/ Stop(s) \/ Kill(s) \/ Remove(s) \/ Start(s)

Next == \/ \E s \in Scripts :
             \/ Cron(s) \/ Step(s)
             \/ \E command \in {"start", "stop", "restart"} : Command(s, command)
        \/ \E p \in Pids : Echo(p) \/ Listen(p) \/ Poll(p) \/ Post(p) \/ Fail(p)
        \/ Reboot \/ Build \/ OthersEnd

\* Cron keeps running, scripts and processes get on, the index is built some day, and no
\* other process has a pid of the file in its line for ever.
Fairness == /\ \A s \in Scripts : WF_vars(Cron(s)) /\ WF_vars(Step(s))
            /\ \A p \in Pids : WF_vars(Echo(p)) /\ WF_vars(Listen(p)) /\ WF_vars(Poll(p))
            /\ WF_vars(Build) /\ WF_vars(OthersEnd)

Spec == Init /\ [][Next]_vars /\ Fairness

-----------------------------------------------------------------------------
(* Properties                                                              *)

\* Every variable has the type it has in the code; only processes that were started are
\* listed, and one process has the port.
TypeOK ==
  /\ proc \in [Pids -> {"none", "starting", "serving", "empty", "deaf"}]
  /\ file \subseteq Pids /\ echoes \subseteq Pids /\ file \cap echoes = {}
  /\ \A s \in Scripts :
       /\ script[s].pc \in {"idle", "cat", "status", "error", "stop", "kill", "start"}
       /\ script[s].list \subseteq Pids /\ late[s] \subseteq Pids
  /\ Cardinality(Port) <= 1
  /\ faults \in 0..MaxFaults /\ commands \in 0..MaxCommands /\ overlaps \in 0..MaxOverlaps

Listed(p) == p \in file \cup echoes

\* monitor.sh and startup.sh, called by cron and by an operator at any time, know a process
\* from its start on by the pid file or an echo that is on its way there.  One that lives
\* can drop out of both in one way only: a script removes the file (startup.sh:30) into
\* which its pid came after that script had read it (line 22).
OnlyLateOnesEscape ==
  [][\A p \in Pids : Listed(p) /\ Alive(p) /\ Alive(p)' /\ ~Listed(p)' =>
       \E s \in Scripts : script[s].pc = "kill" /\ p \in late[s]]_vars

\* Whatever failed and whoever gave commands, if no script begins before another one and
\* its echo are done: in the end there is a process that has the port and an index, although
\* a process without the port looks as alive as one with it.
ServiceComesBack == [](overlaps = 0) => <>[](\E p \in Pids : proc[p] = "serving")
=============================================================================
