--------------------------- MODULE MonitorProofs ---------------------------
(***************************************************************************)
(* Theorems about Monitor: for any number of scripts at the same time,     *)
(* processes, failures and commands.                                       *)
(***************************************************************************)
EXTENDS Monitor, FiniteSetTheorems, TLAPS

States == {"none", "starting", "serving", "empty", "deaf"}

ScriptStates ==
  [pc : {"idle", "cat", "status", "error", "stop", "kill", "start"},
   command : {"monitor", "start", "stop", "restart"},
   list : SUBSET Pids, lost : BOOLEAN]

-----------------------------------------------------------------------------
(* Types *)

TypesInv ==
  /\ proc \in [Pids -> States]
  /\ file \in SUBSET Pids /\ echoes \in SUBSET Pids
  /\ script \in [Scripts -> ScriptStates]
  /\ faults \in 0..MaxFaults /\ commands \in 0..MaxCommands /\ overlaps \in 0..MaxOverlaps
  /\ late \in [Scripts -> SUBSET Pids]

\* Nobody is listed who is still to be listed.
ListedOnce == file \cap echoes = {}

\* The port belongs to one process.
OnePort == \A p, q \in Port : p = q

TypesAreInv == TypesInv /\ ListedOnce /\ OnePort

LEMMA ScriptGoes ==
  ASSUME TypesInv, NEW s \in Scripts,
         NEW at \in {"idle", "cat", "status", "error", "stop", "kill", "start"},
         NEW list \in SUBSET Pids, NEW lost \in BOOLEAN
  PROVE  /\ [script EXCEPT ![s].pc = at] \in [Scripts -> ScriptStates]
         /\ [script EXCEPT ![s].list = list] \in [Scripts -> ScriptStates]
         /\ [script EXCEPT ![s].pc = at, ![s].list = list] \in [Scripts -> ScriptStates]
         /\ [script EXCEPT ![s].list = list, ![s].lost = lost] \in [Scripts -> ScriptStates]
<1>1. script \in [Scripts -> ScriptStates]
  BY DEF TypesInv
<1>2. ASSUME NEW any \in [Scripts -> ScriptStates]
      PROVE  /\ [any EXCEPT ![s].pc = at] \in [Scripts -> ScriptStates]
             /\ [any EXCEPT ![s].list = list] \in [Scripts -> ScriptStates]
             /\ [any EXCEPT ![s].lost = lost] \in [Scripts -> ScriptStates]
  <2>1. any[s] \in ScriptStates
    BY <1>2
  <2>2. /\ [any[s] EXCEPT !.pc = at] \in ScriptStates
        /\ [any[s] EXCEPT !.list = list] \in ScriptStates
        /\ [any[s] EXCEPT !.lost = lost] \in ScriptStates
    BY <2>1 DEF ScriptStates
  <2> QED BY <1>2, <2>2
<1>3. [script EXCEPT ![s].pc = at] \in [Scripts -> ScriptStates]
  BY <1>1, <1>2
<1>4. [script EXCEPT ![s].list = list] \in [Scripts -> ScriptStates]
  BY <1>1, <1>2
<1>5. [[script EXCEPT ![s].pc = at] EXCEPT ![s].list = list] \in [Scripts -> ScriptStates]
  BY <1>2, <1>3
<1>6. [[script EXCEPT ![s].list = list] EXCEPT ![s].lost = lost] \in [Scripts -> ScriptStates]
  BY <1>2, <1>4
<1> QED BY <1>3, <1>4, <1>5, <1>6

LEMMA MonitorTypesInit == Init => TypesAreInv
<1> SUFFICES ASSUME Init PROVE TypesAreInv
  OBVIOUS
<1>1. Asleep \in ScriptStates
  BY DEF Asleep, ScriptStates
<1>2. faults \in 0..MaxFaults /\ commands \in 0..MaxCommands /\ overlaps \in 0..MaxOverlaps
  BY MonitorAssumption DEF Init
<1> QED BY <1>1, <1>2 DEF Init, TypesAreInv, TypesInv, States, ListedOnce, OnePort, Port

\* What a script does keeps its own record, and touches at most one process.
LEMMA ScriptTypes ==
  ASSUME TypesInv, NEW s \in Scripts, NEW command \in {"start", "stop", "restart"},
         Cron(s) \/ Step(s) \/ Command(s, command)
  PROVE  script' \in [Scripts -> ScriptStates]
<1> USE DEF Go
<1>1. /\ script \in [Scripts -> ScriptStates] /\ file \in SUBSET Pids
      /\ script[s].list \in SUBSET Pids /\ script[s].lost \in BOOLEAN
  BY DEF TypesInv, ScriptStates
<1>2. /\ Asleep \in ScriptStates
      /\ [Asleep EXCEPT !.pc = "stop", !.command = "restart"] \in ScriptStates
      /\ [Asleep EXCEPT !.pc = "stop", !.command = command] \in ScriptStates
      /\ [Asleep EXCEPT !.pc = "start", !.command = command] \in ScriptStates
      /\ [Asleep EXCEPT !.pc = IF file = {} THEN "error" ELSE "cat", !.lost = file = {}]
           \in ScriptStates
  BY <1>1 DEF Asleep, ScriptStates
<1>3. CASE Cron(s)
  BY <1>1, <1>2, <1>3 DEF Cron
<1>4. CASE Command(s, command)
  BY <1>1, <1>2, <1>4 DEF Command
<1>5. CASE Status(s)
  <2>1. CASE script[s].list = {}
    <3>1. script' = [script EXCEPT ![s].pc = "error"]
      BY <1>5, <2>1 DEF Status
    <3> QED BY <1>1, <3>1, ScriptGoes
  <2>2. CASE script[s].list # {}
    <3>1. PICK p \in script[s].list :
            script' = [script EXCEPT ![s].list = script[s].list \ {p},
                                     ![s].lost = script[s].lost \/ ~Found(p)]
      BY <1>1, <1>5, <2>2 DEF Status
    <3>2. /\ script[s].list \ {p} \in SUBSET Pids
          /\ (script[s].lost \/ ~Found(p)) \in BOOLEAN
      BY <1>1
    <3> QED BY <3>1, <3>2, ScriptGoes
  <2> QED BY <2>1, <2>2
<1>6. CASE Error(s)
  BY <1>1, <1>2, <1>6 DEF Error
<1>11. CASE Cat(s)
  <2>1. PICK at \in {"status", "kill"} :
          script' = [script EXCEPT ![s].list = file, ![s].pc = at]
    BY <1>11 DEF Cat
  <2>2. [script EXCEPT ![s].list = file, ![s].pc = at] =
          [script EXCEPT ![s].pc = at, ![s].list = file]
    BY <1>1 DEF ScriptStates
  <2>3. at \in {"idle", "cat", "status", "error", "stop", "kill", "start"}
    OBVIOUS
  <2>4. [script EXCEPT ![s].pc = at, ![s].list = file] \in [Scripts -> ScriptStates]
    BY <1>1, <2>3, ScriptGoes
  <2> QED BY <2>1, <2>2, <2>4
<1>12. ASSUME Stopped(s) PROVE script' \in [Scripts -> ScriptStates]
  <2>1. \/ script' = [script EXCEPT ![s].pc = "start"]
        \/ script' = [script EXCEPT ![s] = Asleep]
    BY <1>12 DEF Stopped
  <2>2. [script EXCEPT ![s].pc = "start"] \in [Scripts -> ScriptStates]
    BY <1>1, ScriptGoes
  <2> QED BY <1>1, <1>2, <2>1, <2>2
<1>7. CASE Stop(s)
  <2>1. [script EXCEPT ![s].pc = "cat"] \in [Scripts -> ScriptStates]
    BY <1>1, ScriptGoes
  <2> QED BY <1>7, <1>12, <2>1 DEF Stop
<1>8. CASE Kill(s)
  <2>1. PICK p \in script[s].list : script' = [script EXCEPT ![s].list = script[s].list \ {p}]
    BY <1>1, <1>8 DEF Kill
  <2>2. script[s].list \ {p} \in SUBSET Pids
    BY <1>1
  <2> QED BY <2>1, <2>2, ScriptGoes
<1>9. CASE Remove(s)
  BY <1>9, <1>12 DEF Remove
<1>10. CASE Start(s)
  BY <1>1, <1>2, <1>10 DEF Start
<1> QED BY <1>3, <1>4, <1>5, <1>6, <1>7, <1>8, <1>9, <1>10, <1>11 DEF Step

\* What a step may do to the processes, to the pid file and to the echoes.
LEMMA ProcSteps ==
  ASSUME [Next]_vars
  PROVE  \/ UNCHANGED proc
         \/ \E p : proc' = [proc EXCEPT ![p] = "none"]
         \/ proc' = [p \in Pids |-> "none"] /\ echoes' = {} /\ UNCHANGED file
         \/ \E s \in Scripts : Start(s)
         \/ \E p \in Pids : Listen(p) \/ Poll(p)
<1>1. CASE \E s \in Scripts : Kill(s)
  BY <1>1 DEF Kill
<1>2. CASE \E s \in Scripts : Step(s) /\ ~Kill(s)
  BY <1>2 DEF Step, Cat, Status, Error, Stop, Remove, services
<1>3. CASE \E s \in Scripts : \/ Cron(s)
                              \/ \E command \in {"start", "stop", "restart"} : Command(s, command)
  BY <1>3 DEF Cron, Command, services
<1>4. CASE \E p \in Pids : Echo(p) \/ Listen(p) \/ Poll(p) \/ Post(p) \/ Fail(p)
  BY <1>4 DEF Echo, Post, Fail, services
<1>5. CASE Reboot \/ Build \/ OthersEnd \/ UNCHANGED vars
  BY <1>5 DEF Reboot, Build, OthersEnd, vars, services
<1> QED BY <1>1, <1>2, <1>3, <1>4, <1>5 DEF Next

LEMMA FileSteps ==
  ASSUME [Next]_vars
  PROVE  \/ UNCHANGED <<file, echoes>>
         \/ \E s \in Scripts : Remove(s) /\ file' = {} /\ UNCHANGED echoes
         \/ \E s \in Scripts : Start(s) /\ UNCHANGED file
         \/ \E p \in Pids : Echo(p)
         \/ proc' = [p \in Pids |-> "none"] /\ echoes' = {} /\ UNCHANGED file
<1>1. CASE \E s \in Scripts : Step(s)
  BY <1>1 DEF Step, Cat, Status, Error, Stop, Kill, Remove, Start
<1>2. CASE \E s \in Scripts : \/ Cron(s)
                              \/ \E command \in {"start", "stop", "restart"} : Command(s, command)
  BY <1>2 DEF Cron, Command
<1>3. CASE \E p \in Pids : Echo(p) \/ Listen(p) \/ Poll(p) \/ Post(p) \/ Fail(p)
  BY <1>3 DEF Listen, Poll, Post, Fail
<1>4. CASE Reboot \/ Build \/ OthersEnd \/ UNCHANGED vars
  BY <1>4 DEF Reboot, Build, OthersEnd, vars
<1> QED BY <1>1, <1>2, <1>3, <1>4 DEF Next

\* And to the pids that came into the file too late.
LEMMA LateSteps ==
  ASSUME [Next]_vars
  PROVE  \/ UNCHANGED late
         \/ \E s \in Scripts : Remove(s)
         \/ \E p \in Pids : Echo(p)
         \/ late' = [s \in Scripts |-> {}]
<1>1. CASE \E s \in Scripts : Step(s)
  BY <1>1 DEF Step, Cat, Status, Error, Stop, Kill, Start
<1>2. CASE \E s \in Scripts : \/ Cron(s)
                              \/ \E command \in {"start", "stop", "restart"} : Command(s, command)
  BY <1>2 DEF Cron, Command
<1>3. CASE \E p \in Pids : Echo(p) \/ Listen(p) \/ Poll(p) \/ Post(p) \/ Fail(p)
  BY <1>3 DEF Listen, Poll, Post, Fail
<1>4. CASE Reboot \/ Build \/ OthersEnd \/ UNCHANGED vars
  BY <1>4 DEF Reboot, Build, OthersEnd, vars
<1> QED BY <1>1, <1>2, <1>3, <1>4 DEF Next

LEMMA MonitorTypesNext == TypesAreInv /\ [Next]_vars => TypesAreInv'
<1> SUFFICES ASSUME TypesAreInv, [Next]_vars PROVE TypesAreInv'
  OBVIOUS
<1>1. script' \in [Scripts -> ScriptStates]
  <2>1. Asleep \in ScriptStates
    BY DEF Asleep, ScriptStates
  <2>2. CASE \E s \in Scripts :
               \/ Cron(s) \/ Step(s)
               \/ \E command \in {"start", "stop", "restart"} : Command(s, command)
    BY <2>2, ScriptTypes DEF TypesAreInv
  <2>3. CASE Reboot
    BY <2>1, <2>3 DEF Reboot
  <2>4. CASE UNCHANGED script
    BY <2>4 DEF TypesAreInv, TypesInv
  <2> QED BY <2>2, <2>3, <2>4 DEF Next, vars, Echo, Listen, Poll, Post, Fail, Build, OthersEnd
<1>2. file' \in SUBSET Pids /\ echoes' \in SUBSET Pids /\ ListedOnce'
  BY FileSteps DEF TypesAreInv, TypesInv, ListedOnce, Start, Echo
<1>3. proc' \in [Pids -> States] /\ OnePort'
  <2>1. proc \in [Pids -> States] /\ OnePort
    BY DEF TypesAreInv, TypesInv
  <2>2. CASE UNCHANGED proc
    BY <2>1, <2>2 DEF OnePort, Port
  <2>3. CASE \E p : proc' = [proc EXCEPT ![p] = "none"]
    BY <2>1, <2>3 DEF OnePort, Port, States
  <2>4. CASE proc' = [p \in Pids |-> "none"]
    BY <2>4 DEF OnePort, Port, States
  <2>5. CASE \E s \in Scripts : Start(s)
    BY <2>1, <2>5 DEF OnePort, Port, States, Start
  <2>6. CASE \E p \in Pids : Listen(p)
    <3>1. PICK p \in Pids : Listen(p)
      BY <2>6
    <3>2. CASE Port # {}
      BY <2>1, <3>1, <3>2 DEF Listen, OnePort, Port, States
    <3>3. CASE Port = {}
      BY <2>1, <3>1, <3>3 DEF Listen, OnePort, Port, States
    <3> QED BY <3>2, <3>3
  <2>7. CASE \E p \in Pids : Poll(p)
    BY <2>1, <2>7 DEF Poll, OnePort, Port, States
  <2> QED BY <2>2, <2>3, <2>4, <2>5, <2>6, <2>7, ProcSteps
<1>4. faults' \in 0..MaxFaults /\ commands' \in 0..MaxCommands /\ overlaps' \in 0..MaxOverlaps
  <2>1. faults \in 0..MaxFaults /\ commands \in 0..MaxCommands /\ overlaps \in 0..MaxOverlaps
    BY DEF TypesAreInv, TypesInv
  <2>2. /\ UNCHANGED faults \/ (faults < MaxFaults /\ faults' = faults + 1)
        /\ UNCHANGED commands \/ (commands < MaxCommands /\ commands' = commands + 1)
        /\ UNCHANGED overlaps \/ (overlaps' \in {overlaps, overlaps + 1} /\ overlaps' <= MaxOverlaps)
    <3>1. CASE \E s \in Scripts : Step(s)
      BY <3>1 DEF Step, Cat, Status, Error, Stop, Kill, Remove, Start, outside, events
    <3>2. CASE \E s \in Scripts :
                 \/ Cron(s)
                 \/ \E command \in {"start", "stop", "restart"} : Command(s, command)
      BY <3>2 DEF Cron, Command, Begin
    <3>3. CASE \E p \in Pids : Echo(p) \/ Listen(p) \/ Poll(p) \/ Post(p) \/ Fail(p)
      BY <3>3 DEF Echo, Listen, Poll, Post, Fail, outside, events
    <3>4. CASE Reboot \/ Build \/ OthersEnd \/ UNCHANGED vars
      BY <3>4 DEF Reboot, Build, OthersEnd, vars, outside, events
    <3> QED BY <3>1, <3>2, <3>3, <3>4 DEF Next
  <2> QED BY <2>1, <2>2, MonitorAssumption
<1>5. late' \in [Scripts -> SUBSET Pids]
  BY LateSteps DEF TypesAreInv, TypesInv, Remove, Echo
<1> QED BY <1>1, <1>2, <1>3, <1>4, <1>5 DEF TypesAreInv, TypesInv

\* Scripts, service and machine in any order and any number: every variable has its type,
\* no process is listed twice, and no two processes ever have the port.
THEOREM TypeCorrect == Spec => []TypeOK
<1>1. TypesAreInv => TypeOK
  <2> SUFFICES ASSUME TypesAreInv PROVE TypeOK
    OBVIOUS
  <2>1. Cardinality(Port) <= 1
    <3>1. CASE Port = {}
      BY <3>1, FS_EmptySet
    <3>2. CASE Port # {}
      <4>1. PICK p \in Port : Port = {p}
        BY <3>2 DEF TypesAreInv, OnePort
      <4> QED BY <4>1, FS_Singleton
    <3> QED BY <3>1, <3>2
  <2>2. \A s \in Scripts :
          /\ script[s].pc \in {"idle", "cat", "status", "error", "stop", "kill", "start"}
          /\ script[s].list \subseteq Pids
    BY DEF TypesAreInv, TypesInv, ScriptStates
  <2> QED BY <2>1, <2>2 DEF TypesAreInv, TypesInv, TypeOK, ListedOnce, States
<1> QED BY <1>1, MonitorTypesInit, MonitorTypesNext, PTL DEF Spec

-----------------------------------------------------------------------------
(* The pid file *)

\* A script that kills still holds every process that lives and is in the file, unless its
\* pid came too late.
KillInv == \A s \in Scripts, p \in Pids :
             script[s].pc = "kill" /\ Alive(p) /\ p \in file => p \in script[s].list \cup late[s]

\* The steps of a script that leave it out of the loop that kills: it looks, it decides,
\* or it begins.
LEMMA QuietSteps ==
  ASSUME TypesInv, NEW s \in Scripts,
         \/ Cron(s) \/ Status(s) \/ Error(s) \/ Stop(s)
         \/ \E command \in {"start", "stop", "restart"} : Command(s, command)
  PROVE  /\ UNCHANGED <<proc, file, echoes, late>> /\ script'[s].pc # "kill"
         /\ \A t \in Scripts \ {s} : script'[t] = script[t]
<1>1. script \in [Scripts -> ScriptStates] /\ script[s] \in ScriptStates
  BY DEF TypesInv
<1>2. UNCHANGED <<proc, file, echoes, late>>
  BY DEF Cron, Status, Error, Stop, Command, services
<1>3. CASE Cron(s)
  BY <1>1, <1>2, <1>3 DEF Cron, Asleep
<1>4. CASE \E command \in {"start", "stop", "restart"} : Command(s, command)
  BY <1>1, <1>2, <1>4 DEF Command, Asleep
<1>5. CASE Status(s)
  <2>1. script[s].pc = "status"
    BY <1>5 DEF Status
  <2>2. CASE script[s].list = {}
    <3>1. script' = [script EXCEPT ![s].pc = "error"]
      BY <1>5, <2>2 DEF Status, Go
    <3>2. script'[s].pc = "error"
      BY <1>1, <3>1 DEF ScriptStates
    <3> QED BY <1>1, <1>2, <3>1, <3>2
  <2>3. CASE script[s].list # {}
    <3>1. PICK p \in script[s].list :
            script' = [script EXCEPT ![s].list = script[s].list \ {p},
                                     ![s].lost = script[s].lost \/ ~Found(p)]
      BY <1>5, <2>3 DEF Status
    <3>2. script'[s].pc = "status"
      BY <1>1, <2>1, <3>1 DEF ScriptStates
    <3> QED BY <1>1, <1>2, <3>1, <3>2
  <2> QED BY <2>2, <2>3
<1>6. CASE Error(s)
  <2>1. \/ script' = [script EXCEPT ![s] = [Asleep EXCEPT !.pc = "stop", !.command = "restart"]]
        \/ script' = [script EXCEPT ![s] = Asleep]
    BY <1>6 DEF Error
  <2>2. /\ Asleep.pc = "idle"
        /\ [Asleep EXCEPT !.pc = "stop", !.command = "restart"].pc = "stop"
    BY DEF Asleep
  <2> QED BY <1>1, <1>2, <2>1, <2>2
<1>7. CASE Stop(s)
  <2>1. \/ script' = [script EXCEPT ![s].pc = "start"]
        \/ script' = [script EXCEPT ![s].pc = "cat"]
        \/ script' = [script EXCEPT ![s] = Asleep]
    BY <1>7 DEF Stop, Stopped, Go
  <2>2. Asleep.pc = "idle"
    BY DEF Asleep
  <2>3. script'[s].pc \in {"start", "cat", "idle"}
    BY <1>1, <2>1, <2>2 DEF ScriptStates
  <2> QED BY <1>1, <1>2, <2>1, <2>3
<1> QED BY <1>3, <1>4, <1>5, <1>6, <1>7

LEMMA KillInit == Init => KillInv
  BY DEF Init, KillInv, Asleep

LEMMA KillNext == TypesInv /\ KillInv /\ [Next]_vars => KillInv'
<1> SUFFICES ASSUME TypesInv, KillInv, [Next]_vars PROVE KillInv'
  OBVIOUS
<1>1. /\ proc \in [Pids -> States] /\ script \in [Scripts -> ScriptStates]
      /\ late \in [Scripts -> SUBSET Pids]
  BY DEF TypesInv
<1>2. \A s \in Scripts, p \in Pids :
        script[s].pc = "kill" /\ proc[p] # "none" /\ p \in file => p \in script[s].list \cup late[s]
  BY DEF KillInv, Alive
<1>3. ASSUME NEW s \in Scripts,
             \/ Cron(s) \/ Status(s) \/ Error(s) \/ Stop(s)
             \/ \E command \in {"start", "stop", "restart"} : Command(s, command)
      PROVE  KillInv'
  <2>1. /\ UNCHANGED <<proc, file, late>> /\ script'[s].pc # "kill"
        /\ \A t \in Scripts \ {s} : script'[t] = script[t]
    BY <1>3, QuietSteps
  <2> QED BY <1>2, <2>1 DEF KillInv, Alive
<1>4. ASSUME NEW s \in Scripts, Cat(s) PROVE KillInv'
  <2>1. PICK at : script' = [script EXCEPT ![s].list = file, ![s].pc = at]
    BY <1>4 DEF Cat
  <2>2. script'[s].list = file /\ \A t \in Scripts \ {s} : script'[t] = script[t]
    BY <1>1, <2>1 DEF ScriptStates
  <2>3. UNCHANGED <<proc, file, late>>
    BY <1>4 DEF Cat, services
  <2> QED BY <1>2, <2>2, <2>3 DEF KillInv, Alive
<1>5. ASSUME NEW s \in Scripts, Kill(s) PROVE KillInv'
  <2>1. PICK p \in script[s].list :
          /\ proc' = IF Found(p) THEN [proc EXCEPT ![p] = "none"] ELSE proc
          /\ script' = [script EXCEPT ![s].list = script[s].list \ {p}]
    BY <1>5 DEF Kill
  <2>2. UNCHANGED <<file, late>> /\ script[s].pc = "kill"
    BY <1>5 DEF Kill
  <2>3. /\ script'[s].list = script[s].list \ {p}
        /\ \A t \in Scripts \ {s} : script'[t] = script[t]
    BY <1>1, <2>1 DEF ScriptStates
  <2>4. \A q \in Pids : proc'[q] # "none" => proc[q] # "none" /\ q # p
    BY <1>1, <2>1 DEF Found, Alive
  <2> QED BY <1>2, <2>2, <2>3, <2>4 DEF KillInv, Alive
<1>6. ASSUME NEW s \in Scripts, Remove(s) PROVE KillInv'
  BY <1>6 DEF Remove, KillInv
<1>7. ASSUME NEW s \in Scripts, Start(s) PROVE KillInv'
  <2>1. PICK p \in Pids : p \notin file /\ proc' = [proc EXCEPT ![p] = "starting"]
    BY <1>7 DEF Start
  <2>2. UNCHANGED <<file, late>> /\ script' = [script EXCEPT ![s] = Asleep]
    BY <1>7 DEF Start
  <2>3. script'[s].pc = "idle" /\ \A t \in Scripts \ {s} : script'[t] = script[t]
    BY <1>1, <2>2 DEF Asleep
  <2>4. \A q \in Pids \ {p} : proc'[q] = proc[q]
    BY <1>1, <2>1
  <2> QED BY <1>2, <2>1, <2>2, <2>3, <2>4 DEF KillInv, Alive
<1>8. ASSUME NEW p \in Pids, Echo(p) PROVE KillInv'
  BY <1>2, <1>8 DEF Echo, services, KillInv, Alive
<1>9. ASSUME NEW p \in Pids, Listen(p) \/ Poll(p) \/ Post(p) \/ Fail(p) PROVE KillInv'
  <2>1. UNCHANGED <<file, script, late>>
    BY <1>9 DEF Listen, Poll, Post, Fail
  <2>2. \A q \in Pids : proc'[q] # "none" => proc[q] # "none"
    BY <1>1, <1>9 DEF Listen, Poll, Post, Fail, Alive
  <2> QED BY <1>2, <2>1, <2>2 DEF KillInv, Alive
<1>10. CASE Reboot
  BY <1>10 DEF Reboot, KillInv, Alive
<1>11. CASE Build \/ OthersEnd \/ UNCHANGED vars
  <2>1. UNCHANGED <<proc, file, script, late>>
    BY <1>11 DEF Build, OthersEnd, vars, services
  <2> QED BY <1>2, <2>1 DEF KillInv, Alive
<1> QED BY <1>3, <1>4, <1>5, <1>6, <1>7, <1>8, <1>9, <1>10, <1>11 DEF Next, Step

\* monitor.sh and startup.sh, however many of them run at the same time and whenever the
\* echoes are done: a living process drops out of pid file and echoes only when a script
\* removes the file into which its pid came after that script had read it.
THEOREM LateOnesEscape == Spec => OnlyLateOnesEscape
<1> DEFINE Drop == \A p \in Pids : Listed(p) /\ Alive(p) /\ Alive(p)' /\ ~Listed(p)' =>
                     \E s \in Scripts : script[s].pc = "kill" /\ p \in late[s]
<1>1. Init => TypesAreInv /\ KillInv
  BY MonitorTypesInit, KillInit
<1>2. TypesAreInv /\ KillInv /\ [Next]_vars => (TypesAreInv /\ KillInv)'
  BY MonitorTypesNext, KillNext DEF TypesAreInv
<1>3. TypesAreInv /\ KillInv /\ [Next]_vars => Drop
  <2> SUFFICES ASSUME TypesAreInv, KillInv, [Next]_vars, NEW p \in Pids,
                      p \in file \cup echoes, Alive(p), Alive(p)', p \notin file' \cup echoes'
               PROVE  \E s \in Scripts : script[s].pc = "kill" /\ p \in late[s]
    BY DEF Listed
  <2>1. CASE \E s \in Scripts : Remove(s) /\ file' = {} /\ UNCHANGED echoes
    <3>1. PICK s \in Scripts : Remove(s) /\ UNCHANGED echoes
      BY <2>1
    <3>2. script[s].pc = "kill" /\ script[s].list = {} /\ p \in file
      BY <3>1 DEF Remove
    <3> QED BY <3>2 DEF KillInv
  <2>2. CASE \/ UNCHANGED <<file, echoes>>
             \/ \E s \in Scripts : Start(s) /\ UNCHANGED file
             \/ \E q \in Pids : Echo(q)
    BY <2>2 DEF Start, Echo
  <2>3. CASE proc' = [q \in Pids |-> "none"]
    BY <2>3 DEF Alive
  <2> QED BY <2>1, <2>2, <2>3, FileSteps
<1> QED BY <1>1, <1>2, <1>3, PTL DEF Spec, OnlyLateOnesEscape
=============================================================================
