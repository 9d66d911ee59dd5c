---------------------------- MODULE DashboardProofs ----------------------------
(* The dashboard always lets the process end cleanly, for every set of     *)
(* devices: the invariant IInv of Dashboard is inductive.                  *)
EXTENDS Dashboard, TLAPS

(* Whoever draws before shutdown() finds the animation running, or starts  *)
(* the only one there is.                                                  *)
LEMMA DrawingKeepsShape ==
  ASSUME TypeOK, AnimationShape, proc \in {"spin", "join"}, joinable => running,
         lock = "free", lock' = lock, NEW rows, Render(rows)
  PROVE  /\ AnimationShape'
         /\ proc' = proc
         /\ joinable' => running'
         /\ screen' = rows
         /\ cursor' \in BOOLEAN /\ initialized' \in BOOLEAN
         /\ running' \in BOOLEAN /\ joinable' \in BOOLEAN
         /\ anim' \in {"none", "test", "sleep", "locked", "ended"}
<1>1. CASE initialized
  BY <1>1 DEF Render, AnimationShape, TypeOK
<1>2. CASE ~initialized
  <2>1. ~running /\ ~joinable /\ anim = "none"
    BY <1>2 DEF AnimationShape, TypeOK
  <2>2. /\ initialized' = TRUE /\ cursor' = FALSE /\ running' = TRUE
        /\ joinable' = TRUE /\ anim' = "test" /\ proc' = proc /\ screen' = rows
    BY <1>2, <2>1 DEF Render, StartAnimation
  <2>3. QED  BY <2>2 DEF AnimationShape
<1>3. QED  BY <1>1, <1>2 DEF TypeOK

(* The same for a device's row.                                            *)
LEMMA RowKeepsShape ==
  ASSUME TypeOK, AnimationShape, proc \in {"spin", "join"}, joinable => running,
         NEW i \in Id, NEW text \in Row, SetNodeLine(i, text)
  PROVE  /\ AnimationShape'
         /\ proc' = proc
         /\ joinable' => running'
         /\ lock' = lock
         /\ line' \in [Id -> Row] /\ screen' \in [Id -> Row]
         /\ cursor' \in BOOLEAN /\ initialized' \in BOOLEAN
         /\ running' \in BOOLEAN /\ joinable' \in BOOLEAN
         /\ anim' \in {"none", "test", "sleep", "locked", "ended"}
<1>1. lock = "free" /\ lock' = lock /\ Render(line')
  BY DEF SetNodeLine
<1>2. line' \in [Id -> Row]
  BY DEF SetNodeLine, TypeOK
<1>3. QED  BY <1>1, <1>2, DrawingKeepsShape

LEMMA InitHolds == Init => IInv
<1>1. Init => TypeOK
  <2> SUFFICES ASSUME Init PROVE TypeOK
    OBVIOUS
  <2>1. events \in 0 .. MaxEvents
    BY EventsAssumption DEF Init
  <2>2. line \in [Id -> Row] /\ screen \in [Id -> Row]
    BY DEF Init, Row
  <2>3. node \in [Id -> Node \cup {NoNode}]
    BY DEF Init
  <2>4. QED  BY <2>1, <2>2, <2>3 DEF Init, TypeOK
<1>2. Init => AnimationShape /\ ScanShape /\ MainShape /\ ExitClean
  BY DEF Init, AnimationShape, ScanShape, MainShape, ExitClean
<1>3. QED  BY <1>1, <1>2 DEF IInv

(* A step of a callback, wherever its node is: it happens before spin()    *)
(* returns, so the dashboard is still there to be drawn on.                *)
LEMMA CallbackKeepsShape ==
  ASSUME IInv, proc = "spin", NEW i \in Id, NEW o \in Node, NEW q \in Node,
         CallbackStep(i, o, q)
  PROVE  /\ AnimationShape'
         /\ proc' = proc /\ ok' = ok
         /\ joinable' => running'
         /\ lock' = lock /\ events' \in 0 .. MaxEvents
         /\ line' \in [Id -> Row] /\ screen' \in [Id -> Row]
         /\ cursor' \in BOOLEAN /\ initialized' \in BOOLEAN
         /\ running' \in BOOLEAN /\ joinable' \in BOOLEAN
         /\ anim' \in {"none", "test", "sleep", "locked", "ended"}
<1> USE DEF IInv
<1>0. joinable => running
  BY DEF MainShape
<1>1. CASE UNCHANGED <<events, mainVars, uiVars>>
  BY <1>1, <1>0 DEF TypeOK, AnimationShape, mainVars, uiVars, drawVars
<1>2. CASE Opens(i, o, q)
  <2>1. events' \in 0 .. MaxEvents
    BY <1>2, EventsAssumption DEF Opens, Opened, TypeOK
  <2>2. QED
    BY <1>2, <1>0, <2>1 DEF Opens, TypeOK, AnimationShape, mainVars, uiVars, drawVars
<1>3. ASSUME NEW text \in Row, SetNodeLine(i, text), UNCHANGED <<events, ok>>
      PROVE  /\ AnimationShape'
             /\ proc' = proc /\ ok' = ok
             /\ joinable' => running'
             /\ lock' = lock /\ events' \in 0 .. MaxEvents
             /\ line' \in [Id -> Row] /\ screen' \in [Id -> Row]
             /\ cursor' \in BOOLEAN /\ initialized' \in BOOLEAN
             /\ running' \in BOOLEAN /\ joinable' \in BOOLEAN
             /\ anim' \in {"none", "test", "sleep", "locked", "ended"}
  <2>1. events' \in 0 .. MaxEvents /\ ok' = ok
    BY <1>3 DEF TypeOK
  <2>2. QED  BY <1>0, <1>3, <2>1, RowKeepsShape
<1>4. CASE Erases(i, o, q)
  BY <1>3, <1>4 DEF Erases, EraseNodeLine, Row
<1>5. CASE Reports(i, o, q)
  <2>1. o.step \in Row
    BY <1>5 DEF Reports, Row
  <2>2. QED  BY <1>3, <1>5, <2>1 DEF Reports
<1>6. QED
  BY <1>1, <1>2, <1>4, <1>5
     DEF CallbackStep, Loses, Retries, Returns, Composes

(* Before spin() returns a node or an orphan may be executing; later none. *)
LEMMA CallbacksOnlyInSpin ==
  ASSUME IInv, Alive
  PROVE  /\ \A i \in Id : node[i] # NoNode /\ node[i].step # "idle" => proc = "spin"
         /\ orphans # {} => proc = "spin"
BY DEF IInv, MainShape, CallbacksEnded, Alive, TypeOK

LEMMA AnimationKeeps == IInv /\ Animation => IInv'
<1> SUFFICES ASSUME IInv, Animation PROVE IInv'
  OBVIOUS
<1> USE DEF IInv
<1>1. UNCHANGED <<worldVars, nodeVars, scanVars, mainVars, line, cursor,
                  initialized, running, joinable>>
  BY DEF Animation, AnimTests, AnimLocks, AnimDraws
<1>2. /\ screen' \in [Id -> Row]
      /\ anim' \in {"test", "sleep", "locked", "ended"}
      /\ lock' \in {"free", "anim"}
      /\ lock' = "anim" <=> anim' = "locked"
      /\ anim # "none"
  BY DEF Animation, AnimTests, AnimLocks, AnimDraws, TypeOK, AnimationShape
<1>3. TypeOK'
  BY <1>1, <1>2 DEF TypeOK, worldVars, nodeVars, scanVars, mainVars
<1>4. AnimationShape'
  BY <1>1, <1>2 DEF AnimationShape
<1>5. ScanShape' /\ MainShape' /\ ExitClean'
  BY <1>1 DEF ScanShape, MainShape, ExitClean, CallbacksEnded, worldVars, nodeVars, scanVars, mainVars
<1>6. QED  BY <1>3, <1>4, <1>5

LEMMA PlugKeeps == ASSUME IInv, NEW i \in Id, Plug(i) PROVE IInv'
<1> USE DEF IInv
<1>1. present' \subseteq Id /\ events' \in 0 .. MaxEvents
  BY EventsAssumption DEF Plug, TypeOK
<1>2. TypeOK'
  BY <1>1 DEF TypeOK, Plug, nodeVars, scanVars, mainVars, uiVars, drawVars
<1>3. AnimationShape' /\ ScanShape' /\ MainShape' /\ ExitClean'
  BY DEF Plug, AnimationShape, ScanShape, MainShape, ExitClean, CallbacksEnded, nodeVars,
         scanVars, mainVars, uiVars, drawVars
<1>4. QED  BY <1>2, <1>3

(* Steps of callbacks: spin() has not returned.                            *)
LEMMA ExecutorKeeps == IInv /\ Executor => IInv'
<1> SUFFICES ASSUME IInv, Executor PROVE IInv'
  OBVIOUS
<1>1. ASSUME NEW i \in Id, CallbackBegins(i) PROVE IInv'
  <2> USE DEF IInv
  <2>1. node' \in [Id -> Node \cup {NoNode}]
    <3>1. node[i] \in Node
      BY <1>1 DEF CallbackBegins, Executing, TypeOK
    <3>2. [node[i] EXCEPT !.step = "begun"] \in Node
      BY <3>1 DEF Node, Step
    <3>3. node' = [node EXCEPT ![i] = [node[i] EXCEPT !.step = "begun"]]
      BY <1>1 DEF CallbackBegins
    <3>4. QED  BY <3>2, <3>3 DEF TypeOK
  <2>2. TypeOK'
    BY <1>1, <2>1 DEF CallbackBegins, TypeOK, worldVars, scanVars, mainVars,
                     uiVars, drawVars
  <2>3. AnimationShape' /\ ExitClean'
    BY <1>1 DEF CallbackBegins, AnimationShape, ExitClean, mainVars, uiVars, drawVars
  <2>4. ScanShape' /\ MainShape'
    BY <1>1 DEF CallbackBegins, ScanShape, scanVars, MainShape, mainVars, uiVars, drawVars
  <2>5. QED  BY <2>2, <2>3, <2>4
<1>2. ASSUME NEW i \in Id, NodeStep(i) PROVE IInv'
  <2>1. PICK q \in Node : /\ CallbackStep(i, node[i], q)
                          /\ node' = [node EXCEPT ![i] = q]
    BY <1>2 DEF NodeStep
  <2>2. node[i] \in Node
    BY <1>2 DEF NodeStep, IInv, TypeOK
  <2>3. node[i].step # "idle"
    BY <2>1 DEF CallbackStep, Loses, Retries, Erases, Opens, Returns, Composes,
               Reports
  <2>4. proc = "spin"
    BY <1>2, <2>3, CallbacksOnlyInSpin DEF NodeStep
  <2>5. UNCHANGED <<present, orphans, scanVars>>
    BY <1>2 DEF NodeStep
  <2>6. node' \in [Id -> Node \cup {NoNode}]
    BY <2>1 DEF IInv, TypeOK
  <2>7. /\ AnimationShape' /\ proc' = proc /\ ok' = ok
        /\ joinable' => running'
        /\ lock' = lock /\ events' \in 0 .. MaxEvents
        /\ line' \in [Id -> Row] /\ screen' \in [Id -> Row]
        /\ cursor' \in BOOLEAN /\ initialized' \in BOOLEAN
        /\ running' \in BOOLEAN /\ joinable' \in BOOLEAN
        /\ anim' \in {"none", "test", "sleep", "locked", "ended"}
    BY <2>1, <2>2, <2>4, CallbackKeepsShape
  <2>8. TypeOK'
    BY <2>5, <2>6, <2>7 DEF IInv, TypeOK, scanVars
  <2>9. ScanShape' /\ MainShape' /\ ExitClean'
    BY <2>4, <2>5, <2>7 DEF IInv, ScanShape, MainShape, ExitClean, scanVars
  <2>10. QED  BY <2>7, <2>8, <2>9 DEF IInv
<1>3. ASSUME NEW r \in orphans, OrphanStep(r) PROVE IInv'
  <2> DEFINE o == [up |-> r.up, step |-> r.step]
  <2>1. PICK q \in Node :
          /\ CallbackStep(r.id, o, q)
          /\ orphans' = (orphans \ {r}) \cup
               (IF q.step = "idle" THEN {}
                ELSE {[id |-> r.id, up |-> q.up, step |-> q.step]})
    BY <1>3 DEF OrphanStep
  <2>2. r.id \in Id /\ o \in Node
    BY DEF IInv, TypeOK, Node
  <2>3. proc = "spin"
    BY <1>3, CallbacksOnlyInSpin DEF OrphanStep
  <2>4. UNCHANGED <<present, node, scanVars>>
    BY <1>3 DEF OrphanStep
  <2>5. orphans' \subseteq [id : Id, up : BOOLEAN, step : Step \ {"idle"}]
    BY <2>1, <2>2 DEF IInv, TypeOK, Node
  <2> HIDE DEF o
  <2>6. /\ AnimationShape' /\ proc' = proc /\ ok' = ok
        /\ joinable' => running'
        /\ lock' = lock /\ events' \in 0 .. MaxEvents
        /\ line' \in [Id -> Row] /\ screen' \in [Id -> Row]
        /\ cursor' \in BOOLEAN /\ initialized' \in BOOLEAN
        /\ running' \in BOOLEAN /\ joinable' \in BOOLEAN
        /\ anim' \in {"none", "test", "sleep", "locked", "ended"}
    BY <2>1, <2>2, <2>3, CallbackKeepsShape
  <2>7. TypeOK'
    BY <2>4, <2>5, <2>6 DEF IInv, TypeOK, scanVars
  <2>8. ScanShape' /\ MainShape' /\ ExitClean'
    BY <2>3, <2>4, <2>6 DEF IInv, ScanShape, MainShape, ExitClean, scanVars
  <2>9. QED  BY <2>6, <2>7, <2>8 DEF IInv
<1>4. QED  BY <1>1, <1>2, <1>3 DEF Executor

(* The scanner is joined before shutdown(), and constructs only while its  *)
(* thread is at it; a node constructed is idle.                            *)
LEMMA ScannerKeeps == IInv /\ Scanner => IInv'
<1> SUFFICES ASSUME IInv, Scanner PROVE IInv'
  OBVIOUS
<1> USE DEF IInv
<1>1. Alive /\ scanPc # "done" /\ proc \in {"spin", "join"} /\ (joinable => running)
  BY DEF Scanner, ScanBegins, ScanDraws, ScanErases, ScanConstructs, ScanEnds,
         ScannerExits, ScanFinds, Alive, MainShape, TypeOK
<1>2. CASE ScanBegins \/ ScanEnds \/ ScannerExits
  <2>1. /\ UNCHANGED <<worldVars, nodeVars, scanId, mainVars, uiVars>>
        /\ scanPc' \in {"wait", "scan", "done"}
    BY <1>2 DEF ScanBegins, ScanEnds, ScannerExits
  <2>2. TypeOK'
    BY <2>1 DEF TypeOK, worldVars, nodeVars, mainVars, uiVars, drawVars
  <2>3. ScanShape'
    BY <1>2, <2>1 DEF ScanShape, ScanBegins, ScanEnds, ScannerExits
  <2>4. AnimationShape' /\ ExitClean'
    BY <2>1 DEF AnimationShape, ExitClean, mainVars, uiVars, drawVars
  <2>5. MainShape'
    BY <1>1, <2>1 DEF MainShape, CallbacksEnded, nodeVars, mainVars, uiVars, drawVars
  <2>6. QED  BY <2>2, <2>3, <2>4, <2>5
<1>3. CASE ScanDraws
  <2>1. lock = "free" /\ lock' = lock /\ line' = line /\ Render(line)
    BY <1>3 DEF ScanDraws, DrawScan
  <2>2. UNCHANGED <<worldVars, nodeVars, scanVars, ok>>
    BY <1>3 DEF ScanDraws
  <2>3. /\ AnimationShape' /\ proc' = proc
        /\ joinable' => running'
        /\ screen' = line
        /\ cursor' \in BOOLEAN /\ initialized' \in BOOLEAN
        /\ running' \in BOOLEAN /\ joinable' \in BOOLEAN
        /\ anim' \in {"none", "test", "sleep", "locked", "ended"}
    BY <1>1, <2>1, DrawingKeepsShape
  <2>4. TypeOK'
    BY <2>1, <2>2, <2>3 DEF TypeOK, worldVars, nodeVars, scanVars
  <2>5. ExitClean' /\ ScanShape' /\ MainShape'
    BY <1>1, <2>2, <2>3 DEF ExitClean, ScanShape, MainShape, CallbacksEnded, nodeVars, scanVars
  <2>6. QED  BY <2>3, <2>4, <2>5
<1>4. CASE ScanErases
  <2>0. scanId \in Id
    BY <1>4 DEF ScanErases, ScanShape, TypeOK
  <2>1. SetNodeLine(scanId, "none") /\ "none" \in Row
    BY <1>4 DEF ScanErases, EraseNodeLine, Row
  <2>2. scanPc' = "open" /\ UNCHANGED <<worldVars, nodeVars, scanId, ok>>
    BY <1>4 DEF ScanErases
  <2>3. /\ AnimationShape' /\ proc' = proc
        /\ joinable' => running'
        /\ lock' = lock
        /\ line' \in [Id -> Row] /\ screen' \in [Id -> Row]
        /\ cursor' \in BOOLEAN /\ initialized' \in BOOLEAN
        /\ running' \in BOOLEAN /\ joinable' \in BOOLEAN
        /\ anim' \in {"none", "test", "sleep", "locked", "ended"}
    BY <1>1, <2>0, <2>1, RowKeepsShape
  <2>4. TypeOK'
    BY <2>2, <2>3 DEF TypeOK, worldVars, nodeVars
  <2>5. ScanShape'
    BY <2>0, <2>2, IdAssumption DEF ScanShape
  <2>6. ExitClean' /\ MainShape'
    BY <1>1, <2>2, <2>3 DEF ExitClean, MainShape, CallbacksEnded, nodeVars
  <2>7. QED  BY <2>3, <2>4, <2>5, <2>6
<1>5. CASE ScanConstructs
  <2>0. scanId \in Id /\ proc = proc' /\ ok' = ok
    BY <1>5 DEF ScanConstructs, ScanShape, TypeOK, mainVars
  <2>1. PICK up \in BOOLEAN :
          /\ Opened(scanId, up)
          /\ node' = [node EXCEPT ![scanId] = [up |-> up, step |-> "idle"]]
    BY <1>5 DEF ScanConstructs
  <2>2. events' \in 0 .. MaxEvents
    BY <2>1, EventsAssumption DEF Opened, TypeOK
  <2>3. [up |-> up, step |-> "idle"] \in Node
    BY DEF Node, Step
  <2>4. node' \in [Id -> Node \cup {NoNode}]
    BY <2>1, <2>3 DEF TypeOK
  <2>5. orphans' \subseteq [id : Id, up : BOOLEAN, step : Step \ {"idle"}]
    <3>1. CASE node[scanId] = NoNode \/ node[scanId].step = "idle"
      BY <1>5, <3>1 DEF ScanConstructs, TypeOK
    <3>2. CASE ~(node[scanId] = NoNode \/ node[scanId].step = "idle")
      <4>1. node[scanId] \in Node
        BY <2>0, <3>2 DEF TypeOK
      <4>2. [id |-> scanId, up |-> node[scanId].up, step |-> node[scanId].step]
              \in [id : Id, up : BOOLEAN, step : Step \ {"idle"}]
        BY <2>0, <3>2, <4>1 DEF Node
      <4>3. orphans' = orphans \cup
              {[id |-> scanId, up |-> node[scanId].up, step |-> node[scanId].step]}
        BY <1>5, <3>2 DEF ScanConstructs
      <4>4. QED  BY <4>2, <4>3 DEF TypeOK
    <3>3. QED  BY <3>1, <3>2
  <2>6. /\ UNCHANGED <<present, mainVars, uiVars>>
        /\ scanPc' = "scan" /\ scanId' = NoNode
    BY <1>5 DEF ScanConstructs
  <2>7. TypeOK'
    BY <2>2, <2>4, <2>5, <2>6 DEF TypeOK, mainVars, uiVars, drawVars
  <2>8. AnimationShape' /\ ExitClean' /\ ScanShape'
    BY <2>6 DEF AnimationShape, ExitClean, ScanShape, mainVars, uiVars, drawVars
  <2>9. MainShape'
    <3>1. CASE proc = "spin"
      BY <1>1, <2>0, <2>6, <3>1 DEF MainShape, uiVars, drawVars
    <3>2. CASE proc = "join"
      <4>1. /\ \A i \in Id : node[i] # NoNode => node[i].step = "idle"
            /\ orphans = {} /\ ~ok
        BY <3>2 DEF MainShape, CallbacksEnded
      <4>2. \A i \in Id : node'[i] # NoNode => node'[i].step = "idle"
        BY <2>1, <4>1 DEF TypeOK
      <4>3. orphans' = {}
        BY <1>5, <2>0, <4>1 DEF ScanConstructs
      <4>4. QED
        BY <1>1, <2>0, <2>6, <3>2, <4>1, <4>2, <4>3
           DEF MainShape, CallbacksEnded, uiVars, drawVars
    <3>3. QED  BY <1>1, <3>1, <3>2
  <2>10. QED  BY <2>7, <2>8, <2>9
<1>6. ASSUME NEW i \in Id, ScanFinds(i) PROVE IInv'
  <2>1. /\ UNCHANGED <<worldVars, nodeVars, ok, uiVars>>
        /\ \/ scanPc' = "erase" /\ scanId' = i /\ proc' = proc
           \/ proc' = "crashed" /\ scanPc' = scanPc /\ scanId' = scanId
    BY <1>6 DEF ScanFinds, scanVars
  <2>2. TypeOK'
    BY <2>1 DEF TypeOK, worldVars, nodeVars, uiVars, drawVars
  <2>3. AnimationShape' /\ ExitClean'
    BY <2>1 DEF AnimationShape, ExitClean, uiVars, drawVars
  <2>4. ScanShape'
    BY <2>1, IdAssumption DEF ScanShape
  <2>5. MainShape'
    BY <1>1, <2>1 DEF MainShape, CallbacksEnded, nodeVars, uiVars, drawVars
  <2>6. QED  BY <2>2, <2>3, <2>4, <2>5
<1>7. QED  BY <1>2, <1>3, <1>4, <1>5, <1>6 DEF Scanner

(* Main takes the dashboard down alone: the callbacks have ended, then the *)
(* scanner has.                                                            *)
LEMMA MainKeeps == IInv /\ Main => IInv'
<1> SUFFICES ASSUME IInv, Main PROVE IInv'
  OBVIOUS
<1> USE DEF IInv
<1>1. UNCHANGED <<worldVars, nodeVars, scanVars, line, screen, lock>>
  BY DEF Main, Signal, SpinReturns, ScannerJoined, ShutdownStops, ShutdownJoins,
         Exits, uiVars, drawVars
<1>2. ScanShape'
  BY <1>1 DEF ScanShape, scanVars
<1>3. CASE Signal \/ SpinReturns \/ ScannerJoined \/ Exits
  <2>1. UNCHANGED uiVars
    BY <1>3 DEF Signal, SpinReturns, ScannerJoined, Exits
  <2>2. TypeOK'
    <3>1. ok' \in BOOLEAN /\ proc' \in {"spin", "join", "shutdown", "aborted", "done"}
      BY <1>3 DEF Signal, SpinReturns, ScannerJoined, Exits, TypeOK
    <3>2. QED
      BY <1>1, <2>1, <3>1 DEF TypeOK, worldVars, nodeVars, scanVars, uiVars, drawVars
  <2>3. AnimationShape'
    BY <2>1 DEF AnimationShape, uiVars, drawVars
  <2>4. ExitClean' /\ MainShape'
    BY <1>1, <1>3, <2>1 DEF Signal, SpinReturns, ScannerJoined, Exits, TypeOK,
       AnimationShape, ExitClean, MainShape, CallbacksEnded, nodeVars, scanVars,
       uiVars, drawVars
  <2>5. QED  BY <1>2, <2>2, <2>3, <2>4
<1>4. CASE ShutdownStops
  <2>1. /\ running' = FALSE /\ initialized' = FALSE /\ cursor' = TRUE
        /\ proc' = IF joinable THEN "joining" ELSE "exit"
        /\ UNCHANGED <<ok, joinable, anim>> /\ proc = "shutdown"
    BY <1>4 DEF ShutdownStops, AnimationShape, TypeOK
  <2>2. TypeOK'
    BY <1>1, <2>1 DEF TypeOK, worldVars, nodeVars, scanVars
  <2>3. AnimationShape' /\ ExitClean'
    BY <1>1, <2>1 DEF AnimationShape, ExitClean
  <2>4. MainShape'
    BY <1>1, <2>1 DEF MainShape, CallbacksEnded, nodeVars, scanVars
  <2>5. QED  BY <1>2, <2>2, <2>3, <2>4
<1>5. CASE ShutdownJoins
  <2>1. /\ joinable' = FALSE /\ anim' = "none" /\ proc' = "exit"
        /\ UNCHANGED <<ok, cursor, initialized, running>>
        /\ proc = "joining" /\ anim = "ended"
    BY <1>5 DEF ShutdownJoins
  <2>2. TypeOK'
    BY <1>1, <2>1 DEF TypeOK, worldVars, nodeVars, scanVars
  <2>3. AnimationShape' /\ ExitClean'
    BY <1>1, <2>1 DEF AnimationShape, ExitClean, MainShape
  <2>4. MainShape'
    BY <1>1, <2>1 DEF MainShape, CallbacksEnded, nodeVars, scanVars
  <2>5. QED  BY <1>2, <2>2, <2>3, <2>4
<1>6. QED  BY <1>3, <1>4, <1>5 DEF Main

LEMMA NextKeeps == IInv /\ [Next]_vars => IInv'
<1> SUFFICES ASSUME IInv, [Next]_vars PROVE IInv'
  OBVIOUS
<1>1. CASE UNCHANGED vars
  BY <1>1 DEF IInv, TypeOK, AnimationShape, ScanShape, MainShape, ExitClean,
     CallbacksEnded, vars, worldVars, nodeVars, scanVars, mainVars, uiVars, drawVars
<1>2. CASE Next
  BY <1>1, <1>2, AnimationKeeps, ExecutorKeeps, ScannerKeeps, MainKeeps, PlugKeeps
     DEF Next, Terminated
<1>3. QED  BY <1>1, <1>2

(* Type correctness and the shape of the dashboard's life: the animation   *)
(* runs from the first drawing to shutdown(), which finds nobody else left *)
(* (main.cpp:114-119).                                                     *)
THEOREM DashboardInvariant == Spec => []IInv
BY InitHolds, NextKeeps, PTL DEF Spec

(* For any number of devices and events: std::terminate is never called on *)
(* account of the animation thread, and the process leaves the cursor      *)
(* visible (graphical_ui.hpp:328-344, 446-469).                            *)
THEOREM ExitAlwaysClean == Spec => []ExitClean
<1>1. IInv => ExitClean
  BY DEF IInv
<1>2. QED  BY <1>1, DashboardInvariant, PTL
===============================================================================
