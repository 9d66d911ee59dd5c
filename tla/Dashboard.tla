------------------------------- MODULE Dashboard -------------------------------
(***************************************************************************)
(* The terminal dashboard (graphical_ui.hpp) and the threads that draw on  *)
(* it: the scanner, the executor's callbacks of the nodes, the animation   *)
(* thread that the first drawing starts, and the main thread that stops it *)
(* and joins it before the process ends.                                   *)
(*                                                                         *)
(* Every function takes g_mutex, changes a line and draws before it leaves *)
(* it: one step, possible while the lock is free.  The texts of the        *)
(* scanner's two lines, the layout and the ticks of the spinners are left  *)
(* out; of a node's line its first item is kept, "[ON ]" or "[OFF]".       *)
(***************************************************************************)
EXTENDS Naturals

CONSTANTS
  Id,        \* device IDs
  NoNode,    \* node_map has no node of this ID
  MaxEvents  \* bound on the events: a device comes or goes, or opens or not
             \* against expectation

ASSUME IdAssumption == NoNode \notin Id \cup [up : BOOLEAN, step : STRING]
ASSUME EventsAssumption == MaxEvents \in Nat

VARIABLES
  present,      \* the devices plugged in and sending
  events,       \* number of events so far
  node,         \* node[i]: connected_ and the point its callback is at
  orphans,      \* destroyed nodes whose callback is still executing
  scanPc,       \* scanner: "wait" "scan" "erase" "open" "done"
  scanId,       \* the ID whose node it constructs; NoNode: none
  ok,           \* rclcpp::ok()
  proc,         \* main: "spin" "join" "shutdown" "joining" "exit" "done";
                \* "aborted", "crashed": std::terminate was called
  line,         \* g_state.node_lines
  screen,       \* the device rows of the terminal
  cursor,       \* the terminal's cursor is visible
  initialized,  \* g_state.initialized
  running,      \* g_anim_running
  joinable,     \* g_anim_thread.joinable()
  anim,         \* animation thread: "none" "test" "sleep" "locked" "ended"
  lock          \* owner of g_mutex between steps: "free" "anim"

worldVars == <<present, events>>
nodeVars  == <<node, orphans>>
scanVars  == <<scanPc, scanId>>
mainVars  == <<ok, proc>>
drawVars  == <<screen, cursor, initialized, running, joinable, anim>>
uiVars    == <<line, drawVars, lock>>
vars == <<worldVars, nodeVars, scanVars, mainVars, uiVars>>

Row == {"none", "[ON ]", "[OFF]"}
Step == {"idle", "begun", "drop", "retry", "open", "report", "[ON ]", "[OFF]"}
Node == [up : BOOLEAN, step : Step]

Alive == proc \notin {"done", "aborted", "crashed"}

TypeOK ==
  /\ present \subseteq Id
  /\ events \in 0 .. MaxEvents
  /\ node \in [Id -> Node \cup {NoNode}]
  /\ orphans \subseteq [id : Id, up : BOOLEAN, step : Step \ {"idle"}]
  /\ scanPc \in {"wait", "scan", "erase", "open", "done"}
  /\ scanId \in Id \cup {NoNode}
  /\ ok \in BOOLEAN
  /\ proc \in {"spin", "join", "shutdown", "joining", "exit", "done", "aborted",
               "crashed"}
  /\ line \in [Id -> Row]
  /\ screen \in [Id -> Row]
  /\ cursor \in BOOLEAN
  /\ initialized \in BOOLEAN
  /\ running \in BOOLEAN
  /\ joinable \in BOOLEAN
  /\ anim \in {"none", "test", "sleep", "locked", "ended"}
  /\ lock \in {"free", "anim"}

Init ==
  /\ present \in SUBSET Id
  /\ events = 0
  /\ node = [i \in Id |-> NoNode]
  /\ orphans = {}
  /\ scanPc = "wait"
  /\ scanId = NoNode
  /\ ok = TRUE
  /\ proc = "spin"
  /\ line = [i \in Id |-> "none"]
  /\ screen = [i \in Id |-> "none"]
  /\ cursor = TRUE
  /\ initialized = FALSE
  /\ running = FALSE
  /\ joinable = FALSE
  /\ anim = "none"
  /\ lock = "free"

-------------------------------------------------------------------------------
(* Drawing.                                                                *)

(* start_animation_thread_locked().  A thread assigned to a std::thread    *)
(* that is still joinable ends the process.                                *)
StartAnimation ==
  IF running THEN UNCHANGED <<running, joinable, anim, proc>>
  ELSE /\ running' = TRUE
       /\ IF joinable THEN proc' = "aborted" /\ UNCHANGED <<joinable, anim>>
          ELSE /\ joinable' = TRUE
               /\ anim' = "test"
               /\ UNCHANGED proc

(* render_locked() with the device rows given: the first drawing hides the *)
(* cursor and starts the animation.                                        *)
Render(rows) ==
  /\ screen' = rows
  /\ initialized' = TRUE
  /\ IF initialized
     THEN UNCHANGED <<cursor, running, joinable, anim, proc>>
     ELSE cursor' = FALSE /\ StartAnimation

(* set_scanner_line, set_detected_line: no device row changes.             *)
DrawScan ==
  /\ lock = "free"
  /\ Render(line)
  /\ UNCHANGED <<line, lock>>

(* set_node_line; erase_node_line with the text "none".                    *)
SetNodeLine(i, text) ==
  /\ lock = "free"
  /\ line' = [line EXCEPT ![i] = text]
  /\ Render(line')
  /\ UNCHANGED lock

EraseNodeLine(i) == SetNodeLine(i, "none")

(* The animation thread: the condition of its loop, the sleep with the     *)
(* lock that follows it, and the drawing.                                  *)
AnimTests ==
  /\ Alive /\ anim = "test"
  /\ anim' = IF running THEN "sleep" ELSE "ended"
  /\ UNCHANGED <<worldVars, nodeVars, scanVars, mainVars, line, screen, cursor,
                 initialized, running, joinable, lock>>

AnimLocks ==
  /\ Alive /\ anim = "sleep" /\ lock = "free"
  /\ anim' = "locked"
  /\ lock' = "anim"
  /\ UNCHANGED <<worldVars, nodeVars, scanVars, mainVars, line, screen, cursor,
                 initialized, running, joinable>>

(* The dashboard may have been shut down during the sleep: it is not drawn *)
(* again then.                                                             *)
AnimDraws ==
  /\ Alive /\ anim = "locked"
  /\ anim' = "test"
  /\ lock' = "free"
  /\ screen' = IF initialized THEN line ELSE screen
  /\ UNCHANGED <<worldVars, nodeVars, scanVars, mainVars, line, cursor,
                 initialized, running, joinable>>

Animation == AnimTests \/ AnimLocks \/ AnimDraws

-------------------------------------------------------------------------------
(* Devices.                                                                *)

Plug(i) ==
  /\ Alive /\ events < MaxEvents
  /\ present' = IF i \in present THEN present \ {i} ELSE present \cup {i}
  /\ events' = events + 1
  /\ UNCHANGED <<nodeVars, scanVars, mainVars, uiVars>>

(* open(): whether the node is connected.  It may fail for a device that   *)
(* is there, and succeed for one that is plugged in but silent: an event.  *)
Opened(i, up) ==
  \/ up = (i \in present) /\ UNCHANGED events
  \/ up # (i \in present) /\ events < MaxEvents /\ events' = events + 1

-------------------------------------------------------------------------------
(* The callbacks of a node, update() and tx_callback(), from state o of    *)
(* the node to state q.  A callback runs to its end even if the node has   *)
(* been destroyed meanwhile (Hotplug models what else that may lead to).   *)

(* The device is gone, or silent for rx_timeout: fd_ = -1,                 *)
(* connected_ = false, then its line goes.                                 *)
Loses(i, o, q) ==
  /\ o.step = "begun" /\ o.up /\ i \notin present
  /\ q = [o EXCEPT !.up = FALSE, !.step = "drop"]
  /\ UNCHANGED <<events, mainVars, uiVars>>

(* try_open_port: its close_port, and the open() that follows.             *)
Retries(i, o, q) ==
  /\ o.step = "begun" /\ ~o.up
  /\ q = [o EXCEPT !.step = "retry"]
  /\ UNCHANGED <<events, mainVars, uiVars>>

Erases(i, o, q) ==
  /\ o.step \in {"drop", "retry"}
  /\ q = [o EXCEPT !.step = IF o.step = "drop" THEN "report" ELSE "open"]
  /\ EraseNodeLine(i)
  /\ UNCHANGED <<events, ok>>

Opens(i, o, q) ==
  /\ o.step = "open"
  /\ \E up \in BOOLEAN :
       /\ Opened(i, up)
       /\ q = [o EXCEPT !.up = up, !.step = "report"]
  /\ UNCHANGED <<mainVars, uiVars>>

(* The callback returns without a status line: status_log_period has not   *)
(* elapsed, or the bytes read ended within a frame (bridge_node.cpp:208).  *)
Returns(i, o, q) ==
  /\ o.step \in {"begun", "report"}
  /\ q = [o EXCEPT !.step = "idle"]
  /\ UNCHANGED <<events, mainVars, uiVars>>

(* maybe_log_status: the line is composed from connected_ as it is now ... *)
Text(up) == IF up THEN "[ON ]" ELSE "[OFF]"

ComposesIfUp(i, o, q) ==
  /\ o.step \in {"begun", "report"} /\ o.up
  /\ q = [o EXCEPT !.step = Text(o.up)]
  /\ UNCHANGED <<events, mainVars, uiVars>>

Composes(i, o, q) ==
  /\ o.step = "begun" \/ o.step = "report"
  /\ q = [o EXCEPT !.step = Text(o.up)]
  /\ UNCHANGED <<events, mainVars, uiVars>>

(* ... and drawn once the lock is free.                                    *)
Reports(i, o, q) ==
  /\ o.step \in {"[ON ]", "[OFF]"}
  /\ q = [o EXCEPT !.step = "idle"]
  /\ SetNodeLine(i, o.step)
  /\ UNCHANGED <<events, ok>>

CallbackStep(i, o, q) ==
  \/ Loses(i, o, q) \/ Retries(i, o, q) \/ Erases(i, o, q) \/ Opens(i, o, q)
  \/ Returns(i, o, q) \/ Composes(i, o, q) \/ Reports(i, o, q)

(* The node of i is in the executor: it has not been removed from it.      *)
Executing(i) ==
  node[i] # NoNode /\ scanId # i

CallbackBegins(i) ==
  /\ proc = "spin" /\ ok
  /\ Executing(i)
  /\ node[i].step = "idle"
  /\ node' = [node EXCEPT ![i].step = "begun"]
  /\ UNCHANGED <<worldVars, orphans, scanVars, mainVars, uiVars>>

NodeStep(i) ==
  /\ Alive /\ node[i] # NoNode
  /\ \E q \in Node :
       /\ CallbackStep(i, node[i], q)
       /\ node' = [node EXCEPT ![i] = q]
  /\ UNCHANGED <<present, orphans, scanVars>>

(* The step of node i that takes a status line to the dashboard.           *)
StatusComposed(i) ==
  NodeStep(i) /\ node[i].step \in {"begun", "report"}
              /\ node'[i].step \in {"[ON ]", "[OFF]"}

OrphanStep(r) ==
  /\ Alive
  /\ \E q \in Node :
       /\ CallbackStep(r.id, [up |-> r.up, step |-> r.step], q)
       /\ orphans' = (orphans \ {r}) \cup
            (IF q.step = "idle" THEN {}
             ELSE {[id |-> r.id, up |-> q.up, step |-> q.step]})
  /\ UNCHANGED <<present, node, scanVars>>

Executor ==
  \/ \E i \in Id : CallbackBegins(i) \/ NodeStep(i)
  \/ \E r \in orphans : OrphanStep(r)

-------------------------------------------------------------------------------
(* The scanner.                                                            *)

ScanBegins ==
  /\ Alive /\ scanPc = "wait"
  /\ proc = "spin" /\ ok
  /\ scanPc' = "scan"
  /\ UNCHANGED <<worldVars, nodeVars, scanId, mainVars, uiVars>>

(* detect_serial_devices tells what it is doing.                           *)
ScanDraws ==
  /\ Alive /\ scanPc = "scan"
  /\ DrawScan
  /\ UNCHANGED <<worldVars, nodeVars, scanVars, ok>>

(* A device found has no node, or one that is not connected: that is taken *)
(* out of the executor.  rclcpp::Node throws after rclcpp::shutdown().     *)
ScanFinds(i) ==
  /\ Alive /\ scanPc = "scan"
  /\ i \in present
  /\ node[i] # NoNode => ~node[i].up
  /\ IF ok THEN scanPc' = "erase" /\ scanId' = i /\ UNCHANGED proc
     ELSE proc' = "crashed" /\ UNCHANGED scanVars
  /\ UNCHANGED <<worldVars, nodeVars, ok, uiVars>>

(* The constructor's close_port, before it opens the port.                 *)
ScanErases ==
  /\ Alive /\ scanPc = "erase"
  /\ scanPc' = "open"
  /\ EraseNodeLine(scanId)
  /\ UNCHANGED <<worldVars, nodeVars, scanId, ok>>

(* The port is opened and the node takes its place in node_map.            *)
ScanConstructs ==
  /\ Alive /\ scanPc = "open"
  /\ \E up \in BOOLEAN :
       /\ Opened(scanId, up)
       /\ node' = [node EXCEPT ![scanId] = [up |-> up, step |-> "idle"]]
  /\ LET old == node[scanId] IN
       orphans' = orphans \cup
         (IF old = NoNode \/ old.step = "idle" THEN {}
          ELSE {[id |-> scanId, up |-> old.up, step |-> old.step]})
  /\ scanPc' = "scan"
  /\ scanId' = NoNode
  /\ UNCHANGED <<present, mainVars, uiVars>>

ScanEnds ==
  /\ Alive /\ scanPc = "scan"
  /\ scanPc' = "wait"
  /\ UNCHANGED <<worldVars, nodeVars, scanId, mainVars, uiVars>>

ScannerExits ==
  /\ Alive /\ scanPc = "wait"
  /\ ~(proc = "spin" /\ ok)
  /\ scanPc' = "done"
  /\ UNCHANGED <<worldVars, nodeVars, scanId, mainVars, uiVars>>

Scanner ==
  \/ ScanBegins \/ ScanDraws \/ ScanErases \/ ScanConstructs \/ ScanEnds
  \/ ScannerExits
  \/ \E i \in Id : ScanFinds(i)

-------------------------------------------------------------------------------
(* The main thread.                                                        *)

Signal ==
  /\ proc = "spin" /\ ok
  /\ ok' = FALSE
  /\ UNCHANGED <<worldVars, nodeVars, scanVars, proc, uiVars>>

CallbacksEnded ==
  /\ \A i \in Id : node[i] # NoNode => node[i].step = "idle"
  /\ orphans = {}

SpinReturns ==
  /\ proc = "spin" /\ ~ok
  /\ CallbacksEnded
  /\ proc' = "join"
  /\ UNCHANGED <<worldVars, nodeVars, scanVars, ok, uiVars>>

(* scanner.join(), before the dashboard is shut down.                      *)
ScannerJoinedNot ==
  /\ proc = "join"
  /\ proc' = "shutdown"
  /\ UNCHANGED <<worldVars, nodeVars, scanVars, ok, uiVars>>

ScannerJoined ==
  /\ proc = "join" /\ scanPc = "done"
  /\ proc' = "shutdown"
  /\ UNCHANGED <<worldVars, nodeVars, scanVars, ok, uiVars>>

(* shutdown(): what it does under the lock, then join() without it, which  *)
(* the animation thread may be waiting for.                                *)
ShutdownForgetsThread ==
  /\ proc = "shutdown" /\ lock = "free"
  /\ initialized' = FALSE
  /\ cursor' = (cursor \/ initialized)
  /\ proc' = IF joinable THEN "joining" ELSE "exit"
  /\ UNCHANGED <<worldVars, nodeVars, scanVars, ok, line, screen, running,
                 joinable, anim, lock>>

ShutdownStops ==
  /\ proc = "shutdown" /\ lock = "free"
  /\ running' = FALSE
  /\ initialized' = FALSE
  /\ cursor' = (cursor \/ initialized)
  /\ proc' = IF joinable THEN "joining" ELSE "exit"
  /\ UNCHANGED <<worldVars, nodeVars, scanVars, ok, line, screen, joinable, anim,
                 lock>>

ShutdownJoins ==
  /\ proc = "joining" /\ anim = "ended"
  /\ joinable' = FALSE
  /\ anim' = "none"
  /\ proc' = "exit"
  /\ UNCHANGED <<worldVars, nodeVars, scanVars, ok, line, screen, cursor,
                 initialized, running, lock>>

(* main returns; g_anim_thread is destroyed, which ends the process by     *)
(* std::terminate if it is joinable.                                       *)
Exits ==
  /\ proc = "exit"
  /\ proc' = IF joinable THEN "aborted" ELSE "done"
  /\ UNCHANGED <<worldVars, nodeVars, scanVars, ok, uiVars>>

Main ==
  \/ Signal \/ SpinReturns \/ ScannerJoined \/ ShutdownStops \/ ShutdownJoins
  \/ Exits

Terminated == ~Alive /\ UNCHANGED vars

Next ==
  \/ Animation \/ Executor \/ Scanner \/ Main \/ Terminated
  \/ \E i \in Id : Plug(i)

Spec == Init /\ [][Next]_vars

(* Every thread runs.  The lock is free for nearly all of the animation's  *)
(* period, so whoever waits for it gets it; the status period elapses, and *)
(* again and again a read ends between two frames; a scan ends.            *)
Fairness ==
  /\ SF_vars(Animation)
  /\ \A i \in Id :
       /\ SF_vars(CallbackBegins(i) \/ NodeStep(i))
       /\ SF_vars(StatusComposed(i))
  /\ SF_vars(\E r \in orphans : OrphanStep(r))
  /\ SF_vars(ScanErases \/ ScanConstructs \/ ScanEnds \/ ScannerExits)
  /\ SF_vars(Main /\ UNCHANGED ok)

FairSpec == Spec /\ Fairness

-------------------------------------------------------------------------------
(* The process never ends by std::terminate on account of g_anim_thread,   *)
(* assigned over or destroyed while joinable, and once shutdown() has made *)
(* the cursor visible nobody hides it (main.cpp:116-119, the test of       *)
(* initialized in the animation's loop): the user gets his terminal back.  *)
ExitClean ==
  /\ proc # "aborted"
  /\ proc \in {"joining", "exit", "done"} => cursor

(* What makes it inductive: the animation runs from the first drawing to   *)
(* shutdown(), and from there on only main is left.                        *)
AnimationShape ==
  /\ initialized = running
  /\ running => joinable
  /\ joinable <=> anim # "none"
  /\ lock = "anim" <=> anim = "locked"
  /\ cursor # initialized

ScanShape == scanPc \in {"erase", "open"} <=> scanId # NoNode

MainShape ==
  /\ proc \in {"join", "shutdown", "joining", "exit", "done"} =>
       ~ok /\ CallbacksEnded
  /\ proc \in {"shutdown", "joining", "exit", "done"} => scanPc = "done"
  /\ proc \in {"joining", "exit", "done"} => ~initialized
  /\ proc \in {"spin", "join", "shutdown"} => (joinable => running)
  /\ proc \in {"exit", "done"} => ~joinable

IInv == TypeOK /\ AnimationShape /\ ScanShape /\ MainShape /\ ExitClean

(* After SIGINT the process ends: no thread waits for the lock or for the  *)
(* animation for ever (graphical_ui.hpp:457 "join outside the lock").      *)
ShutdownEnds == ~ok ~> ~Alive

(* A device's row tells in the end whether its node is connected, however  *)
(* the late lines of a replaced node's callbacks and the erasing of lines  *)
(* by two threads interleave.  While it is not, the row goes away for a    *)
(* moment with each attempt to open the port.                              *)
RowsTell ==
  \A i \in Id, up \in BOOLEAN :
    <>[](proc = "spin" /\ ok /\ Executing(i) /\ node[i].up = up)
      => /\ []<>(screen[i] = Text(up))
         /\ <>[](screen[i] # Text(~up))
===============================================================================
