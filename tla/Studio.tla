------------------------------- MODULE Studio -------------------------------
(***************************************************************************)
(* proj/AnprStudio/MainWindow.xaml.cs: the window that edits the camera    *)
(* list, starts and stops the engine, and asks its REST API for the state  *)
(* it shows.  The UI runs on one thread: a handler is one action, up to    *)
(* its first await, and what follows an await is another, which finds the  *)
(* window as it has become in the meantime.  The engine, and .NET's watch  *)
(* over it, run beside it.                                                 *)
(*                                                                         *)
(* A camera's node is who it is (uid, history), its id "cam<n>" (the n),   *)
(* its address, and whose detail boxes were last written into it (from,    *)
(* history).  The boxes are whose node they show, and whether their        *)
(* numbers parse.  One camera's ALPR switch stands for all of them.        *)
(***************************************************************************)
EXTENDS Integers, SequencesExt

CONSTANTS
    Files,        \* bound: the configuration files at the start
    Scans,        \* bound: what anpr --discover may print, sequences of addresses
    Within,       \* the pairs of addresses of which the first is a substring of the second
    NoAddress,    \* the address of a simulation
    MaxCameras,   \* the limit of AddCamera_Click (64)
    MaxNodes,     \* bound: nodes ever made
    MaxRuns,      \* bound: runs of the engine
    Calls         \* bound: calls of the API in flight

(* A camera of the list; ids and addresses are numbered. *)
Node == [uid : Nat, id : Nat, address : Nat, from : Nat]

(* In a file no camera carries the values of another. *)
ASSUME StudioAssumption ==
    /\ MaxCameras \in Nat \ {0}
    /\ {MaxNodes, MaxRuns} \subseteq Nat
    /\ Files \subseteq Seq(Node)
    /\ \A list \in Files : \A k \in DOMAIN list : list[k].from = list[k].uid
    /\ Scans \subseteq Seq(Nat) /\ NoAddress \in Nat

VARIABLES
    file,         \* the camera list on disk; <<>>: the legacy capture block
    config,       \* Cameras(), or <<>>: _config is null
    made,         \* history: the nodes made so far
    selected,     \* _selectedCamera, from 1; 0: none
    boxes,        \* the detail boxes
    discovering,  \* Discover_Click awaits the scan
    window,       \* "open", "closed" or "crashed"
    start,        \* where Start_Click is
    process,      \* _process: the run it holds, or 0
    engine,       \* the engine of every run
    exited,       \* its Exited event
    alpr,         \* its camera's ALPR switch
    calls,        \* the calls in flight
    live          \* _liveAlpr: the switch as shown, and the run it was read from

editVars == <<file, config, made, selected, boxes>>
apiVars == <<alpr, calls, live>>
runVars == <<start, process, engine, exited>>
vars == <<editVars, discovering, window, runVars, apiVars>>

Runs == 1..MaxRuns
NoCall == [kind |-> "none"]
Unknown == [run |-> 0, on |-> FALSE, late |-> FALSE]

Camera(uid, id, address) == [uid |-> uid, id |-> id, address |-> address, from |-> uid]

Init ==
    /\ file \in Files
    /\ config = <<>>
    /\ made = Len(file)
    /\ selected = 0
    /\ boxes = [of |-> 0, numbers |-> TRUE]
    /\ discovering = FALSE
    /\ window = "open"
    /\ start = "idle"
    /\ process = 0
    /\ engine = [r \in Runs |-> "none"]
    /\ exited = [r \in Runs |-> "off"]
    /\ alpr = [r \in Runs |-> TRUE]
    /\ calls = [k \in Calls |-> NoCall]
    /\ live = Unknown

(* The UI thread takes the next event. *)
Idle == window = "open" /\ start = "idle"

-----------------------------------------------------------------------------
(* The camera list.                                                        *)

(* FlushCameraDetail: the boxes go into the selected node. *)
Flushed(list, index) ==
    IF index \in DOMAIN list THEN [list EXCEPT ![index].from = boxes.of] ELSE list

(* Its last field is a number: a text that is none throws, with the other  *)
(* fields written.                                                         *)
FlushThrows == selected \in DOMAIN config /\ ~boxes.numbers

(* LoadCameraDetail *)
Show(list, index) ==
    /\ selected' = index
    /\ boxes' = [of |-> list[index].uid, numbers |-> TRUE]

(* Deviant: clearing the list writes the boxes back. *)
Unsuppressed == selected

(* "Suppress flush during rebuild." *)
Suppressed == 0

(* RefreshCameraList: clearing the list and selecting an item both raise   *)
(* SelectionChanged.                                                       *)
Refresh(list, index) ==
    /\ config' = Flushed(list, Suppressed)
    /\ Show(list, index)

(* TryLoadConfig: EnsureCamerasNode makes a camera of the legacy block; a  *)
(* file that cannot be read leaves no configuration.                       *)
LoadConfig ==
    \/ /\ file # <<>>
       /\ Refresh(file, 1)
       /\ UNCHANGED <<file, made>>
    \/ /\ file = <<>> /\ made < MaxNodes
       /\ Refresh(<<Camera(made + 1, 1, NoAddress)>>, 1)
       /\ made' = made + 1
       /\ UNCHANGED file
    \/ config' = <<>> /\ UNCHANGED <<file, made, selected, boxes>>

(* The user types: the numbers may be none. *)
Edit ==
    /\ selected \in DOMAIN config
    /\ boxes' = [boxes EXCEPT !.numbers = ~@]
    /\ UNCHANGED <<file, config, made, selected>>

(* SaveConfig_Click: whatever throws - the boxes, UiToConfig, the write -  *)
(* is caught, and leaves what was done before.                             *)
SaveConfig ==
    /\ config # <<>>
    /\ LET list == Flushed(config, selected)
           last == Len(config)
       IN  \/ /\ ~FlushThrows
              /\ file' = list
              /\ Refresh(list, IF selected \in 1..last THEN selected ELSE 1)
           \/ config' = list /\ UNCHANGED <<file, selected, boxes>>
    /\ UNCHANGED made

(* CamerasList_SelectionChanged; an exception of the flush is nobody's. *)
SelectCamera ==
    /\ ~FlushThrows
    /\ config' = Flushed(config, selected)
    /\ \E index \in DOMAIN config : index # selected /\ Show(config, index)
    /\ UNCHANGED <<file, made>>

(* AddCamera_Click *)
AddCamera ==
    /\ config # <<>> /\ ~FlushThrows
    /\ LET count == Len(config)
           list == Append(Flushed(config, selected), Camera(made + 1, count + 1, NoAddress))
       IN  /\ count < MaxCameras /\ made < MaxNodes
           /\ Refresh(list, count + 1)
    /\ made' = made + 1
    /\ UNCHANGED file

(* ParseDouble throws in the flush and nobody catches it. *)
Crash ==
    /\ FlushThrows
    /\ window' = "crashed"
    /\ UNCHANGED <<editVars, discovering, runVars, apiVars>>

(* RemoveCamera_Click.  "The node is going away; don't flush into it." *)
RemoveCamera ==
    /\ selected # 0 /\ Len(config) > 1
    /\ Refresh(RemoveAt(config, selected), 1)
    /\ UNCHANGED <<file, made>>

(* A found address is "already configured" when the URL of a camera that   *)
(* was there before contains it.                                           *)
Configured(address) ==
    \E k \in DOMAIN config : config[k].address = address \/ <<address, config[k].address>> \in Within

WithFound(list, address) ==
    IF Configured(address) THEN list
    ELSE Append(list, Camera(made + 1 + Len(list) - Len(config), Len(list) + 1, address))

(* The rest of Discover_Click, when anpr --discover has ended; without     *)
(* cameras, or a configuration, a message.                                 *)
AddFound ==
    \E found \in Scans :
      IF found = <<>> \/ config = <<>> THEN UNCHANGED editVars
      ELSE LET list == FoldLeft(WithFound, config, found) IN
           /\ made' = made + Len(list) - Len(config)
           /\ made' <= MaxNodes
           /\ Refresh(list, 1)
           /\ UNCHANGED file

Discover ==
    \/ config # <<>> /\ ~discovering /\ discovering' = TRUE /\ UNCHANGED editVars
    \/ discovering /\ discovering' = FALSE /\ AddFound

EditStep ==
    /\ Idle
    /\ \/ /\ LoadConfig \/ Edit \/ SaveConfig \/ SelectCamera \/ AddCamera \/ RemoveCamera
          /\ UNCHANGED discovering
       \/ Discover
    /\ UNCHANGED <<window, runVars, apiVars>>

-----------------------------------------------------------------------------
(* The engine's process.                                                   *)

(* Start_Click up to the creation of the process: the window holds it. *)
StartEngine ==
    /\ Idle /\ process = 0
    /\ \E r \in Runs :
         /\ engine[r] = "none" /\ \A q \in 1..(r - 1) : engine[q] # "none"
         /\ process' = r
         /\ engine' = [engine EXCEPT ![r] = "alive"]
    /\ start' = "created"
    /\ UNCHANGED exited

(* Deviant: the process is not watched. *)
Unwatched == "off"

Watched == "armed"

(* EnableRaisingEvents = true; *)
Watch ==
    /\ start = "created" /\ start' = "watched"
    /\ exited' = [exited EXCEPT ![process] = Watched]
    /\ UNCHANGED <<process, engine>>

(* Exited += OnProcessExited, and the rest of Start_Click. *)
Attach ==
    /\ start = "watched" /\ start' = "idle"
    /\ UNCHANGED <<process, engine, exited>>

(* The engine ends by itself: a refused configuration, a video that is     *)
(* over, a crash; or it has been killed.                                   *)
EngineEnds(r) ==
    /\ engine[r] \in {"alive", "dying"}
    /\ engine' = [engine EXCEPT ![r] = "gone"]
    /\ UNCHANGED <<start, process, exited>>

(* .NET raises Exited once, to the handlers there are at that moment. *)
RaiseExited(r) ==
    /\ engine[r] = "gone" /\ exited[r] = "armed"
    /\ exited' = [exited EXCEPT ![r] = IF start = "watched" THEN "lost" ELSE "posted"]
    /\ UNCHANGED <<start, process, engine>>

(* StopProcess kills the process tree.  Where Kill throws, the process is   *)
(* "Already exiting" (line 779), and nothing changes by the call.          *)
Killed(r) == IF engine[r] = "alive" THEN [engine EXCEPT ![r] = "dying"] ELSE engine

(* Deviant: the process is forgotten as soon as it is killed. *)
Forgotten == 0

(* StopProcess leaves _process alone: OnProcessExited clears it. *)
Kept == process

(* StopProcess, by the button ... *)
StopEngine ==
    /\ Idle /\ process # 0
    /\ engine' = Killed(process)
    /\ process' = Kept
    /\ UNCHANGED <<start, exited, window>>

(* ... or by Window_Closing. *)
CloseWindow ==
    /\ Idle
    /\ window' = "closed"
    /\ engine' = IF process = 0 THEN engine ELSE Killed(process)
    /\ UNCHANGED <<start, process, exited>>

RunStep ==
    /\ \/ /\ StartEngine \/ Watch \/ Attach \/ \E r \in Runs : EngineEnds(r) \/ RaiseExited(r)
          /\ UNCHANGED window
       \/ StopEngine \/ CloseWindow
    /\ UNCHANGED <<editVars, discovering, apiVars>>

(* Deviant: the switch stays as it was shown. *)
StillShown == live

NothingShown == Unknown

(* OnProcessExited, on the UI thread. *)
OnProcessExited(r) ==
    /\ Idle /\ exited[r] = "posted"
    /\ exited' = [exited EXCEPT ![r] = "handled"]
    /\ process' = 0
    /\ live' = NothingShown
    /\ calls' = [k \in Calls |->
         IF calls[k].kind = "none" THEN NoCall ELSE [calls[k] EXCEPT !.late = TRUE]]
    /\ UNCHANGED <<editVars, discovering, window, start, engine, alpr>>

-----------------------------------------------------------------------------
(* The REST API.                                                           *)

Request(kind, on) == [kind |-> kind, on |-> on, answer |-> "none", run |-> 0, late |-> FALSE]

(* PollApiAsync, and ToggleCameraAsync for the opposite of what is shown,  *)
(* up to the await.                                                        *)
Send(k) ==
    /\ Idle /\ process # 0 /\ calls[k] = NoCall
    /\ \/ config # <<>> /\ calls' = [calls EXCEPT ![k] = Request("poll", FALSE)]
       \/ calls' = [calls EXCEPT ![k] = Request("toggle", ~live.on)]
    /\ UNCHANGED <<editVars, window, alpr, live>>

(* The engine that listens on the port answers, or nobody does in time. *)
Answer(k) ==
    /\ calls[k].kind # "none" /\ calls[k].answer = "none"
    /\ \/ \E r \in Runs :
            LET on == IF calls[k].kind = "toggle" THEN calls[k].on ELSE alpr[r] IN
            /\ engine[r] \in {"alive", "dying"}
            /\ alpr' = [alpr EXCEPT ![r] = on]
            /\ calls' = [calls EXCEPT ![k].answer = "ok", ![k].on = on, ![k].run = r]
       \/ calls' = [calls EXCEPT ![k].answer = "failed"] /\ UNCHANGED alpr
    /\ UNCHANGED <<editVars, window, live>>

(* Replacing the label of the selected camera may unselect it: the boxes   *)
(* are written back and their exceptions caught.  Without a process or a   *)
(* configuration the handler has thrown before that.                       *)
Relabel ==
    \/ UNCHANGED editVars
    \/ /\ process # 0 /\ config # <<>>
       /\ config' = Flushed(config, selected)
       /\ selected' = IF FlushThrows THEN selected ELSE 0
       /\ UNCHANGED <<file, made, boxes>>

(* What follows the await.  A toggle polls again. *)
Continue(k) ==
    /\ Idle /\ calls[k].kind # "none" /\ calls[k].answer # "none"
    /\ \/ /\ calls[k].answer = "failed"
          /\ calls' = [calls EXCEPT ![k] = NoCall]
          /\ UNCHANGED <<live, editVars>>
       \/ /\ calls[k].answer = "ok"
          /\ live' = [run |-> calls[k].run, on |-> calls[k].on, late |-> calls[k].late]
          /\ \/ calls[k].kind = "poll" /\ calls' = [calls EXCEPT ![k] = NoCall] /\ Relabel
             \/ /\ calls[k].kind = "toggle"
                /\ calls' = [calls EXCEPT ![k] =
                     IF process # 0 /\ config # <<>> THEN Request("poll", FALSE) ELSE NoCall]
                /\ UNCHANGED editVars
    /\ UNCHANGED <<window, alpr>>

ApiStep ==
    /\ \E k \in Calls : Send(k) \/ Answer(k) \/ Continue(k)
    /\ UNCHANGED <<discovering, runVars>>

Next ==
    \/ EditStep
    \/ Idle /\ Crash
    \/ RunStep
    \/ \E r \in Runs : OnProcessExited(r)
    \/ ApiStep

(* The UI thread takes its events; .NET notices the end of a process it    *)
(* watches.  Nothing is assumed of the user, the engine or the network.    *)
Fairness ==
    /\ WF_vars((Watch \/ Attach) /\ RunStep)
    /\ \A r \in Runs : WF_vars(RaiseExited(r) /\ RunStep) /\ WF_vars(OnProcessExited(r))

Spec == Init /\ [][Next]_vars /\ Fairness

-----------------------------------------------------------------------------
(* Properties.                                                             *)

(* The engine never runs out of reach: one that has not been killed is the *)
(* one the open window holds, so that it can be stopped and no second one  *)
(* is started beside it - unless a number that is none brought the window  *)
(* down.                                                                   *)
EngineUnderControl ==
    \A r \in Runs :
      engine[r] = "alive" /\ window # "crashed" => window = "open" /\ process = r

(* The window notices the end of the engine, unless .NET raised Exited     *)
(* before line 757 had attached the handler.                               *)
ExitIsNoticed ==
    \A r \in Runs :
      process = r /\ engine[r] = "gone" ~> process # r \/ exited[r] = "lost" \/ window # "open"

(* What is shown of the engine belongs to the run the window holds, unless *)
(* the answer was on its way when that run's end was handled.              *)
LiveStateOfThisRun == live.run \in {0, process} \/ live.late

(* "Everything else in the file is preserved": whatever is added, removed, *)
(* discovered, reloaded or relabelled, the detail boxes are written into   *)
(* the camera they show, and into no other.                                *)
EditsReachTheirCamera ==
    \A list \in {file, config} : \A k \in DOMAIN list : list[k].from = list[k].uid

(* "Unique key, used in reports and the API." (Config.h:141) *)
IdsUnique ==
    \A j, k \in DOMAIN file : file[j].id = file[k].id => j = k
=============================================================================
