---------------------------- MODULE StudioProofs ----------------------------
(***************************************************************************)
(* Proofs about Studio, for any files, scans, numbers of cameras, runs and *)
(* calls in flight.  The window's two halves have an invariant each: the   *)
(* run it holds with what it shows of it, and the camera list.             *)
(***************************************************************************)
EXTENDS Studio, CommonLemmas

-----------------------------------------------------------------------------
(* The engine's runs.                                                      *)

RunType ==
    /\ window \in {"open", "closed", "crashed"}
    /\ start \in {"idle", "created", "watched"}
    /\ process \in 0..MaxRuns
    /\ engine \in [Runs -> {"none", "alive", "dying", "gone"}]
    /\ exited \in [Runs -> {"off", "armed", "posted", "lost", "handled"}]

(* A run whose end has not been handled is the one the window holds. *)
HeldUntilHandled ==
    \A r \in Runs : engine[r] # "none" /\ exited[r] # "handled" => process = r

(* Exited is raised after the end, and of a run there was. *)
ExitedAfterEnd ==
    \A r \in Runs :
      /\ exited[r] \in {"posted", "lost", "handled"} => engine[r] = "gone"
      /\ engine[r] = "none" => exited[r] = "off"

(* Between the two halves of Start_Click the window waits for nothing. *)
StartHoldsWindow ==
    start # "idle" => /\ window = "open" /\ process \in Runs /\ engine[process] # "none"
                      /\ start = "created" => exited[process] = "off"

(* An answer under way is of the run the window holds, or marked late. *)
AnswersOfThisRun ==
    \A k \in Calls : calls[k].kind # "none" =>
      calls[k].run \in {0, process} \/ calls[k].late

ClosedMeansKilled == window = "closed" => \A r \in Runs : engine[r] # "alive"

RunInv ==
    /\ RunType /\ HeldUntilHandled /\ ExitedAfterEnd /\ StartHoldsWindow /\ ClosedMeansKilled

Call == [kind : {"poll", "toggle"}, on : BOOLEAN, answer : {"none", "ok", "failed"},
         run : 0..MaxRuns, late : BOOLEAN]

CallType ==
    /\ calls \in [Calls -> Call \cup {NoCall}]
    /\ alpr \in [Runs -> BOOLEAN]
    /\ live \in [run : 0..MaxRuns, on : BOOLEAN, late : BOOLEAN]

CallInv == CallType /\ AnswersOfThisRun /\ LiveStateOfThisRun

LEMMA RunInitially == Init => RunInv
<1> SUFFICES ASSUME Init PROVE RunInv
  OBVIOUS
<1>1. MaxRuns \in Nat
  BY StudioAssumption
<1> QED
  BY <1>1 DEF Init, RunInv, RunType, HeldUntilHandled, ExitedAfterEnd, StartHoldsWindow,
              ClosedMeansKilled, Runs

(* What the engine, .NET and the halves of Start_Click do. *)
LEMMA RunStepPreserves == RunInv /\ RunStep => RunInv'
<1> SUFFICES ASSUME RunInv, RunStep PROVE RunInv'
  OBVIOUS
<1> USE DEF RunInv, RunType, HeldUntilHandled, ExitedAfterEnd, StartHoldsWindow, ClosedMeansKilled
<1>0. MaxRuns \in Nat /\ Runs = 1..MaxRuns
  BY StudioAssumption DEF Runs
<1>1. CASE StartEngine /\ UNCHANGED window
  <2>1. PICK r \in Runs : engine[r] = "none" /\ process' = r /\ engine' = [engine EXCEPT ![r] = "alive"]
    BY <1>1 DEF StartEngine
  <2>2. process = 0 /\ window = "open" /\ window' = "open" /\ exited' = exited /\ start' = "created"
    BY <1>1 DEF StartEngine, Idle
  <2>3. \A q \in Runs : engine[q] # "none" => exited[q] = "handled" /\ engine[q] = "gone"
    BY <1>0, <2>2
  <2> QED BY <1>0, <2>1, <2>2, <2>3
<1>2. CASE Watch /\ UNCHANGED window
  <2>1. /\ start = "created" /\ start' = "watched" /\ UNCHANGED <<process, engine, window>>
        /\ exited' = [exited EXCEPT ![process] = "armed"]
    BY <1>2 DEF Watch, Watched
  <2> QED BY <1>0, <2>1
<1>3. CASE Attach /\ UNCHANGED window
  BY <1>0, <1>3 DEF Attach
<1>4. CASE UNCHANGED window /\ \E r \in Runs : EngineEnds(r)
  BY <1>0, <1>4 DEF EngineEnds
<1>5. CASE UNCHANGED window /\ \E r \in Runs : RaiseExited(r)
  BY <1>0, <1>5 DEF RaiseExited
<1>6. CASE StopEngine
  BY <1>0, <1>6 DEF StopEngine, Idle, Killed, Kept
<1>7. CASE CloseWindow
  BY <1>0, <1>7 DEF CloseWindow, Idle, Killed
<1> QED BY <1>1, <1>2, <1>3, <1>4, <1>5, <1>6, <1>7 DEF RunStep

(* The window handles the end of the run it holds. *)
LEMMA ExitedPreserves == RunInv /\ CallInv /\ (\E r \in Runs : OnProcessExited(r)) => RunInv' /\ CallInv'
<1> SUFFICES ASSUME RunInv, CallInv, NEW r \in Runs, OnProcessExited(r) PROVE RunInv' /\ CallInv'
  OBVIOUS
<1>1. /\ exited[r] = "posted" /\ exited' = [exited EXCEPT ![r] = "handled"] /\ process' = 0
      /\ window = "open" /\ start = "idle" /\ UNCHANGED <<window, start, engine>>
      /\ live' = Unknown
      /\ calls' = [k \in Calls |->
           IF calls[k].kind = "none" THEN NoCall ELSE [calls[k] EXCEPT !.late = TRUE]]
  BY DEF OnProcessExited, Idle, NothingShown
<1>2. engine[r] = "gone" /\ process = r
  BY <1>1 DEF RunInv, ExitedAfterEnd, HeldUntilHandled
<1>3. RunInv'
  BY <1>1, <1>2, StudioAssumption
  DEF Runs, RunInv, RunType, HeldUntilHandled, ExitedAfterEnd, StartHoldsWindow, ClosedMeansKilled
<1>4. AnswersOfThisRun'
  <2>1. \A k \in Calls : calls[k].kind # "none" => calls'[k].late
    BY <1>1 DEF CallInv, CallType, NoCall, Call
  <2> QED BY <1>1, <2>1 DEF AnswersOfThisRun, NoCall
<1>5. \A k \in Calls : calls[k].kind # "none" => calls[k] \in Call
  BY DEF CallInv, CallType, NoCall
<1>6. \A k \in Calls : calls'[k] \in Call \cup {NoCall}
  BY <1>1, <1>5 DEF Call
<1>7. LiveStateOfThisRun' /\ CallType'
  <2>1. calls' \in [Calls -> Call \cup {NoCall}]
    BY <1>1, <1>6
  <2>2. alpr' = alpr
    BY DEF OnProcessExited
  <2> QED BY <1>1, <2>1, <2>2, StudioAssumption DEF LiveStateOfThisRun, Unknown, CallInv, CallType
<1> QED BY <1>3, <1>4, <1>7 DEF CallInv

(* Starting an engine is the only other step that changes the run the      *)
(* window holds, and it held none.                                         *)
LEMMA HeldChanges ==
  ASSUME RunInv, RunStep
  PROVE  UNCHANGED <<calls, live>> /\ process \in {0, process'} /\ alpr' = alpr
<1>1. CASE StartEngine
  BY <1>1 DEF RunStep, StartEngine, apiVars
<1>2. CASE ~StartEngine
  BY <1>2 DEF RunStep, apiVars, Watch, Attach, EngineEnds, RaiseExited, StopEngine, Kept, CloseWindow
<1> QED BY <1>1, <1>2

(* What is answered is answered by a run whose end has not been handled. *)
LEMMA ApiPreserves == RunInv /\ CallInv /\ ApiStep => RunInv' /\ CallInv'
<1> SUFFICES ASSUME RunInv, CallInv, NEW k \in Calls, Send(k) \/ Answer(k) \/ Continue(k),
                    UNCHANGED runVars
             PROVE  RunInv' /\ CallInv'
  BY DEF ApiStep
<1>1. window' = window
  BY DEF Send, Answer, Continue
<1>2. RunInv'
  BY <1>1 DEF runVars, RunInv, RunType, HeldUntilHandled, ExitedAfterEnd, StartHoldsWindow,
              ClosedMeansKilled
<1>3. /\ process' = process /\ calls \in [Calls -> Call \cup {NoCall}]
      /\ alpr \in [Runs -> BOOLEAN] /\ live \in [run : 0..MaxRuns, on : BOOLEAN, late : BOOLEAN]
  BY DEF runVars, CallInv, CallType
<1>4. calls[k].kind # "none" => calls[k] \in Call
  BY <1>3 DEF NoCall
<1>5. ASSUME NEW c \in Call \cup {NoCall}, calls' = [calls EXCEPT ![k] = c],
             c.kind # "none" => c.run \in {0, process} \/ c.late
      PROVE  calls' \in [Calls -> Call \cup {NoCall}] /\ AnswersOfThisRun'
  BY <1>3, <1>5 DEF CallInv, AnswersOfThisRun
<1>6. CASE Send(k)
  <2>1. /\ UNCHANGED <<live, alpr>>
        /\ \E kind \in {"poll", "toggle"}, on \in BOOLEAN : calls' = [calls EXCEPT ![k] = Request(kind, on)]
    BY <1>3, <1>6 DEF Send
  <2>2. PICK kind \in {"poll", "toggle"}, on \in BOOLEAN : calls' = [calls EXCEPT ![k] = Request(kind, on)]
    BY <2>1
  <2>3. Request(kind, on) \in Call /\ Request(kind, on).run = 0
    BY StudioAssumption DEF Request, Call
  <2>4. calls' \in [Calls -> Call \cup {NoCall}] /\ AnswersOfThisRun'
    BY <1>5, <2>2, <2>3
  <2> QED
    BY <1>2, <1>3, <2>1, <2>4 DEF CallInv, CallType, LiveStateOfThisRun
<1>7. CASE Answer(k)
  <2>1. live' = live /\ calls[k] \in Call /\ alpr' \in [Runs -> BOOLEAN]
    BY <1>3, <1>4, <1>7 DEF Answer, Call
  <2>2. CASE calls' = [calls EXCEPT ![k].answer = "failed"]
    <3> DEFINE c == [calls[k] EXCEPT !.answer = "failed"]
    <3>1. c \in Call /\ c.run = calls[k].run /\ c.late = calls[k].late /\ calls' = [calls EXCEPT ![k] = c]
      BY <1>3, <2>1, <2>2 DEF Call
    <3>2. c.run \in {0, process} \/ c.late
      BY <1>7, <3>1 DEF Answer, CallInv, AnswersOfThisRun
    <3>3. calls' \in [Calls -> Call \cup {NoCall}] /\ AnswersOfThisRun'
      BY <1>5, <3>1, <3>2
    <3> QED BY <1>2, <1>3, <2>1, <3>3 DEF CallInv, CallType, LiveStateOfThisRun
  <2>3. CASE \E r \in Runs, on \in BOOLEAN :
                /\ engine[r] \in {"alive", "dying"}
                /\ calls' = [calls EXCEPT ![k].answer = "ok", ![k].on = on, ![k].run = r]
    <3>1. PICK r \in Runs, on \in BOOLEAN :
                /\ engine[r] \in {"alive", "dying"}
                /\ calls' = [calls EXCEPT ![k].answer = "ok", ![k].on = on, ![k].run = r]
      BY <2>3
    <3> DEFINE c == [calls[k] EXCEPT !.answer = "ok", !.on = on, !.run = r]
    <3>2. process = r /\ r \in 0..MaxRuns
      BY <3>1, StudioAssumption DEF RunInv, HeldUntilHandled, ExitedAfterEnd, Runs
    <3>3. c \in Call /\ c.run = r /\ calls' = [calls EXCEPT ![k] = c]
      BY <1>3, <2>1, <3>1, <3>2 DEF Call
    <3>4. calls' \in [Calls -> Call \cup {NoCall}] /\ AnswersOfThisRun'
      BY <1>5, <3>2, <3>3
    <3> QED BY <1>2, <1>3, <2>1, <3>4 DEF CallInv, CallType, LiveStateOfThisRun
  <2>4. calls[k].on \in BOOLEAN /\ \A r \in Runs : alpr[r] \in BOOLEAN
    BY <1>3, <2>1 DEF Call
  <2> QED BY <1>7, <2>2, <2>3, <2>4 DEF Answer
<1>8. CASE Continue(k)
  <2>1. calls[k].kind # "none" /\ calls[k] \in Call /\ alpr' = alpr
    BY <1>4, <1>8 DEF Continue
  <2>2. \/ live' = live
        \/ live' = [run |-> calls[k].run, on |-> calls[k].on, late |-> calls[k].late]
    BY <1>8 DEF Continue
  <2>3. PICK c \in {NoCall, Request("poll", FALSE)} : calls' = [calls EXCEPT ![k] = c]
    BY <1>8 DEF Continue
  <2>4. LiveStateOfThisRun' /\ live' \in [run : 0..MaxRuns, on : BOOLEAN, late : BOOLEAN]
    BY <1>3, <2>1, <2>2 DEF CallInv, AnswersOfThisRun, LiveStateOfThisRun, Call
  <2>5. c \in Call \cup {NoCall} /\ (c.kind # "none" => c.run = 0)
    <3>1. NoCall.kind = "none"
      BY DEF NoCall
    <3>2. Request("poll", FALSE) \in Call /\ Request("poll", FALSE).run = 0
      BY StudioAssumption DEF Request, Call
    <3> QED BY <3>1, <3>2
  <2>6. AnswersOfThisRun' /\ calls' \in [Calls -> Call \cup {NoCall}]
    BY <1>5, <2>3, <2>5
  <2> QED BY <1>2, <1>3, <2>1, <2>4, <2>6 DEF CallInv, CallType
<1> QED BY <1>6, <1>7, <1>8

LEMMA RunNext == RunInv /\ CallInv /\ [Next]_vars => RunInv' /\ CallInv'
<1> SUFFICES ASSUME RunInv, CallInv, [Next]_vars PROVE RunInv' /\ CallInv'
  OBVIOUS
<1>1. ASSUME UNCHANGED <<window, runVars, apiVars>> PROVE RunInv' /\ CallInv'
  BY <1>1 DEF runVars, apiVars, RunInv, RunType, HeldUntilHandled, ExitedAfterEnd, StartHoldsWindow,
       ClosedMeansKilled, CallInv, CallType, AnswersOfThisRun, LiveStateOfThisRun
<1>2. CASE Idle /\ Crash
  <2>1. window' = "crashed" /\ start = "idle" /\ UNCHANGED <<runVars, apiVars>>
    BY <1>2 DEF Idle, Crash
  <2> QED
    BY <2>1 DEF runVars, apiVars, RunInv, RunType, HeldUntilHandled, ExitedAfterEnd, StartHoldsWindow,
       ClosedMeansKilled, CallInv, CallType, AnswersOfThisRun, LiveStateOfThisRun
<1>3. CASE RunStep
  <2>1. RunInv'
    BY <1>3, RunStepPreserves
  <2>2. UNCHANGED <<calls, live, alpr>> /\ process \in {0, process'}
    BY <1>3, HeldChanges
  <2> QED BY <2>1, <2>2 DEF CallInv, CallType, AnswersOfThisRun, LiveStateOfThisRun
<1>4. CASE EditStep \/ UNCHANGED vars
  BY <1>1, <1>4 DEF EditStep, vars
<1> QED BY <1>2, <1>3, <1>4, ExitedPreserves, ApiPreserves DEF Next

LEMMA RunInvariance == Spec => [](RunInv /\ CallInv)
<1>1. Init => CallInv
  <2> SUFFICES ASSUME Init PROVE CallInv
    OBVIOUS
  <2>1. calls = [k \in Calls |-> NoCall] /\ live = Unknown /\ alpr \in [Runs -> BOOLEAN]
    BY DEF Init
  <2>2. Unknown \in [run : 0..MaxRuns, on : BOOLEAN, late : BOOLEAN] /\ Unknown.run = 0
    BY StudioAssumption DEF Unknown
  <2> QED BY <2>1, <2>2 DEF CallInv, CallType, AnswersOfThisRun, LiveStateOfThisRun, NoCall
<1> QED BY <1>1, RunInitially, RunNext, PTL DEF Spec

(* An engine that has not been killed is always the one the open window    *)
(* holds, whatever the order in which the user's clicks, the ends of the   *)
(* engines and .NET's events come.                                         *)
THEOREM EngineStaysUnderControl == Spec => []EngineUnderControl
<1>1. RunInv => EngineUnderControl
  BY DEF RunInv, RunType, HeldUntilHandled, ExitedAfterEnd, ClosedMeansKilled, EngineUnderControl
<1> QED BY RunInvariance, <1>1, PTL

(* What is shown of the engine is of the run the window holds, or came     *)
(* late: an answer is never given by a run the window has already let go.  *)
THEOREM LiveStateIsOfThisRun == Spec => []LiveStateOfThisRun
<1>1. CallInv => LiveStateOfThisRun
  BY DEF CallInv
<1> QED BY RunInvariance, <1>1, PTL

-----------------------------------------------------------------------------
(* The camera list.                                                        *)

(* Every camera carries its own values. *)
Clean(list) == list \in Seq(Node) /\ \A k \in DOMAIN list : list[k].from = list[k].uid

EditType ==
    /\ Clean(file) /\ Clean(config)
    /\ made \in Nat /\ selected \in Nat
    /\ boxes \in [of : Nat, numbers : BOOLEAN]

(* The boxes are of the selected camera. *)
BoxesOfSelected == selected \in DOMAIN config => boxes.of = config[selected].uid

(* What is selected of a list is in it. *)
SelectedIsListed == config # <<>> => selected \in 0..Len(config)

EditInv == EditType /\ BoxesOfSelected /\ SelectedIsListed

(* Writing the boxes back changes nothing. *)
LEMMA FlushedIsClean ==
  ASSUME NEW list, Clean(list), NEW index \in Nat, index \in DOMAIN list => boxes.of = list[index].uid
  PROVE  Flushed(list, index) = list
<1>1. CASE index \in DOMAIN list
  <2>1. list[index] \in Node /\ list[index].from = list[index].uid
    BY <1>1 DEF Clean
  <2>2. [list[index] EXCEPT !.from = boxes.of] = list[index]
    BY <1>1, <2>1 DEF Node
  <2>3. Flushed(list, index) = [list EXCEPT ![index] = [list[index] EXCEPT !.from = boxes.of]]
    BY <1>1 DEF Flushed
  <2>4. list = [k \in DOMAIN list |-> list[k]]
    BY DEF Clean
  <2> QED BY <2>2, <2>3, <2>4
<1>2. CASE index \notin DOMAIN list
  BY <1>2 DEF Flushed
<1> QED BY <1>1, <1>2

LEMMA FlushedConfig == EditInv => Flushed(config, selected) = config
  BY FlushedIsClean DEF EditInv, EditType, BoxesOfSelected

(* Showing a camera of a clean list. *)
LEMMA RefreshPreserves ==
  ASSUME EditInv, NEW list, Clean(list), NEW index \in 1..Len(list), Refresh(list, index),
         file' \in {file, list}, made' \in Nat
  PROVE  EditInv'
<1>1. 0 \notin DOMAIN list /\ list[index] \in Node /\ DOMAIN list = 1..Len(list) /\ Len(list) \in Nat
  BY DEF Clean
<1>2. config' = list
  BY <1>1 DEF Refresh, Flushed, Suppressed
<1>3. selected' = index /\ boxes' = [of |-> list[index].uid, numbers |-> TRUE]
  BY DEF Refresh, Show
<1> QED BY <1>1, <1>2, <1>3 DEF EditInv, EditType, Node, BoxesOfSelected, SelectedIsListed

LEMMA AppendClean ==
  ASSUME NEW list, Clean(list), NEW uid \in Nat, NEW id \in Nat, NEW address \in Nat
  PROVE  LET longer == Append(list, Camera(uid, id, address)) IN
         Clean(longer) /\ Len(longer) = Len(list) + 1
<1>1. Camera(uid, id, address) \in Node /\ Camera(uid, id, address).from = Camera(uid, id, address).uid
  BY DEF Camera, Node
<1> QED BY <1>1, AppendProperties DEF Clean

LEMMA RemoveClean ==
  ASSUME NEW list, Clean(list), Len(list) > 1, NEW index \in 1..Len(list)
  PROVE  LET shorter == RemoveAt(list, index) IN Clean(shorter) /\ 1 \in 1..Len(shorter)
<1> DEFINE l == SubSeq(list, 1, index - 1)
           r == SubSeq(list, index + 1, Len(list))
<1>1. /\ list \in Seq(Node) /\ Len(list) \in Nat
      /\ \A k \in 1..Len(list) : list[k].from = list[k].uid
  BY DEF Clean
<1>2. /\ l \in Seq(Node) /\ Len(l) = index - 1
      /\ \A k \in 1..Len(l) : l[k] = list[k]
  BY <1>1, SubSeqProperties
<1>3. /\ r \in Seq(Node) /\ Len(r) = Len(list) - index
      /\ \A k \in 1..Len(r) : r[k] = list[index + k]
  <2>1. index + 1 \in 1..(Len(list) + 1) /\ Len(list) \in 0..Len(list) 
    BY <1>1
  <2> QED BY <1>1, <2>1, SubSeqProperties
<1>4. RemoveAt(list, index) = l \o r
  BY DEF RemoveAt
<1> HIDE DEF l, r
<1>5. /\ l \o r \in Seq(Node) /\ Len(l \o r) = Len(l) + Len(r)
      /\ \A k \in 1..(Len(l) + Len(r)) : (l \o r)[k] = IF k <= Len(l) THEN l[k] ELSE r[k - Len(l)]
  BY <1>2, <1>3, ConcatProperties
<1>6. \A k \in 1..(Len(l) + Len(r)) : (l \o r)[k].from = (l \o r)[k].uid
  <2> TAKE k \in 1..(Len(l) + Len(r))
  <2>1. CASE k <= Len(l)
    <3>1. k \in 1..Len(l) /\ k \in 1..Len(list)
      BY <1>1, <1>2, <1>3, <2>1
    <3>2. (l \o r)[k] = list[k]
      BY <1>2, <1>5, <2>1, <3>1
    <3> QED BY <1>1, <3>1, <3>2
  <2>2. CASE ~(k <= Len(l))
    <3> DEFINE j == k - Len(l)
    <3>1. j \in 1..Len(r) /\ index + j \in 1..Len(list)
      BY <1>1, <1>2, <1>3, <2>2
    <3>2. (l \o r)[k] = r[j]
      BY <1>5, <2>2
    <3> HIDE DEF j
    <3>3. r[j] = list[index + j]
      BY <1>3, <3>1
    <3> QED BY <1>1, <3>1, <3>2, <3>3
  <2> QED BY <2>1, <2>2
<1>7. Clean(l \o r)
  BY <1>1, <1>2, <1>3, <1>5, <1>6, LenProperties DEF Clean
<1>8. 1 \in 1..Len(l \o r)
  BY <1>1, <1>2, <1>3, <1>5
<1> QED BY <1>4, <1>7, <1>8
(* Discovery adds to the list it finds, one camera after the other. *)
LEMMA FoundClean ==
  ASSUME EditInv, NEW found \in Seq(Nat)
  PROVE  LET list == FoldLeft(WithFound, config, found) IN Clean(list) /\ Len(list) >= Len(config)
<1> DEFINE n == Len(found)
           G == {list \in Seq(Node) : Clean(list) /\ Len(list) >= Len(config)}
           step == [p \in (1..n) \X G |-> WithFound(p[2], found[p[1]])]
           Result(h) == h = [s \in SUBSET (1..n) |->
                               IF s = {} THEN config ELSE WithFound(h[s \ {Max(s)}], found[Max(s)])]
<1>1. n \in Nat /\ DOMAIN found = 1..n /\ \A k \in 1..n : found[k] \in Nat
  BY LenProperties
<1>2. config \in G
  BY DEF EditInv, EditType, Clean
<1>3. ASSUME NEW list \in G, NEW k \in 1..n PROVE WithFound(list, found[k]) \in G
  <2>1. made + 1 + Len(list) - Len(config) \in Nat /\ Len(list) + 1 \in Nat
        /\ Clean(list) /\ Len(list) >= Len(config) /\ Len(config) \in Nat
    BY <1>2 DEF EditInv, EditType
  <2> DEFINE longer == Append(list, Camera(made + 1 + Len(list) - Len(config), Len(list) + 1, found[k]))
  <2>2. Clean(longer) /\ Len(longer) = Len(list) + 1
    <3> HIDE DEF n, G
    <3> QED BY <1>1, <2>1, AppendClean
  <2>3. WithFound(list, found[k]) \in {list, longer}
    BY DEF WithFound
  <2>4. longer \in G
    <3> HIDE DEF longer
    <3> QED BY <2>1, <2>2 DEF Clean
  <2> QED BY <2>3, <2>4
<1>4. step \in [(1..n) \X G -> G]
  BY <1>3
<1>5. PICK g : g \in LeftFoldSolutions(n, G, config, step)
  <2> HIDE DEF n, G, step
  <2> QED BY <1>1, <1>2, <1>4, FoldLeftExists
<1>6. \A s \in SUBSET (1..n) :
        g[s] = IF s = {} THEN config ELSE WithFound(g[s \ {Max(s)}], found[Max(s)])
  <2> SUFFICES ASSUME NEW s \in SUBSET (1..n), s # {}
               PROVE  g[s] = WithFound(g[s \ {Max(s)}], found[Max(s)])
    BY <1>5 DEF LeftFoldSolutions
  <2>1. Max(s) = Greatest(s) /\ Greatest(s) \in 1..n
    BY <1>1, GreatestIsElement DEF Max, Greatest
  <2>2. <<Greatest(s), g[s \ {Greatest(s)}]>> \in (1..n) \X G
    BY <1>5, <2>1 DEF LeftFoldSolutions
  <2>3. g[s] = step[<<Greatest(s), g[s \ {Greatest(s)}]>>]
    BY <1>5 DEF LeftFoldSolutions
  <2> QED BY <2>1, <2>2, <2>3
<1>7. Result(g)
  BY <1>5, <1>6 DEF LeftFoldSolutions
<1> DEFINE h == CHOOSE h : Result(h)
<1>8. Result(h)
  BY <1>7
<1>9. FoldLeft(WithFound, config, found) = h[1..n]
  BY <1>1 DEF FoldLeft, MapThenFoldSet
<1> HIDE DEF h
<1>10. h[{}] = config
  BY <1>8
<1>11. ASSUME NEW k \in 1..n PROVE h[1..k] = WithFound(h[1..(k - 1)], found[k])
  <2>1. Max(1..k) = k /\ (1..k) \ {k} = 1..(k - 1) /\ 1..k # {} /\ 1..k \in SUBSET (1..n)
    BY <1>1, GreatestOfPrefix DEF Max, Greatest
  <2> QED BY <1>8, <2>1
<1>12. <<n, h[1..n]>> \in Nat \X G
  <2> DEFINE P == Nat \X G
  <2>1. <<0, h[{}]>> \in P
    BY <1>2, <1>10
  <2>2. \A k \in 1..n : <<k - 1, h[1..(k - 1)]>> \in P => <<k, h[1..k]>> \in P
    BY <1>3, <1>11
  <2> HIDE DEF P, n
  <2>3. <<n, h[1..n]>> \in P
    BY <1>1, <2>1, <2>2, PrefixInduction
  <2> QED BY <2>3 DEF P
<1> QED BY <1>9, <1>12

LEMMA LoadPreserves == EditInv /\ LoadConfig => EditInv'
<1> SUFFICES ASSUME EditInv, LoadConfig PROVE EditInv'
  OBVIOUS
<1>1. CASE file # <<>> /\ Refresh(file, 1) /\ UNCHANGED <<file, made>>
  <2>1. Clean(file) /\ 1 \in 1..Len(file) /\ made \in Nat
    BY <1>1, EmptySeq, LenProperties DEF EditInv, EditType, Clean
  <2> QED BY <1>1, <2>1, RefreshPreserves
<1>2. CASE Refresh(<<Camera(made + 1, 1, NoAddress)>>, 1) /\ made' = made + 1 /\ UNCHANGED file
  <2> DEFINE list == <<Camera(made + 1, 1, NoAddress)>>
  <2>1. made + 1 \in Nat
    BY DEF EditInv, EditType
  <2>2. Clean(list)
    BY <2>1, StudioAssumption DEF Clean, Camera, Node
  <2>3. Len(list) = 1
    OBVIOUS
  <2> HIDE DEF list
  <2>4. Refresh(list, 1)
    BY <1>2 DEF list
  <2> QED BY <1>2, <2>1, <2>2, <2>3, <2>4, RefreshPreserves
<1>3. CASE config' = <<>> /\ UNCHANGED <<file, made, selected, boxes>>
  BY <1>3, EmptySeq DEF EditInv, EditType, Clean, BoxesOfSelected, SelectedIsListed
<1> QED BY <1>1, <1>2, <1>3 DEF LoadConfig

LEMMA SavePreserves == EditInv /\ SaveConfig => EditInv'
<1> SUFFICES ASSUME EditInv, SaveConfig PROVE EditInv'
  OBVIOUS
<1>1. /\ config # <<>> /\ Clean(config) /\ Flushed(config, selected) = config /\ made' = made
      /\ made \in Nat /\ Len(config) \in Nat /\ 1 \in 1..Len(config)
  BY FlushedConfig, EmptySeq, LenProperties DEF SaveConfig, EditInv, EditType, Clean
<1>2. CASE file' = config /\ Refresh(config, IF selected \in 1..Len(config) THEN selected ELSE 1)
  <2> DEFINE index == IF selected \in 1..Len(config) THEN selected ELSE 1
  <2>1. index \in 1..Len(config) /\ Refresh(config, index)
    BY <1>1, <1>2
  <2> HIDE DEF index
  <2> QED BY <1>1, <1>2, <2>1, RefreshPreserves
<1>3. CASE config' = config /\ UNCHANGED <<file, selected, boxes>>
  BY <1>1, <1>3 DEF EditInv, EditType, Clean, BoxesOfSelected, SelectedIsListed
<1> QED BY <1>1, <1>2, <1>3 DEF SaveConfig

LEMMA SelectPreserves == EditInv /\ SelectCamera => EditInv'
<1> SUFFICES ASSUME EditInv, NEW index \in DOMAIN config, Show(config, index),
                    config' = Flushed(config, selected), UNCHANGED <<file, made>>
             PROVE  EditInv'
  BY DEF SelectCamera
<1>1. /\ config' = config /\ config[index] \in Node /\ index \in 1..Len(config)
      /\ Len(config) \in Nat
  BY FlushedConfig, LenProperties DEF EditInv, EditType, Clean
<1>2. selected' = index /\ boxes' = [of |-> config[index].uid, numbers |-> TRUE]
  BY DEF Show
<1> QED BY <1>1, <1>2 DEF EditInv, EditType, Clean, Node, BoxesOfSelected, SelectedIsListed

LEMMA AddPreserves == EditInv /\ AddCamera => EditInv'
<1> SUFFICES ASSUME EditInv, AddCamera PROVE EditInv'
  OBVIOUS
<1> DEFINE list == Append(config, Camera(made + 1, Len(config) + 1, NoAddress))
<1>1. Clean(config) /\ Len(config) + 1 \in Nat /\ made + 1 \in Nat /\ NoAddress \in Nat
  BY LenProperties, StudioAssumption DEF EditInv, EditType, Clean
<1>2. Clean(list) /\ Len(list) = Len(config) + 1
  BY <1>1, AppendClean
<1>3. Refresh(list, Len(config) + 1) /\ made' = made + 1 /\ file' = file
  <2>1. Flushed(config, selected) = config
    BY FlushedConfig
  <2>2. Refresh(Append(Flushed(config, selected), Camera(made + 1, Len(config) + 1, NoAddress)),
                Len(config) + 1) /\ made' = made + 1 /\ file' = file
    BY DEF AddCamera
  <2> QED BY <2>1, <2>2
<1> HIDE DEF list
<1>4. Len(config) + 1 \in 1..Len(list)
  BY <1>2, LenProperties DEF EditInv, EditType, Clean
<1> QED BY <1>1, <1>2, <1>3, <1>4, RefreshPreserves

LEMMA RemovePreserves == EditInv /\ RemoveCamera => EditInv'
<1> SUFFICES ASSUME EditInv, RemoveCamera PROVE EditInv'
  OBVIOUS
<1> DEFINE list == RemoveAt(config, selected)
<1>1. /\ Clean(config) /\ Len(config) \in Nat /\ Len(config) > 1 /\ selected # 0
      /\ made \in Nat /\ UNCHANGED <<file, made>> /\ Refresh(list, 1)
  BY LenProperties DEF EditInv, EditType, Clean, RemoveCamera
<1>2. config # <<>>
  BY <1>1, EmptySeq
<1>3. selected \in 1..Len(config)
  BY <1>1, <1>2 DEF EditInv, SelectedIsListed
<1>4. Clean(list) /\ 1 \in 1..Len(list)
  BY <1>1, <1>3, RemoveClean
<1> HIDE DEF list
<1> QED BY <1>1, <1>4, RefreshPreserves

LEMMA FoundPreserves == EditInv /\ AddFound => EditInv'
<1> SUFFICES ASSUME EditInv, NEW found \in Scans,
                    IF found = <<>> \/ config = <<>> THEN UNCHANGED editVars
                    ELSE LET list == FoldLeft(WithFound, config, found) IN
                         /\ made' = made + Len(list) - Len(config)
                         /\ Refresh(list, 1)
                         /\ UNCHANGED file
             PROVE  EditInv'
  BY DEF AddFound
<1>1. CASE UNCHANGED editVars
  BY <1>1 DEF editVars, EditInv, EditType, Clean, BoxesOfSelected, SelectedIsListed
<1>2. CASE config # <<>> /\ ~UNCHANGED editVars
  <2> DEFINE list == FoldLeft(WithFound, config, found)
  <2>1. /\ made' = made + Len(list) - Len(config) /\ Refresh(list, 1) /\ file' = file
        /\ found \in Seq(Nat)
    BY <1>2, StudioAssumption
  <2>2. Clean(list) /\ Len(list) >= Len(config)
    BY <2>1, FoundClean
  <2> HIDE DEF list
  <2>3. Len(config) \in Nat \ {0} /\ Len(list) \in Nat /\ made \in Nat
    BY <1>2, <2>2, EmptySeq, LenProperties DEF EditInv, EditType, Clean
  <2>4. 1 \in 1..Len(list) /\ made' \in Nat
    BY <2>1, <2>2, <2>3
  <2> QED BY <2>1, <2>2, <2>4, RefreshPreserves
<1>3. CASE config = <<>> /\ ~UNCHANGED editVars
  BY <1>3
<1> QED BY <1>1, <1>2, <1>3

(* Only an answer that relabels touches the camera list. *)
LEMMA RelabelPreserves == EditInv /\ (UNCHANGED editVars \/ Relabel) => EditInv'
<1> SUFFICES ASSUME EditInv, UNCHANGED editVars \/ Relabel PROVE EditInv'
  OBVIOUS
<1>1. CASE UNCHANGED editVars
  BY <1>1 DEF editVars, EditInv, EditType, Clean, BoxesOfSelected, SelectedIsListed
<1>2. CASE /\ config # <<>> /\ config' = Flushed(config, selected)
           /\ selected' \in {selected, 0} /\ UNCHANGED <<file, made, boxes>>
  <2>1. config' = config /\ Len(config) \in Nat /\ DOMAIN config = 1..Len(config)
    BY <1>2, FlushedConfig, LenProperties DEF EditInv, EditType, Clean
  <2> QED BY <1>2, <2>1 DEF EditInv, EditType, Clean, BoxesOfSelected, SelectedIsListed
<1> QED BY <1>1, <1>2 DEF Relabel

LEMMA EditNext == EditInv /\ [Next]_vars => EditInv'
<1> SUFFICES ASSUME EditInv, [Next]_vars PROVE EditInv'
  OBVIOUS
<1>1. CASE EditStep
  <2>1. CASE LoadConfig
    BY <2>1, LoadPreserves
  <2>2. CASE Edit
    BY <2>2 DEF Edit, EditInv, EditType, Clean, BoxesOfSelected, SelectedIsListed
  <2>3. CASE SaveConfig \/ SelectCamera \/ AddCamera \/ RemoveCamera
    BY <2>3, SavePreserves, SelectPreserves, AddPreserves, RemovePreserves
  <2>4. CASE Discover
    BY <2>4, FoundPreserves, RelabelPreserves DEF Discover
  <2> QED BY <1>1, <2>1, <2>2, <2>3, <2>4 DEF EditStep
<1>2. CASE ApiStep
  <2>1. UNCHANGED editVars \/ Relabel
    BY <1>2 DEF ApiStep, Send, Answer, Continue
  <2> QED BY <2>1, RelabelPreserves
<1>3. CASE RunStep \/ (Idle /\ Crash) \/ (\E r \in Runs : OnProcessExited(r)) \/ UNCHANGED vars
  <2>1. UNCHANGED editVars
    BY <1>3 DEF RunStep, Crash, OnProcessExited, vars
  <2> QED BY <2>1, RelabelPreserves
<1> QED BY <1>1, <1>2, <1>3 DEF Next

(* The camera list stays clean. *)
LEMMA EditInvariance == Spec => []EditInv
<1>1. Init => EditInv
  <2> SUFFICES ASSUME Init PROVE EditInv
    OBVIOUS
  <2>1. Clean(file) /\ Len(file) \in Nat
    BY StudioAssumption, LenProperties DEF Init, Clean
  <2>2. Clean(<<>>)
    BY EmptySeq DEF Clean
  <2> QED BY <2>1, <2>2 DEF Init, EditInv, EditType, BoxesOfSelected, SelectedIsListed
<1> QED BY <1>1, EditNext, PTL DEF Spec

(* Every camera in the file and in the window carries its own values: what *)
(* is added, removed, discovered, reloaded or relabelled, the detail boxes *)
(* are written into no other camera than the one they show.                *)
THEOREM EditsStayInTheirCamera == Spec => []EditsReachTheirCamera
<1>1. EditInv => EditsReachTheirCamera
  BY DEF EditInv, EditType, Clean, EditsReachTheirCamera
<1> QED BY <1>1, EditInvariance, PTL

(* The type of every variable: what is shown, run, called and edited. *)
THEOREM WindowTypes == Spec => [](RunType /\ CallType /\ EditType)
<1>1. Spec => []EditInv
  BY EditInvariance
<1>2. RunInv => RunType
  BY DEF RunInv
<1>3. CallInv => CallType
  BY DEF CallInv
<1>4. EditInv => EditType
  BY DEF EditInv
<1> QED BY RunInvariance, <1>1, <1>2, <1>3, <1>4, PTL
=============================================================================
