------------------------ MODULE TurnLifecycle_proofs ------------------------
(***************************************************************************)
(* Proofs about the turn life cycle, for any number of requests, admins,   *)
(* turns, rounds and tool calls.                                           *)
(*                                                                         *)
(* Nearly every step is one of a run that has the thread.  Lemma Keeps      *)
(* says once what such a step leaves alone; the parts of the invariant     *)
(* then need only exclusivity (OneRunPerThread), which says that no other  *)
(* run has a turn, a row or a transcript to lose.                          *)
(***************************************************************************)
EXTENDS TurnLifecycle, TLAPS

Items == [author : Admins \cup {Nil}, user : BOOLEAN, ended : BOOLEAN,
          completed : BOOLEAN, empty : BOOLEAN,
          failed : {"no", "interrupted", "error"}, resumes : Nat]

Rows == [active : Turns \cup {Nil}, initiator : Admins \cup {Nil},
         holder : Admins \cup {Nil}, fresh : BOOLEAN]

Runs == [pc : {"idle", "checked", "locked", "queued"} \cup Working,
         admin : Admins \cup {Nil}, turn : Turns \cup {Nil}, retry : BOOLEAN,
         raced : BOOLEAN, round : 0..MaxRounds, calls : 0..MaxCalls,
         same : Nat, nudged : BOOLEAN, toolOnly : BOOLEAN,
         cancelled : BOOLEAN, lost : BOOLEAN]

\* A run, and the request to retry, has a turn; a run has an admin too.
HasTurn ==
    \A p \in Slots :
        /\ run[p].retry \/ run[p].pc \in Working \cup {"queued"} => run[p].turn \in Turns
        /\ run[p].pc # "idle" => run[p].admin \in Admins

\* A call is being executed only while calls are left.
Calling == \A p \in Slots : At(p, "exec") => run[p].calls > 0

\* What Floor.Assert saw still holds for a request that nobody overtook.
FloorHeld ==
    /\ \A p \in Slots : run[p].pc \in {"checked", "locked"} /\ ~run[p].raced =>
                           FloorFree(run[p].admin)
    /\ row.holder = Nil => ~row.fresh

IInv == /\ TypeOK /\ HasTurn /\ Calling
        /\ OneRunPerThread /\ RowFollowsRun /\ NoSilentEnd /\ FloorHeld
-----------------------------------------------------------------------------
(* Steps of a run *)

\* Moved keeps the run's admin and turn, and gives it no call.
LEMMA MovedIs ==
    ASSUME TypeOK, NEW p \in Slots, NEW next \in Working
    PROVE  /\ Moved(p, next) \in Runs
           /\ Moved(p, next).pc = next
           /\ Moved(p, next).admin = run[p].admin
           /\ Moved(p, next).turn = run[p].turn
           /\ next \notin {"fail", "clear", "round", "finish"} => Moved(p, next).calls = run[p].calls
           /\ Moved(p, next).retry => run[p].retry
<1>1. run[p] \in Runs
  BY DEF TypeOK, Runs
<1>2. Nil \in Admins \cup {Nil} /\ 0 \in 0..MaxRounds /\ 0 \in 0..MaxCalls /\ Idle \in Runs
  BY RoundsAssumption DEF Idle, Runs
<1>3. CASE next \in {"fail", "clear"}
  <2>1. Moved(p, next) = [Idle EXCEPT !.pc = next, !.admin = run[p].admin, !.turn = run[p].turn]
    BY <1>3 DEF Moved
  <2> QED
    BY <1>1, <1>2, <1>3, <2>1 DEF Idle, Runs
<1>4. CASE next \in {"started", "mark"}
  <2>1. Moved(p, next) = [run[p] EXCEPT !.pc = next, !.retry = FALSE]
    BY <1>4 DEF Moved
  <2> QED
    BY <1>1, <1>4, <2>1 DEF Runs
<1>5. CASE next = "round"
  <2>1. Moved(p, next) = [run[p] EXCEPT !.pc = next, !.calls = 0, !.cancelled = FALSE]
    BY <1>5 DEF Moved
  <2> QED
    BY <1>1, <1>2, <1>5, <2>1 DEF Runs
<1>6. CASE next = "finish"
  <2>1. Moved(p, next) = [run[p] EXCEPT !.pc = next, !.calls = 0, !.cancelled = FALSE,
                                        !.same = 0, !.nudged = FALSE]
    BY <1>6 DEF Moved
  <2>2. ASSUME NEW r \in Runs
        PROVE  [r EXCEPT !.pc = next, !.calls = 0, !.cancelled = FALSE, !.same = 0,
                         !.nudged = FALSE] \in Runs
    BY <1>2 DEF Runs
  <2>3. Moved(p, next) \in Runs
    BY <1>1, <2>1, <2>2
  <2> QED
    BY <1>1, <1>6, <2>1, <2>3 DEF Runs
<1>7. CASE next \notin {"fail", "clear", "started", "mark", "round", "finish"}
  <2>1. Moved(p, next) = [run[p] EXCEPT !.pc = next]
    BY <1>7 DEF Moved
  <2> QED
    BY <1>1, <1>7, <2>1 DEF Runs
<1> QED
  BY <1>3, <1>4, <1>5, <1>6, <1>7

\* An item changes the transcript of its turn only, and ends it when it is a
\* terminal one.
LEMMA AppendedIs ==
    ASSUME TypeOK, NEW t \in Turns, NEW type, NEW code,
           type = "turn.failed" => code \in {"interrupted", "error"}
    PROVE  /\ Appended(t, type, code) \in [Turns -> Items]
           /\ \A u \in Turns : u # t => Appended(t, type, code)[u] = log[u]
           /\ type \in {"turn.completed", "turn.failed"} => Appended(t, type, code)[t].ended
<1>1. log \in [Turns -> Items]
  BY DEF TypeOK, Items
<1> DEFINE end == type \in {"turn.completed", "turn.failed"}
           says == log[t].user \/ type = "user_message"
           resumed == IF type = "turn.resumed" THEN log[t].resumes + 1 ELSE log[t].resumes
           empty == IF type = "agent_message" THEN code = "empty"
                             ELSE IF type = "turn.failed" THEN FALSE ELSE log[t].empty
           completed == IF type = "turn.completed" THEN TRUE
                                 ELSE IF type = "turn.failed" THEN FALSE ELSE log[t].completed
           failed == IF type = "turn.failed" THEN code
                              ELSE IF type = "turn.completed" THEN "no" ELSE log[t].failed
           item == [log[t] EXCEPT !.ended = end, !.user = says, !.resumes = resumed,
                                  !.empty = empty, !.completed = completed, !.failed = failed]
<1>2. Appended(t, type, code) = [log EXCEPT ![t] = item]
  BY DEF Appended
<1>3. /\ end \in BOOLEAN /\ says \in BOOLEAN /\ resumed \in Nat /\ empty \in BOOLEAN
      /\ completed \in BOOLEAN /\ failed \in {"no", "interrupted", "error"}
  <2>1. log[t] \in Items
    BY <1>1
  <2>2. log[t].user \in BOOLEAN /\ log[t].empty \in BOOLEAN /\ log[t].completed \in BOOLEAN
    BY <2>1 DEF Items
  <2>3. end \in BOOLEAN
    OBVIOUS
  <2>4. says \in BOOLEAN
    BY <2>2
  <2>6. empty \in BOOLEAN
    BY <2>2
  <2>7. completed \in BOOLEAN
    BY <2>2
  <2>5. resumed \in Nat /\ failed \in {"no", "interrupted", "error"}
    BY <2>1 DEF Items
  <2> QED
    BY <2>3, <2>4, <2>5, <2>6, <2>7
<1>4. type \in {"turn.completed", "turn.failed"} => end
  OBVIOUS
<1> HIDE DEF end, says, resumed, empty, completed, failed
<1>5. item \in Items /\ item.ended = end
  BY <1>1, <1>3 DEF Items
<1> HIDE DEF item
<1> QED
  BY <1>1, <1>2, <1>4, <1>5

\* A step of run p that has the thread before and after it, and leaves it in m.
Keeps(p, m) ==
    /\ run[p].pc \in Working \ {"release"} /\ m \in Runs /\ m.pc \in Working
    /\ m.admin = run[p].admin /\ m.turn = run[p].turn
    /\ m.pc = "exec" => m.calls > 0
    /\ run' = [run EXCEPT ![p] = m]
    /\ lock' = lock /\ flags' \subseteq Turns
    /\ log' \in [Turns -> Items]
    /\ \A t \in Turns : t # run[p].turn => log'[t] = log[t]
    /\ m.pc \in {"clear", "release"} /\ ~m.lost => log'[run[p].turn].ended
    /\ row' \in Rows /\ row'.holder = row.holder /\ row'.fresh = row.fresh
    /\ m.pc # "release" => row'.active = row.active /\ row'.initiator = row.initiator

\* Such a step keeps the invariant: the other slots have no thread.
LEMMA KeepsIInv ==
    ASSUME IInv, NEW p \in Slots, NEW m, Keeps(p, m)
    PROVE  IInv'
<1>1. /\ run \in [Slots -> Runs] /\ run' \in [Slots -> Runs] /\ run'[p] = m
      /\ \A q \in Slots : q # p => run'[q] = run[q]
  BY DEF Keeps, IInv, TypeOK, Runs
<1>2. HasThread(p) /\ lock = p
  BY DEF Keeps, IInv, OneRunPerThread, HasThread, Working, InRound
<1>3. \A q \in Slots : q # p => run[q].pc \in {"idle", "checked"}
  BY <1>2 DEF IInv, OneRunPerThread, HasThread
<1>4. TypeOK'
  BY <1>1 DEF Keeps, IInv, TypeOK, Items, Rows, Runs
<1>5. HasTurn'
  BY <1>1 DEF Keeps, IInv, HasTurn, Working, InRound
<1>6. Calling'
  BY <1>1, <1>3 DEF Keeps, IInv, Calling, At
<1>7. OneRunPerThread'
  BY <1>1, <1>2, <1>3 DEF Keeps, OneRunPerThread, HasThread
<1>8. RowFollowsRun'
  <2> SUFFICES ASSUME NEW q \in Slots,
                      (run[q].pc \in (Working \cup {"queued"}) \ {"release"})'
               PROVE  (row.active = run[q].turn /\ row.initiator = run[q].admin /\ row.holder = run[q].admin)'
    BY DEF RowFollowsRun
  <2>1. q = p
    BY <1>1, <1>3 DEF Working, InRound
  <2>2. run[p].pc \in (Working \cup {"queued"}) \ {"release"}
    BY DEF Keeps
  <2>3. row.active = run[p].turn /\ row.initiator = run[p].admin /\ row.holder = run[p].admin
    BY <2>2 DEF IInv, RowFollowsRun
  <2> QED
    BY <1>1, <2>1, <2>3 DEF Keeps
<1>9. NoSilentEnd'
  BY <1>1, <1>3 DEF Keeps, IInv, NoSilentEnd
<1>10. FloorHeld'
  BY <1>1 DEF Keeps, IInv, FloorHeld, FloorFree, Working, InRound
<1> QED
  BY <1>4, <1>5, <1>6, <1>7, <1>8, <1>9, <1>10 DEF IInv

\* What Moved brings into Keeps.
LEMMA MovedKeeps ==
    ASSUME IInv, NEW p \in Slots, run[p].pc \in Working \ {"release"},
           NEW next \in Working, next = "exec" => run[p].calls > 0
    PROVE  /\ Moved(p, next) \in Runs /\ Moved(p, next).pc = next
           /\ Moved(p, next).admin = run[p].admin /\ Moved(p, next).turn = run[p].turn
           /\ Moved(p, next).pc = "exec" => Moved(p, next).calls > 0
           /\ run[p].turn \in Turns
BY MovedIs DEF IInv, HasTurn

\* The steps that append nothing and move on, but not to the end of the run.
LEMMA GotoKeeps ==
    ASSUME IInv, NEW p \in Slots, run[p].pc \in Working \ {"release"},
           NEW next \in Working \ {"clear", "release"}, next = "exec" => run[p].calls > 0,
           Goto(p, next), UNCHANGED <<log, lock>>, flags' \subseteq Turns,
           row' \in Rows, row'.holder = row.holder, row'.fresh = row.fresh,
           row'.active = row.active, row'.initiator = row.initiator
    PROVE  IInv'
<1>1. log \in [Turns -> Items]
  BY DEF IInv, TypeOK, Items
<1>2. Keeps(p, Moved(p, next))
  BY <1>1, MovedKeeps DEF Keeps, Goto
<1> QED
  BY <1>2, KeepsIInv

\* The steps that append an item, a terminal one if the run ends with it.
LEMMA ItemKeeps ==
    ASSUME IInv, NEW p \in Slots, run[p].pc \in Working \ {"release"},
           NEW next \in Working \ {"release"}, next = "exec" => run[p].calls > 0,
           NEW type, NEW code, type = "turn.failed" => code \in {"interrupted", "error"},
           next = "clear" => type \in {"turn.completed", "turn.failed"},
           Item(p, type, code, next), UNCHANGED <<row, lock>>, flags' \subseteq Turns
    PROVE  IInv'
<1>1. row \in Rows /\ TypeOK
  BY DEF IInv, TypeOK, Rows
<1>2. run[p].turn \in Turns
  BY DEF IInv, HasTurn
<1>3. /\ log' \in [Turns -> Items]
      /\ \A t \in Turns : t # run[p].turn => log'[t] = log[t]
      /\ type \in {"turn.completed", "turn.failed"} => log'[run[p].turn].ended
  BY <1>1, <1>2, AppendedIs DEF Item
<1>4. Keeps(p, Moved(p, next))
  BY <1>1, <1>3, MovedKeeps DEF Keeps, Item, Goto
<1> QED
  BY <1>4, KeepsIInv

\* The same for the records that the other steps build.
LEMMA MarkActiveStep ==
    ASSUME IInv, NEW p \in Slots, MarkActive(p) PROVE IInv'
<1>1. row.active = run[p].turn /\ row.initiator = run[p].admin /\ row.holder = run[p].admin
  BY DEF IInv, RowFollowsRun, MarkActive, At, Working
<1>2. row \in Rows /\ row' \in Rows /\ row' = row
  <2>1. row \in Rows
    BY DEF IInv, TypeOK, Rows
  <2>2. row' = [row EXCEPT !.active = row.active, !.initiator = row.initiator, !.holder = row.holder]
    BY <1>1 DEF MarkActive
  <2> QED
    BY <2>1, <2>2 DEF Rows
<1>3. PICK next \in {"stub", "round"} : Goto(p, next)
  BY DEF MarkActive
<1> QED
  BY <1>2, <1>3, GotoKeeps DEF MarkActive, At, Working, IInv, TypeOK

LEMMA AnswerStep ==
    ASSUME IInv, NEW p \in Slots, run[p].pc \in Working \ {"release"}, NEW code,
           Answer(p, code), UNCHANGED <<row, lock, flags>>
    PROVE  IInv'
<1> DEFINE m == [Moved(p, "finish") EXCEPT !.toolOnly = FALSE]
<1>1. /\ m \in Runs /\ m.pc = "finish" /\ m.admin = run[p].admin /\ m.turn = run[p].turn
      /\ run[p].turn \in Turns
  <2>1. \A r \in Runs : /\ [r EXCEPT !.toolOnly = FALSE] \in Runs
                        /\ [r EXCEPT !.toolOnly = FALSE].pc = r.pc
                        /\ [r EXCEPT !.toolOnly = FALSE].admin = r.admin
                        /\ [r EXCEPT !.toolOnly = FALSE].turn = r.turn
    BY DEF Runs
  <2> QED
    BY <2>1, MovedKeeps DEF Working
<1>2. /\ log' \in [Turns -> Items]
      /\ \A t \in Turns : t # run[p].turn => log'[t] = log[t]
  BY <1>1, AppendedIs DEF Answer, IInv
<1>3. run' = [run EXCEPT ![p] = m]
  BY DEF Answer
<1>4. row \in Rows /\ flags \subseteq Turns
  BY DEF IInv, TypeOK, Rows
<1> HIDE DEF m
<1>5. Keeps(p, m)
  BY <1>1, <1>2, <1>3, <1>4 DEF Keeps, Working
<1> QED
  BY <1>5, KeepsIInv

\* Steps that change fields of the run's record and nothing that others see.
LEMMA FieldsKeep ==
    ASSUME IInv, NEW p \in Slots, run[p].pc \in Working \ {"release"},
           NEW m \in Runs, m.pc \in Working \ {"clear", "release"},
           m.admin = run[p].admin, m.turn = run[p].turn, m.pc = "exec" => m.calls > 0,
           run' = [run EXCEPT ![p] = m], UNCHANGED <<log, row, lock>>, flags' \subseteq Turns
    PROVE  IInv'
<1>1. log \in [Turns -> Items] /\ row \in Rows
  BY DEF IInv, TypeOK, Items, Rows
<1>2. Keeps(p, m)
  BY <1>1 DEF Keeps
<1> QED
  BY <1>2, KeepsIInv

LEMMA RoundStartsStep ==
    ASSUME IInv, NEW p \in Slots, RoundStarts(p) PROVE IInv'
<1> DEFINE m == [run[p] EXCEPT !.pc = "chat", !.round = @ + 1]
<1>1. run \in [Slots -> Runs] /\ flags \subseteq Turns
  BY DEF IInv, TypeOK, Runs
<1>2. m \in Runs /\ m.pc = "chat" /\ m.admin = run[p].admin /\ m.turn = run[p].turn
  BY <1>1, RoundsAssumption DEF Runs, RoundStarts, Working, InRound
<1>3. run' = [run EXCEPT ![p] = m]
  BY <1>1 DEF RoundStarts, Runs
<1> HIDE DEF m
<1> QED
  BY <1>1, <1>2, <1>3, FieldsKeep DEF RoundStarts, At, Working, InRound

LEMMA PollStep ==
    ASSUME IInv, NEW p \in Slots, Poll(p) PROVE IInv'
<1> DEFINE m == [run[p] EXCEPT !.cancelled = TRUE]
<1>1. run \in [Slots -> Runs] /\ flags' \subseteq Turns
  BY DEF IInv, TypeOK, Runs, Poll
<1>2. /\ m \in Runs /\ m.pc = run[p].pc /\ m.admin = run[p].admin /\ m.turn = run[p].turn
      /\ m.calls = run[p].calls
  BY <1>1 DEF Runs
<1>3. run' = [run EXCEPT ![p] = m]
  BY <1>1 DEF Poll, Runs
<1>4. m.pc = "exec" => m.calls > 0
  BY <1>2 DEF IInv, Calling, At
<1> HIDE DEF m
<1> QED
  BY <1>1, <1>2, <1>3, <1>4, FieldsKeep DEF Poll, Working, InRound

LEMMA ChatNudgeStep ==
    ASSUME IInv, NEW p \in Slots, ChatNudge(p) PROVE IInv'
<1> DEFINE m == [Moved(p, "round") EXCEPT !.nudged = TRUE]
<1>1. run[p].pc \in Working \ {"release"} /\ flags \subseteq Turns
  BY DEF ChatNudge, At, Working, InRound, IInv, TypeOK
<1>2. m \in Runs /\ m.pc = "round" /\ m.admin = run[p].admin /\ m.turn = run[p].turn
  <2>1. \A r \in Runs : /\ [r EXCEPT !.nudged = TRUE] \in Runs
                        /\ [r EXCEPT !.nudged = TRUE].pc = r.pc
                        /\ [r EXCEPT !.nudged = TRUE].admin = r.admin
                        /\ [r EXCEPT !.nudged = TRUE].turn = r.turn
    BY DEF Runs
  <2> QED
    BY <1>1, <2>1, MovedKeeps DEF Working
<1>3. run' = [run EXCEPT ![p] = m]
  BY DEF ChatNudge
<1> HIDE DEF m
<1> QED
  BY <1>1, <1>2, <1>3, FieldsKeep DEF ChatNudge, Working

LEMMA ChatToolsStep ==
    ASSUME IInv, NEW p \in Slots, NEW n \in 1..MaxCalls, ChatTools(p, n) PROVE IInv'
<1>1. run \in [Slots -> Runs] /\ flags \subseteq Turns
  BY DEF IInv, TypeOK, Runs
<1>2. PICK same \in {0, IF run[p].toolOnly THEN run[p].same + 1 ELSE 0} :
         run' = [run EXCEPT ![p].pc = "calls", ![p].calls = n, ![p].toolOnly = TRUE, ![p].same = same]
  BY DEF ChatTools
<1>3. same \in Nat
  BY <1>1, <1>2 DEF Runs
<1> DEFINE m == [run[p] EXCEPT !.pc = "calls", !.calls = n, !.toolOnly = TRUE, !.same = same]
<1>4. m \in Runs /\ m.pc = "calls" /\ m.admin = run[p].admin /\ m.turn = run[p].turn
  <2>1. run[p] \in Runs /\ n \in 0..MaxCalls
    BY <1>1, RoundsAssumption
  <2> QED
    BY <1>3, <2>1 DEF Runs, Working, InRound
<1>5. run' = [run EXCEPT ![p] = m]
  BY <1>1, <1>2 DEF Runs
<1> HIDE DEF m
<1> QED
  BY <1>1, <1>4, <1>5, FieldsKeep DEF ChatTools, At, Working, InRound

LEMMA ToolResultStep ==
    ASSUME IInv, NEW p \in Slots, ToolResult(p) PROVE IInv'
<1> DEFINE m == [run[p] EXCEPT !.pc = "calls", !.calls = @ - 1]
<1>1. /\ run \in [Slots -> Runs] /\ flags \subseteq Turns /\ row \in Rows
      /\ run[p].pc = "exec" /\ run[p].calls > 0 /\ run[p].turn \in Turns
  BY DEF IInv, TypeOK, Runs, Rows, ToolResult, At, Calling, HasTurn, Working, InRound
<1>2. m \in Runs /\ m.pc = "calls" /\ m.admin = run[p].admin /\ m.turn = run[p].turn
  <2>1. run[p] \in Runs
    BY <1>1
  <2>2. run[p].calls - 1 \in 0..MaxCalls
    BY <1>1, <2>1, RoundsAssumption DEF Runs
  <2> QED
    BY <2>1, <2>2 DEF Runs, Working, InRound
<1>3. run' = [run EXCEPT ![p] = m]
  BY <1>1 DEF ToolResult, Runs
<1>4. /\ log' \in [Turns -> Items]
      /\ \A t \in Turns : t # run[p].turn => log'[t] = log[t]
  <2>1. log' = Appended(run[p].turn, "tool_result", "")
    BY DEF ToolResult
  <2>2. TypeOK /\ run[p].turn \in Turns
    BY <1>1 DEF IInv
  <2> HIDE DEF m
  <2> QED
    BY <2>1, <2>2, AppendedIs
<1> HIDE DEF m
<1>5. Keeps(p, m)
  BY <1>1, <1>2, <1>3, <1>4 DEF Keeps, ToolResult, Working, InRound
<1> QED
  BY <1>5, KeepsIInv

LEMMA FailStep ==
    ASSUME IInv, NEW p \in Slots, Fail(p) PROVE IInv'
<1> DEFINE m == [Moved(p, "clear") EXCEPT !.lost = TRUE]
<1>1. run[p].pc \in Working \ {"release"} /\ flags \subseteq Turns /\ UNCHANGED <<row, lock, flags>>
  BY DEF Fail, At, Working, InRound, IInv, TypeOK
<1>2. CASE Item(p, "turn.failed", "error", "clear")
  BY <1>1, <1>2, ItemKeeps DEF Working
<1>3. CASE run' = [run EXCEPT ![p] = m] /\ UNCHANGED log
  <2>1. m \in Runs /\ m.pc = "clear" /\ m.admin = run[p].admin /\ m.turn = run[p].turn /\ m.lost
    <3>1. \A r \in Runs : /\ [r EXCEPT !.lost = TRUE] \in Runs
                          /\ [r EXCEPT !.lost = TRUE].pc = r.pc
                          /\ [r EXCEPT !.lost = TRUE].admin = r.admin
                          /\ [r EXCEPT !.lost = TRUE].turn = r.turn
                          /\ [r EXCEPT !.lost = TRUE].lost
      BY DEF Runs
    <3> QED
      BY <1>1, <3>1, MovedKeeps DEF Working
  <2>2. log \in [Turns -> Items] /\ row \in Rows
    BY DEF IInv, TypeOK, Items, Rows
  <2> HIDE DEF m
  <2>3. Keeps(p, m)
    BY <1>1, <1>3, <2>1, <2>2 DEF Keeps, Working
  <2> QED
    BY <2>3, KeepsIInv
<1> QED
  BY <1>2, <1>3 DEF Fail

LEMMA ClearActiveStep ==
    ASSUME IInv, NEW p \in Slots, ClearActive(p) PROVE IInv'
<1> DEFINE m == [run[p] EXCEPT !.pc = "release"]
<1>1. /\ run \in [Slots -> Runs] /\ row \in Rows /\ log \in [Turns -> Items]
      /\ flags \subseteq Turns /\ run[p].pc = "clear"
  BY DEF IInv, TypeOK, Runs, Rows, Items, ClearActive, At
<1>2. /\ m \in Runs /\ m.pc = "release" /\ m.admin = run[p].admin /\ m.turn = run[p].turn
      /\ m.lost = run[p].lost
  BY <1>1 DEF Runs, Working
<1>3. run' = [run EXCEPT ![p] = m]
  BY <1>1 DEF ClearActive, Runs
<1>4. row' \in Rows /\ row'.holder = row.holder /\ row'.fresh = row.fresh
  BY <1>1 DEF ClearActive, Rows
<1>5. ~m.lost => log[run[p].turn].ended
  BY <1>1, <1>2 DEF IInv, NoSilentEnd
<1> HIDE DEF m
<1>6. Keeps(p, m)
  BY <1>1, <1>2, <1>3, <1>4, <1>5 DEF Keeps, ClearActive, Working
<1> QED
  BY <1>6, KeepsIInv

\* Every step of the run that does not release the thread.
LEMMA WorkStep ==
    ASSUME IInv, NEW p \in Slots, Work(p), ~ReleaseLock(p) PROVE IInv'
<1>1. row \in Rows /\ flags \subseteq Turns
  BY DEF IInv, TypeOK, Rows
<1> USE DEF At, Working, InRound
<1>2. ASSUME NEW next \in Working \ {"clear", "release", "exec"}, Goto(p, next),
             run[p].pc \in Working \ {"release"}, UNCHANGED <<log, row, lock, flags>>
      PROVE  IInv'
  BY <1>1, <1>2, GotoKeeps
<1>3. CASE Begin(p)
  <2>1. CASE run[p].retry
    BY <1>1, <1>3, <2>1, ItemKeeps DEF Begin
  <2>2. CASE ~run[p].retry
    BY <1>1, <1>3, <2>2, ItemKeeps DEF Begin
  <2> QED
    BY <2>1, <2>2
<1>4. CASE ResumeNotFound(p)
  BY <1>1, <1>4, ItemKeeps DEF ResumeNotFound
<1>5. CASE TurnStarted(p)
  BY <1>1, <1>5, ItemKeeps DEF TurnStarted
<1>6. CASE MarkActive(p)
  BY <1>6, MarkActiveStep
<1>7. CASE StubReply(p)
  BY <1>1, <1>7, ItemKeeps DEF StubReply
<1>8. CASE RoundInterrupted(p)
  BY <1>1, <1>8, ItemKeeps DEF RoundInterrupted
<1>9. CASE RoundStarts(p)
  BY <1>9, RoundStartsStep
<1>10. CASE RoundsOver(p)
  BY <1>2, <1>10 DEF RoundsOver
<1>11. CASE Stopped(p)
  BY <1>1, <1>11, ItemKeeps DEF Stopped
<1>12. CASE Fails(p)
  BY <1>2, <1>12 DEF Fails
<1>13. CASE ChatText(p)
  BY <1>13, AnswerStep DEF ChatText
<1>14. CASE ChatNudge(p)
  BY <1>14, ChatNudgeStep
<1>15. CASE ChatEmpty(p)
  BY <1>15, AnswerStep DEF ChatEmpty
<1>16. ASSUME NEW n \in 1..MaxCalls, ChatTools(p, n) PROVE IInv'
  BY <1>16, ChatToolsStep
<1>17. CASE ToolCall(p)
  BY <1>1, <1>17, ItemKeeps DEF ToolCall
<1>18. CASE ToolResult(p)
  BY <1>18, ToolResultStep
<1>19. CASE CallsDone(p)
  BY <1>2, <1>19 DEF CallsDone
<1>20. CASE RepeatedCalls(p)
  BY <1>20, AnswerStep DEF RepeatedCalls
<1>21. CASE MaxRoundsMessage(p)
  BY <1>1, <1>21, ItemKeeps DEF MaxRoundsMessage
<1>22. CASE Complete(p)
  BY <1>1, <1>22, ItemKeeps DEF Complete
<1>23. CASE StoreFails(p)
  BY <1>2, <1>23 DEF StoreFails
<1>24. CASE Fail(p)
  BY <1>24, FailStep
<1>25. CASE ClearActive(p)
  BY <1>25, ClearActiveStep
<1> QED
  BY <1>3, <1>4, <1>5, <1>6, <1>7, <1>8, <1>9, <1>10, <1>11, <1>12, <1>13, <1>14, <1>15, <1>16,
     <1>17, <1>18, <1>19, <1>20, <1>21, <1>22, <1>23, <1>24, <1>25 DEF Work, Round
-----------------------------------------------------------------------------
(* Requests, time and failures *)

LEMMA IdleIs == /\ Idle \in Runs /\ Idle.pc = "idle" /\ ~Idle.retry
BY RoundsAssumption DEF Idle, Runs

\* Only the slot in the lock file has the thread.
LEMMA Exclusive ==
    ASSUME IInv, NEW p \in Slots, HasThread(p)
    PROVE  lock = p /\ \A q \in Slots : q # p => run[q].pc \in {"idle", "checked"}
<1>1. lock = p
  BY DEF IInv, OneRunPerThread
<1>2. \A q \in Slots : q # p => ~HasThread(q)
  BY <1>1 DEF IInv, OneRunPerThread
<1> QED
  BY <1>1, <1>2 DEF HasThread

\* Steps after which a slot has no thread, given up if it had it.
LEMMA OutsideKeeps ==
    ASSUME IInv, NEW p \in Slots, NEW m \in Runs, m.pc \in {"idle", "checked"},
           m.retry => m.turn \in Turns, m.pc = "checked" => m.admin \in Admins,
           m.pc = "checked" /\ ~m.raced => FloorFree(m.admin),
           run' = [run EXCEPT ![p] = m], UNCHANGED <<log, row, flags>>,
           lock' = lock \/ (HasThread(p) /\ lock' = Nil)
    PROVE  IInv'
<1>1. /\ run \in [Slots -> Runs] /\ run' \in [Slots -> Runs] /\ run'[p] = m
      /\ \A q \in Slots : q # p => run'[q] = run[q]
  BY DEF IInv, TypeOK, Runs
<1>2. TypeOK'
  BY <1>1 DEF IInv, TypeOK, Items, Rows, Runs
<1>3. HasTurn'
  BY <1>1 DEF IInv, HasTurn, Working, InRound
<1>4. Calling'
  BY <1>1 DEF IInv, Calling, At
<1>5. OneRunPerThread'
  BY <1>1, Exclusive DEF IInv, OneRunPerThread, HasThread
<1>6. RowFollowsRun'
  BY <1>1 DEF IInv, RowFollowsRun, Working, InRound
<1>7. NoSilentEnd'
  BY <1>1 DEF IInv, NoSilentEnd
<1>8. FloorHeld'
  BY <1>1 DEF IInv, FloorHeld, FloorFree
<1> QED
  BY <1>2, <1>3, <1>4, <1>5, <1>6, <1>7, <1>8 DEF IInv

LEMMA RequestStep ==
    ASSUME IInv, NEW p \in Slots, StartFails(p) \/ ThreadBusy(p) \/ ReleaseLock(p)
    PROVE  IInv'
<1>1. lock' = lock \/ (HasThread(p) /\ lock' = Nil)
  BY DEF StartFails, ThreadBusy, ReleaseLock, HasThread, At, IInv, OneRunPerThread
<1>2. run' = [run EXCEPT ![p] = Idle] /\ UNCHANGED <<log, row, flags>>
  BY DEF StartFails, ThreadBusy, ReleaseLock
<1> QED
  BY <1>1, <1>2, IdleIs, OutsideKeeps

LEMMA StartTurnStep ==
    ASSUME IInv, NEW p \in Slots, NEW a \in Admins, StartTurn(p, a) PROVE IInv'
<1> DEFINE m == [run[p] EXCEPT !.pc = "checked", !.admin = a]
<1>1. run \in [Slots -> Runs]
  BY DEF IInv, TypeOK, Runs
<1>2. /\ m \in Runs /\ m.pc = "checked" /\ m.admin = a /\ m.retry = run[p].retry
      /\ m.turn = run[p].turn
  BY <1>1 DEF Runs
<1>3. run' = [run EXCEPT ![p] = m]
  BY <1>1 DEF StartTurn, Runs
<1>4. m.retry => m.turn \in Turns
  BY <1>2 DEF IInv, HasTurn
<1> HIDE DEF m
<1> QED
  BY <1>2, <1>3, <1>4, OutsideKeeps DEF StartTurn

LEMMA RetryTurnStep ==
    ASSUME IInv, NEW p \in Slots, NEW a \in Admins, NEW t \in Turns, RetryTurn(p, a, t) PROVE IInv'
<1> DEFINE m == [run[p] EXCEPT !.pc = "checked", !.admin = a, !.turn = t, !.retry = TRUE]
<1>1. run \in [Slots -> Runs]
  BY DEF IInv, TypeOK, Runs
<1>2. /\ m \in Runs /\ m.pc = "checked" /\ m.admin = a /\ m.turn = t
  BY <1>1 DEF Runs
<1>3. run' = [run EXCEPT ![p] = m]
  BY <1>1 DEF RetryTurn, Runs
<1> HIDE DEF m
<1> QED
  BY <1>2, <1>3, OutsideKeeps DEF RetryTurn

LEMMA TryAcquireStep ==
    ASSUME IInv, NEW p \in Slots, TryAcquire(p) PROVE IInv'
<1> DEFINE m == [run[p] EXCEPT !.pc = "locked"]
<1>1. run \in [Slots -> Runs]
  BY DEF IInv, TypeOK, Runs
<1>2. /\ m \in Runs /\ m.pc = "locked" /\ m.admin = run[p].admin /\ m.turn = run[p].turn
      /\ m.retry = run[p].retry /\ m.raced = run[p].raced
  BY <1>1 DEF Runs
<1>3. run' = [run EXCEPT ![p] = m]
  BY <1>1 DEF TryAcquire, Runs
<1> HIDE DEF m
<1>4. /\ run' \in [Slots -> Runs] /\ run'[p] = m
      /\ \A q \in Slots : q # p => run'[q] = run[q]
  BY <1>1, <1>2, <1>3
<1>5. \A q \in Slots : run[q].pc \in {"idle", "checked"}
  BY NilAssumption DEF TryAcquire, IInv, OneRunPerThread, HasThread
<1>6. TypeOK'
  BY <1>4 DEF TryAcquire, IInv, TypeOK, Items, Rows, Runs
<1>7. HasTurn'
  BY <1>2, <1>4 DEF TryAcquire, At, IInv, HasTurn, Working, InRound
<1>8. Calling' /\ NoSilentEnd'
  BY <1>2, <1>4, <1>5 DEF Calling, NoSilentEnd, At
<1>9. OneRunPerThread'
  BY <1>4, <1>5 DEF TryAcquire, OneRunPerThread, HasThread
<1>10. RowFollowsRun'
  BY <1>2, <1>4, <1>5 DEF RowFollowsRun, Working, InRound
<1>11. FloorHeld'
  BY <1>2, <1>4 DEF TryAcquire, At, IInv, FloorHeld, FloorFree
<1> QED
  BY <1>6, <1>7, <1>8, <1>9, <1>10, <1>11 DEF IInv

LEMMA EnqueueStep ==
    ASSUME IInv, NEW p \in Slots, Enqueue(p) PROVE IInv'
<1> DEFINE m == [run[p] EXCEPT !.pc = "begin"]
<1>1. run \in [Slots -> Runs]
  BY DEF IInv, TypeOK, Runs
<1>2. m \in Runs /\ m.pc = "begin" /\ m.admin = run[p].admin /\ m.turn = run[p].turn
  BY <1>1 DEF Runs, Working
<1>3. run' = [run EXCEPT ![p] = m]
  BY <1>1 DEF Enqueue, Runs
<1> HIDE DEF m
<1>4. /\ run' \in [Slots -> Runs] /\ run'[p] = m
      /\ \A q \in Slots : q # p => run'[q] = run[q]
  BY <1>1, <1>2, <1>3
<1>5. TypeOK'
  BY <1>4 DEF Enqueue, IInv, TypeOK, Items, Rows, Runs
<1>6. HasTurn'
  BY <1>2, <1>4 DEF Enqueue, At, IInv, HasTurn, Working, InRound
<1>7. Calling' /\ NoSilentEnd'
  BY <1>2, <1>4 DEF Enqueue, IInv, Calling, NoSilentEnd, At
<1>8. OneRunPerThread'
  BY <1>2, <1>4 DEF Enqueue, At, IInv, OneRunPerThread, HasThread
<1>9. RowFollowsRun'
  BY <1>2, <1>4 DEF Enqueue, At, IInv, RowFollowsRun, Working, InRound
<1>10. FloorHeld'
  BY <1>2, <1>4 DEF Enqueue, IInv, FloorHeld, FloorFree
<1> QED
  BY <1>5, <1>6, <1>7, <1>8, <1>9, <1>10 DEF IInv

\* The run that takes the floor is alone, and marks those it overtakes.
LEMMA FloorAcquireStep ==
    ASSUME IInv, NEW p \in Slots, FloorAcquire(p) PROVE IInv'
<1>1. /\ run \in [Slots -> Runs] /\ log \in [Turns -> Items] /\ row \in Rows
      /\ lock \in Slots \cup {Nil} /\ flags \subseteq Turns
  BY DEF IInv, TypeOK, Runs, Items, Rows
<1>2. PICK t \in TurnFor(p) :
         /\ row' = [active |-> t, initiator |-> run[p].admin, holder |-> run[p].admin, fresh |-> TRUE]
         /\ log' = [log EXCEPT ![t].author = run[p].admin]
         /\ run' = [q \in Slots |->
                IF q = p THEN [run[p] EXCEPT !.pc = "queued", !.turn = t, !.raced = FALSE]
                ELSE [run[q] EXCEPT !.raced = @ \/ (run[q].pc = "checked" /\ run[q].admin # run[p].admin)]]
  BY DEF FloorAcquire
<1>3. t \in Turns
  BY DEF TurnFor, IInv, HasTurn
<1>4. lock = p /\ lock' = p /\ flags' = flags /\ \A q \in Slots : q # p => run[q].pc \in {"idle", "checked"}
  BY Exclusive DEF FloorAcquire, At, HasThread
<1>5. run[p].admin \in Admins \cup {Nil} /\ row' \in Rows
  BY <1>1, <1>2, <1>3 DEF Runs, Rows
<1>6. log' \in [Turns -> Items] /\ \A u \in Turns : log'[u].ended = log[u].ended
  BY <1>1, <1>2, <1>3, <1>5 DEF Items
<1>7. /\ run'[p] \in Runs /\ run'[p].pc = "queued" /\ run'[p].turn = t
      /\ run'[p].admin = run[p].admin
  BY <1>1, <1>2, <1>3 DEF Runs
<1>8. ASSUME NEW q \in Slots, q # p
      PROVE  /\ run'[q] \in Runs /\ run'[q].pc = run[q].pc /\ run'[q].turn = run[q].turn
             /\ run'[q].admin = run[q].admin /\ run'[q].retry = run[q].retry
             /\ ~run'[q].raced => ~run[q].raced /\ (run[q].pc = "checked" => run[q].admin = run[p].admin)
  <2> DEFINE overtaken == run[q].raced \/ (run[q].pc = "checked" /\ run[q].admin # run[p].admin)
  <2>1. run'[q] = [run[q] EXCEPT !.raced = overtaken] /\ run[q] \in Runs
    BY <1>1, <1>2, <1>8
  <2>2. run[q].raced \in BOOLEAN
    BY <2>1 DEF Runs
  <2>3. overtaken \in BOOLEAN
    BY <2>2
  <2>4. ~overtaken => ~run[q].raced /\ (run[q].pc = "checked" => run[q].admin = run[p].admin)
    OBVIOUS
  <2> HIDE DEF overtaken
  <2>5. /\ run'[q] \in Runs /\ run'[q].pc = run[q].pc /\ run'[q].turn = run[q].turn
        /\ run'[q].admin = run[q].admin /\ run'[q].retry = run[q].retry
        /\ run'[q].raced = overtaken
    BY <2>1, <2>3 DEF Runs
  <2> QED
    BY <2>4, <2>5
<1>9. run' \in [Slots -> Runs]
  BY <1>2, <1>7, <1>8
<1>10. TypeOK'
  BY <1>1, <1>4, <1>5, <1>6, <1>9 DEF TypeOK, Items, Rows, Runs
<1>11. HasTurn'
  BY <1>3, <1>7, <1>8 DEF FloorAcquire, At, IInv, HasTurn, Working, InRound
<1>12. Calling' /\ NoSilentEnd'
  BY <1>4, <1>7, <1>8 DEF Calling, NoSilentEnd, At
<1>13. OneRunPerThread'
  BY <1>4, <1>7, <1>8 DEF OneRunPerThread, HasThread
<1>14. RowFollowsRun'
  BY <1>2, <1>4, <1>7, <1>8 DEF RowFollowsRun, Working, InRound
<1>15. FloorHeld'
  <2>1. row'.holder = run[p].admin /\ row'.holder # Nil
    BY <1>2, NilAssumption DEF FloorAcquire, At, IInv, HasTurn
  <2> QED
    BY <1>4, <1>7, <1>8, <2>1 DEF FloorHeld, FloorFree
<1> QED
  BY <1>10, <1>11, <1>12, <1>13, <1>14, <1>15 DEF IInv

LEMMA OtherStep ==
    ASSUME IInv, (\E a \in Admins, t \in Turns : InterruptTurn(a, t)) \/ FloorLapses
                 \/ LockExpires \/ Crash \/ UNCHANGED vars
    PROVE  IInv'
<1>1. CASE \E a \in Admins, t \in Turns : InterruptTurn(a, t)
  BY <1>1 DEF InterruptTurn, IInv, TypeOK, HasTurn, Calling, OneRunPerThread, HasThread,
              RowFollowsRun, NoSilentEnd, FloorHeld, FloorFree, At
<1>2. CASE FloorLapses
  <2>1. /\ row \in Rows /\ row' \in Rows /\ ~row'.fresh /\ row'.active = row.active
        /\ row'.initiator = row.initiator /\ row'.holder = row.holder
    BY <1>2 DEF IInv, TypeOK, FloorLapses, Rows
  <2> QED
    BY <1>2, <2>1 DEF FloorLapses, IInv, TypeOK, Rows, HasTurn, Calling, OneRunPerThread, HasThread,
                      RowFollowsRun, NoSilentEnd, FloorHeld, FloorFree, At
<1>3. CASE LockExpires
  <2>1. \A p \in Slots : ~HasThread(p)
    BY <1>3 DEF LockExpires, IInv, OneRunPerThread, HasThread
  <2> QED
    BY <1>3, <2>1 DEF LockExpires, IInv, TypeOK, HasTurn, Calling, OneRunPerThread, HasThread,
                      RowFollowsRun, NoSilentEnd, FloorHeld, FloorFree, At
<1>4. CASE Crash
  <2>1. run' \in [Slots -> Runs] /\ \A p \in Slots : run'[p].pc = "idle" /\ ~run'[p].retry
    BY <1>4, IdleIs DEF Crash
  <2> QED
    BY <1>4, <2>1 DEF Crash, IInv, TypeOK, Runs, HasTurn, Calling, OneRunPerThread, HasThread,
                      RowFollowsRun, NoSilentEnd, FloorHeld, At, Working, InRound
<1>5. CASE UNCHANGED vars
  BY <1>5 DEF vars, IInv, TypeOK, HasTurn, Calling, OneRunPerThread, HasThread,
              RowFollowsRun, NoSilentEnd, FloorHeld, FloorFree, At
<1> QED
  BY <1>1, <1>2, <1>3, <1>4, <1>5

LEMMA InitIInv == Init => IInv
<1> SUFFICES ASSUME Init PROVE IInv
  OBVIOUS
<1>1. run \in [Slots -> Runs] /\ \A p \in Slots : run[p].pc = "idle" /\ ~run[p].retry
  BY IdleIs DEF Init
<1>2. log \in [Turns -> Items] /\ row \in Rows
  BY DEF Init, NewTurn, Items, Rows
<1> QED
  BY <1>1, <1>2 DEF Init, IInv, TypeOK, Items, Rows, Runs, HasTurn, Calling, OneRunPerThread, HasThread,
                    RowFollowsRun, NoSilentEnd, FloorHeld, At, Working, InRound

LEMMA StepIInv == IInv /\ [Next]_vars => IInv'
<1> SUFFICES ASSUME IInv, [Next]_vars PROVE IInv'
  OBVIOUS
<1>1. ASSUME NEW p \in Slots, Request(p) PROVE IInv'
  BY <1>1, StartTurnStep, RetryTurnStep, TryAcquireStep, RequestStep, FloorAcquireStep, EnqueueStep
     DEF Request
<1>2. ASSUME NEW p \in Slots, Work(p) PROVE IInv'
  BY <1>2, WorkStep, RequestStep
<1>3. ASSUME NEW p \in Slots, Poll(p) PROVE IInv'
  BY <1>3, PollStep
<1> QED
  BY <1>1, <1>2, <1>3, OtherStep DEF Next
-----------------------------------------------------------------------------
\* The invariant of requests and runs (StartTurn, RetryTurn, the worker) holds
\* throughout.
THEOREM Inductive == Spec => []IInv
BY InitIInv, StepIInv, PTL DEF Spec

\* The types of transcripts, row, lock, flags and runs are kept by every step.
THEOREM TypeCorrect == Spec => []TypeOK
<1>1. IInv => TypeOK
  BY DEF IInv
<1> QED
  BY <1>1, Inductive, PTL

\* A thread never has two workers, whatever fails or crashes (TryAcquire,
\* Release and the paths between them).
THEOREM Exclusion == Spec => []OneRunPerThread
<1>1. IInv => OneRunPerThread
  BY DEF IInv
<1> QED
  BY <1>1, Inductive, PTL

\* The session row tells of the run that goes on, from Floor.Acquire until its
\* own ClearActiveTurn.
THEOREM RowTrue == Spec => []RowFollowsRun
<1>1. IInv => RowFollowsRun
  BY DEF IInv
<1> QED
  BY <1>1, Inductive, PTL

\* No run lets go of its thread before the turn's last item says how it ended,
\* unless the store refused that item (process, worker.go).
THEOREM NotSilent == Spec => []NoSilentEnd
<1>1. IInv => NoSilentEnd
  BY DEF IInv
<1> QED
  BY <1>1, Inductive, PTL

\* Only a request that was overtaken between Floor.Assert and TryAcquire takes a
\* floor whose time is not up.
THEOREM FloorRespected == Spec => FloorTakenOnlyWhenOvertaken
<1>1. IInv /\ [Next]_vars =>
        [\A p \in Slots : FloorAcquire(p) /\ row.fresh /\ row.holder # run[p].admin => run[p].raced]_vars
  <2> SUFFICES ASSUME IInv, NEW p \in Slots, FloorAcquire(p), row.fresh, row.holder # run[p].admin
               PROVE  run[p].raced
    OBVIOUS
  <2> QED
    BY DEF IInv, FloorHeld, FloorFree, FloorAcquire, At
<1> QED
  BY <1>1, Inductive, PTL DEF Spec, FloorTakenOnlyWhenOvertaken
=============================================================================
