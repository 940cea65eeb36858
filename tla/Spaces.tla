------------------------------- MODULE Spaces -------------------------------
(***************************************************************************)
(* Computation spaces of the emulator: a tree of boards, each with its own *)
(* threads and constraints, and the detection of stability.  A space is    *)
(* stable when no thread in it or below can run, now or after a constraint *)
(* is told above it.  Each board counts its runnable threads and unstable  *)
(* children (crt), lists the threads that suspend on variables above it    *)
(* (suspList), and keeps what it has told about such variables: on the     *)
(* trail while the board is installed, in its script otherwise.            *)
(*                                                                         *)
(* The emulator is one process: an action is one round of scheduler(), in  *)
(* which a thread gets one thing done before it is preempted, suspends,    *)
(* terminates or fails.  Its state is the record vm, and a handler is an   *)
(* operator from one such record to another.                               *)
(***************************************************************************)
EXTENDS Integers, FiniteSetsExt, Functions

CONSTANTS
    Board,          \* the boards that may be created
    Root,           \* oz_rootBoard()
    MaxThreads,     \* bound on the threads at a time
    Budgets         \* what the programs do at most: see Budget

Budget == [thread: Nat, space: Nat, tell: Nat, wait: Nat, ask: Nat,
           inject: Nat, fail: Nat, merge: Nat, down: Nat, choose: Nat]

ASSUME RootAssumption == Root \in Board
ASSUME ThreadsAssumption == MaxThreads \in Nat
ASSUME BudgetsAssumption == Budgets \subseteq Budget

VARIABLES vm, budget

vars == <<vm, budget>>

Thread == 1..MaxThreads

(* What a thread executes: a program, the skip of a propagate or a waker   *)
(* thread, a failure, or the binding of a variable.                        *)
Task(op, b) == [op |-> op, board |-> b]
Program == Task("any", Root)
Skip == Task("skip", Root)

NoThread == [st |-> "free", board |-> Root, on |-> {}, task |-> Skip]

(* The variables: the root variable of a board, the status of a board,     *)
(* which belongs to its parent, and the choice of a distributor.           *)
Var(kind, b) == [kind |-> kind, board |-> b]

Value == 1..2
NoDistributor == [num |-> 0, var |-> Var("choice", Root)]

(* vm.home is derefBoard, vm.parent is getParent: both follow the boards   *)
(* that are merged.  vm.down records that a space has been merged downward.*)
Init ==
    /\ budget \in Budgets
    /\ vm = [thr |-> [t \in Thread |->
                        IF t = 1 THEN [NoThread EXCEPT !.st = "runnable",
                                                       !.task = Program]
                        ELSE NoThread],
             st |-> [b \in Board |-> IF b = Root THEN "live" ELSE "none"],
             parent |-> [b \in Board |-> Root],
             home |-> [b \in Board |-> b],
             crt |-> [b \in Board |-> 0],
             suspCount |-> [b \in Board |-> 0],
             suspList |-> [b \in Board |-> {}],
             script |-> [b \in Board |-> {}],
             status |-> [b \in Board |-> "open"],
             dist |-> [b \in Board |-> NoDistributor],
             val |-> [b \in Board |-> {}],
             current |-> Root,
             down |-> FALSE]

Spend(k) == budget[k] > 0 /\ budget' = [budget EXCEPT ![k] = @ - 1]

-----------------------------------------------------------------------------
(* The tree of boards.                                                     *)

Up(s, b) ==
    LET up[n \in 0..Cardinality(Board)] ==
            IF n = 0 THEN b ELSE s.parent[up[n - 1]]
    IN  up

Path(s, b) == Range(Up(s, b))

(* The boards from b up to a board above it, without that one.             *)
Below(s, b, above) == Path(s, b) \ Path(s, above)

IsAlive(s, b) == \A c \in Path(s, b) : s.st[c] # "failed"

HomeOf(s, v) == IF v.kind = "status" THEN s.parent[v.board]
                ELSE s.home[v.board]

(* What is known in b of the root variable of v, with b installed.         *)
Known(s, b, v) ==
    LET told == UNION {s.script[x] : x \in Path(s, b)} IN
    s.val[v] \cup {c.val : c \in {d \in told : d.var = v}}

-----------------------------------------------------------------------------
(* Threads and counters.                                                   *)

SuspendedOn(s, v) ==
    {t \in Thread : s.thr[t].st = "suspended" /\ v \in s.thr[t].on}

(* oz_disposeThread.  The lists drop a dead thread when they are next read.*)
DisposeThread(s, t) ==
    [s EXCEPT !.thr[t] = NoThread,
              !.suspList = [b \in Board |-> @[b] \ {t}]]

(* incRunnableThreads: a board counts for its parent from its first thread.*)
IncRunnableThreads(s, b) ==
    [s EXCEPT !.crt =
        [c \in Board |->
            IF /\ c \in Path(s, b) \ {Root}
               /\ \A d \in Below(s, b, c) : s.crt[d] = 0
            THEN @[c] + 1 ELSE @[c]]]

(* _newThread; oz_newThreadInject also makes it runnable.                  *)
NewThread(s, b, st, task, on) ==
    LET t == Min({x \in Thread : s.thr[x].st = "free"}) IN
    [s EXCEPT !.thr[t] = [st |-> st, board |-> b, on |-> on, task |-> task],
              !.suspCount[b] = IF b = Root THEN 0 ELSE @ + 1]

NewThreadInject(s, b, task) ==
    IncRunnableThreads(NewThread(s, b, "runnable", task, {}), b)

(* clearSuspList: threads that run again leave the list, and threads of    *)
(* failed boards below b are disposed of.                                  *)
InFailed(s, b, t) ==
    \E c \in Below(s, s.thr[t].board, b) \cup {b} : s.st[c] = "failed"

ClearSuspList(s, b) ==
    LET list == {t \in s.suspList[b] : s.thr[t].st = "suspended"}
        dead == {t \in list : InFailed(s, b, t)}
    IN  FoldSet(LAMBDA t, x : DisposeThread(x, t),
                [s EXCEPT !.suspList[b] = list], dead)

(* isStable, and its effect on the list.                                   *)
MayBeStable(s, b) ==
    s.crt[b] = 0 /\ ~(s.current = b /\ s.script[b] # {})

Cleared(s, b) == IF MayBeStable(s, b) THEN ClearSuspList(s, b) ELSE s

IsStable(s, b) == MayBeStable(s, b) /\ Cleared(s, b).suspList[b] = {}

(* Faulty variant of DecRunnableThreads: nobody is told.                   *)
DecRunnableSilently(s, b) ==
    [s EXCEPT !.crt =
        [c \in Board |->
            IF /\ c \in Path(s, b) \ {Root}
               /\ \A d \in Below(s, b, c) : s.crt[d] = 1
            THEN @[c] - 1 ELSE @[c]]]

(* decRunnableThreads: a board above that may have become stable gets a    *)
(* thread that finds out.                                                  *)
DecRunnableThreads(s, b) ==
    LET up == Up(s, b)
        dec[n \in 0..(Cardinality(Board) + 1)] ==
            IF n = 0 THEN [vm |-> s, go |-> TRUE]
            ELSE LET x == dec[n - 1].vm
                     c == up[n - 1]
                     y == [x EXCEPT !.crt[c] = @ - 1]
                 IN  IF ~dec[n - 1].go \/ c = Root
                     THEN [vm |-> x, go |-> FALSE]
                     ELSE IF y.crt[c] > 0 THEN [vm |-> y, go |-> FALSE]
                     ELSE [vm |-> IF IsStable(y, c)
                                  THEN NewThreadInject(Cleared(y, c), c, Skip)
                                  ELSE Cleared(y, c),
                           go |-> TRUE]
    IN  dec[Cardinality(Board) + 1].vm

(* oz_wakeupThread: a thread that suspends externally leaves the lists.    *)
WakeupThread(s, t) ==
    LET b == s.thr[t].board
        x == IncRunnableThreads(
                [s EXCEPT !.thr[t].st = "runnable", !.thr[t].on = {}], b)
        listed == \E c \in Board : t \in s.suspList[c]
    IN  FoldSet(LAMBDA c, y : ClearSuspList(y, c), x,
                IF listed THEN Path(s, b) \ {Root} ELSE {})

(* oz_checkSuspensionList for a variable that is bound in the current      *)
(* board: oz_isBetween tells the threads that see the binding, which are   *)
(* those at or below that board, and those of boards that have failed.     *)
Between(s, t) ==
    LET b == s.thr[t].board
        c == s.current
    IN  CASE c \in Path(s, b) /\ \A d \in Below(s, b, c) : s.st[d] # "failed"
               -> "between"
          [] \E d \in Below(s, b, c) : s.st[d] = "failed" -> "dead"
          [] OTHER -> "not_between"

CheckSuspensionList(s, v) ==
    LET L == SuspendedOn(s, v)
        of(w) == {t \in L : Between(s, t) = w}
    IN  FoldSet(LAMBDA t, x : WakeupThread(x, t),
                FoldSet(LAMBDA t, x : DisposeThread(x, t), s, of("dead")),
                of("between"))

(* Faulty variant of AddSusp: only the board of the thread lists it.       *)
AddSuspHere(s, t, v) ==
    [s EXCEPT !.thr[t].on = @ \cup {v},
              !.suspList[s.current] =
                IF s.current = HomeOf(s, v) THEN @ ELSE @ \cup {t}]

(* addSuspSVar and checkExtSuspension: t of the current board suspends on  *)
(* v, and the boards between them list it.                                 *)
AddSusp(s, t, v) ==
    [s EXCEPT !.thr[t].on = @ \cup {v},
              !.suspList =
                [c \in Board |->
                    IF c \in Below(s, s.current, HomeOf(s, v))
                    THEN @[c] \cup {t} ELSE @[c]]]

-----------------------------------------------------------------------------
(* Status, failure and stability of a board.                               *)

BindStatus(s, b, r) ==
    IF s.status[b] # "open" THEN s
    ELSE CheckSuspensionList([s EXCEPT !.status[b] = r], Var("status", b))

(* Board::fail                                                             *)
FailBoard(s, b) ==
    LET p == s.parent[b]
        x == DecRunnableThreads([s EXCEPT !.st[b] = "failed"], p)
    IN  BindStatus([x EXCEPT !.current = p, !.script[b] = {}], b, "failed")

(* Trail::unwind of the current board: a board without runnable threads    *)
(* gets a thread that suspends on the variables it has told about, unless  *)
(* another thread of the board already does.                               *)
Unwind(s) ==
    LET b == s.current
        told == {Var("root", c.var) : c \in s.script[b]}
        watched(v) == \E t \in SuspendedOn(s, v) : s.thr[t].board = b
        on == {v \in told : ~watched(v)}
        t == Min({x \in Thread : s.thr[x].st = "free"})
    IN  IF s.crt[b] > 0 \/ on = {} THEN s
        ELSE FoldSet(LAMBDA v, x : AddSusp(x, t, v),
                     NewThread(s, b, "suspended", Skip, {}), on)

(* Board::checkStability, when a thread of the current board stops.        *)
CheckStability(s0) ==
    LET b == s0.current
        p == s0.parent[b]
        s == [s0 EXCEPT !.crt[b] = @ - 1]
        d == s.dist[b]
        stable == DecRunnableThreads(Cleared(s, b), p)
        left == [stable EXCEPT !.current = p]
        blocked == BindStatus([Unwind(Cleared(s, b)) EXCEPT !.current = p],
                              b, "suspended")
    IN  CASE IsStable(s, b) /\ d.num = 1 ->
               CheckSuspensionList([stable EXCEPT !.dist[b] = NoDistributor],
                                   d.var)
          [] IsStable(s, b) /\ d.num > 1 -> BindStatus(left, b, "alternatives")
          [] IsStable(s, b) /\ d.num = 0 ->
               BindStatus(left, b, IF s.suspCount[b] = 0 THEN "entailed"
                                   ELSE "stuck")
          [] s.crt[b] = 0 /\ ~IsStable(s, b) ->
               DecRunnableThreads([blocked EXCEPT !.status[b] = "open"], p)
          [] OTHER -> [Unwind(Cleared(s, b)) EXCEPT !.current = p]

-----------------------------------------------------------------------------
(* Board::install: leave the boards up to a common one, then enter those   *)
(* down to b, unless the script of one of them fails.                      *)

Leave(s, b) ==
    LET leave[n \in 0..Cardinality(Board)] ==
            IF n = 0 THEN s
            ELSE LET x == leave[n - 1] IN
                 IF x.current \in Path(s, b) THEN x
                 ELSE [Unwind(x) EXCEPT !.current = x.parent[x.current]]
    IN  leave[Cardinality(Board)]

(* The constraints of the script that the boards above do not entail, and  *)
(* whether they contradict one.                                            *)
Above(s, b, v) == Known(s, s.parent[b], v)

InstallScript(s, b) == {c \in s.script[b] : Above(s, b, c.var) = {}}

ScriptFails(s, b) ==
    \E c \in s.script[b] : \E x \in Above(s, b, c.var) : x # c.val

Enter(s, b) ==
    LET up == Up(s, b)
        N == Cardinality(Board)
        enter[n \in 0..(N + 1)] ==
            IF n = 0 THEN s
            ELSE LET x == enter[n - 1]
                     c == up[N + 1 - n]
                 IN  CASE x.parent[c] # x.current \/ c = Root -> x
                       [] x.parent[c] = x.current /\ c # Root ->
                            IF ScriptFails(x, c)
                            THEN FailBoard([x EXCEPT !.current = c], c)
                            ELSE [x EXCEPT !.current = c,
                                           !.script[c] = InstallScript(x, c)]
    IN  enter[N + 1]

Install(s, b) ==
    IF ~IsAlive(s, b) THEN s ELSE Enter(Leave(s, b), b)

-----------------------------------------------------------------------------
(* What ends a round of the scheduler, for the thread t of the current     *)
(* board.                                                                  *)

Suspends(s, t, v, task) ==
    LET x == [AddSusp(s, t, v) EXCEPT !.thr[t].st = "suspended",
                                      !.thr[t].task = task]
    IN  IF s.current = Root THEN x ELSE CheckStability(x)

Terminates(s, t) ==
    LET b == s.current IN
    DisposeThread(IF b = Root THEN s
                  ELSE CheckStability([s EXCEPT !.suspCount[b] = @ - 1]), t)

(* On toplevel a failure is an exception of the thread.                    *)
Fails(s, t) ==
    DisposeThread(IF s.current = Root THEN s ELSE FailBoard(s, s.current), t)

Continues(s, t) == [s EXCEPT !.thr[t].task = Program]

(* oz_unify of the root variable of v with a value, in the current board.  *)
Conflicts(s, v, x) == \E y \in Known(s, s.current, v) : y # x

Bind(s, v, x) ==
    LET y == CheckSuspensionList(s, Var("root", v)) IN
    CASE Known(s, s.current, v) # {} -> s
      [] Known(s, s.current, v) = {} /\ s.home[v] = s.current ->
           [y EXCEPT !.val[v] = {x}]
      [] Known(s, s.current, v) = {} /\ s.home[v] # s.current ->
           [y EXCEPT !.script[s.current] = @ \cup {[var |-> v, val |-> x]}]

(* The state in which t runs: its board is installed, which may fail.      *)
Scheduled(t) ==
    IF vm.thr[t].st = "runnable" THEN {Install(vm, vm.thr[t].board)} ELSE {}

Runs(t) == {s \in Scheduled(t) : s.current = s.thr[t].board}

IsProgram(t) == vm.thr[t].st = "runnable" /\ vm.thr[t].task = Program

InstallFails(t) ==
    /\ \E s \in Scheduled(t) \ Runs(t) : vm' = DisposeThread(s, t)
    /\ UNCHANGED budget

Terminate(t) ==
    /\ vm.thr[t].task \in {Program, Skip}
    /\ \E s \in Runs(t) : vm' = Terminates(s, t)
    /\ UNCHANGED budget

(* A program that fails, and BI_fail, with which a space is killed.        *)
FailThread(t) ==
    /\ \/ IsProgram(t) /\ Spend("fail")
       \/ vm.thr[t].task.op = "fail" /\ UNCHANGED budget
    /\ \E s \in Runs(t) : vm' = Fails(s, t)

(* telleq: a thread that binds the choice of a distributor.                *)
BindChoice(t) ==
    LET task == vm.thr[t].task
        bound(s) == CheckSuspensionList(s, Var("choice", task.board))
    IN
    /\ task.op = "choice"
    /\ \E s \in Runs(t) : vm' = Terminates(bound(s), t)
    /\ UNCHANGED budget

(* bindreadonly: a thread that binds the status of a space that is merged  *)
(* from below.                                                             *)
BindMerged(t) ==
    LET task == vm.thr[t].task IN
    /\ task.op = "status"
    /\ \E s \in Runs(t) :
          vm' = Terminates(BindStatus(s, task.board, "merged"), t)
    /\ UNCHANGED budget

(* The root variables that a thread of the current board can see.          *)
Visible(s) ==
    {v \in Board : s.st[v] # "none" /\ s.home[v] \in Path(s, s.current)}

Tell(t) ==
    /\ IsProgram(t)
    /\ Spend("tell")
    /\ \E s \in Runs(t) : \E v \in Visible(s), x \in Value :
          vm' = IF Conflicts(s, v, x) THEN Fails(s, t) ELSE Bind(s, v, x)

Wait(t) ==
    /\ IsProgram(t)
    /\ Spend("wait")
    /\ \E s \in Runs(t) : \E v \in Visible(s) :
          /\ Known(s, s.current, v) = {}
          /\ vm' = Suspends(s, t, Var("root", v), Program)

(* oz_newThread                                                            *)
Fork(t) ==
    /\ IsProgram(t)
    /\ Spend("thread")
    /\ \E s \in Runs(t) : vm' = NewThreadInject(s, s.current, Program)

-----------------------------------------------------------------------------
(* The operations on spaces.  A thread sees the spaces that are created in *)
(* the boards above its own.                                               *)

IsAdmissible(s, b) == b \notin Path(s, s.current)

Admissible(s) ==
    {b \in Board : /\ s.st[b] # "none" /\ IsAdmissible(s, b)
                   /\ s.parent[b] \in Path(s, s.current)}

(* BInewSpace                                                              *)
NewSpace(t) ==
    /\ IsProgram(t)
    /\ Spend("space")
    /\ \E c \in Board : vm.st[c] = "none"
    /\ \E s \in Runs(t) :
          LET b == CHOOSE b \in Board : s.st[b] = "none" IN
          vm' = NewThreadInject([s EXCEPT !.st[b] = "live",
                                          !.parent[b] = s.current], b, Program)

(* BIaskSpace: the thread suspends until the status is bound, and asks     *)
(* again when it is woken.                                                 *)
Answer(s, t, b) ==
    IF s.st[b] = "live" /\ s.status[b] = "open"
    THEN Suspends(s, t, Var("status", b), Task("ask", b))
    ELSE Continues(s, t)

Ask(t) ==
    /\ IsProgram(t)
    /\ Spend("ask")
    /\ \E s \in Runs(t) : \E b \in Admissible(s) : vm' = Answer(s, t, b)

AskAgain(t) ==
    LET task == vm.thr[t].task IN
    /\ task.op = "ask"
    /\ \E s \in Runs(t) : vm' = IF IsAdmissible(s, task.board)
                                THEN Answer(s, t, task.board) ELSE Fails(s, t)
    /\ UNCHANGED budget

ClearStatus(s, b) == [s EXCEPT !.status[b] = "open"]

(* BIinjectSpace, BIkillSpace                                              *)
InjectSpace(t) ==
    /\ IsProgram(t)
    /\ Spend("inject")
    /\ \E s \in Runs(t) : \E b \in Admissible(s) :
          /\ s.st[b] = "live"
          /\ \E task \in {Program, Task("fail", b)} :
                vm' = NewThreadInject(ClearStatus(s, b), b, task)

(* BIchooseSpace, BIwaitStableSpace (n = 1)                                *)
ChooseSpace(t) ==
    /\ IsProgram(t)
    /\ Spend("choose")
    /\ \E s \in Runs(t) :
          LET b == s.current
              v == Var("choice", b)
          IN  /\ b # Root
              /\ s.dist[b] = NoDistributor
              /\ \E n \in 1..2 :
                    vm' = Suspends([s EXCEPT !.dist[b] =
                                        [num |-> n, var |-> v]], t, v, Program)

(* BIcommit1Space, Board::commit, BaseDistributor::commit                  *)
CommitSpace(t) ==
    /\ IsProgram(t)
    /\ \E s \in Runs(t) : \E b \in Admissible(s) :
          /\ s.st[b] = "live"
          /\ s.status[b] # "open"
          /\ s.dist[b].num > 1
          /\ vm' = ClearStatus(
                     NewThreadInject([s EXCEPT !.dist[b] = NoDistributor], b,
                                     Task("choice", s.dist[b].var.board)), b)
    /\ UNCHANGED budget

(* setCommitted: what belonged to b belongs to the current board.          *)
SetCommitted(s, b) ==
    LET into(c) == IF c = b THEN s.current ELSE c IN
    [s EXCEPT !.st[b] = "merged",
              !.home = [c \in Board |-> into(@[c])],
              !.parent = [c \in Board |-> into(@[c])],
              !.thr = [t \in Thread |-> [@[t] EXCEPT !.board = into(@)]],
              !.suspCount[s.current] =
                IF s.current = Root THEN 0 ELSE @ + s.suspCount[b]]

(* Faulty variant of TellScript: as when a board is installed, without     *)
(* wake-ups.                                                               *)
TellScriptIgnoreWakeUp(s, b, told) ==
    [s EXCEPT !.script[b] = {},
              !.script[s.current] =
                @ \cup {c \in told : s.home[c.var] # s.current},
              !.val = [v \in Board |->
                IF s.home[v] # s.current THEN @[v]
                ELSE @[v] \cup {c.val : c \in {d \in told : d.var = v}}]]

(* installScript(OK): the constraints of b are told in the current board,  *)
(* until one of them fails.                                                *)
TellScript(s, b, told) ==
    FoldSet(LAMBDA c, x : Bind(x, c.var, c.val),
            [s EXCEPT !.script[b] = {}], told)

Consistent(s, b) ==
    {c \in s.script[b] : ~Conflicts(s, c.var, c.val)}

(* Faulty variant of MergeRunnable: the merged board still counts for one. *)
MergeRunnableAll(s, b) ==
    IF s.current = Root THEN s.crt
    ELSE [s.crt EXCEPT ![s.current] = @ + s.crt[b]]

(* Board::merge: the counters of b, and its distributor.  The boards down  *)
(* to which b is merged list the threads that suspend on variables above.  *)
MergeRunnable(s, b) ==
    LET dst == s.current
        up == s.parent[b]
        n == s.crt[b]
    IN  CASE dst = Root \/ n = 0 -> s.crt
          [] dst # Root /\ n > 0 /\ dst = up ->
               [s.crt EXCEPT ![dst] = @ + n - 1]
          [] dst # Root /\ n > 0 /\ dst # up ->
               [s.crt EXCEPT ![dst] = @ + n,
                             ![up] = IF up = Root THEN 0 ELSE @ - 1]

MergeSuspended(s, b) ==
    LET dst == s.current
        x == ClearSuspList(s, dst)
    IN  [x EXCEPT !.suspList =
            [c \in Board |-> IF c \in Below(s, dst, s.parent[b])
                             THEN @[c] \cup @[dst] ELSE @[c]]]

Merge(s, b, told) ==
    LET dst == s.current
        x == TellScript(SetCommitted(s, b), b, told)
        y == [x EXCEPT !.crt = MergeRunnable(x, b),
                       !.dist[dst] = IF dst # Root /\ s.dist[b].num > 0
                                     THEN s.dist[b] ELSE @]
    IN  IF dst = Root \/ dst = s.parent[b] THEN y ELSE MergeSuspended(y, b)

(* BImergeSpace: b is merged upward into its parent, or downward into a    *)
(* board below its parent.  The thread fails if the constraints conflict.  *)
Merged(s, t, b) ==
    IF s.script[b] = Consistent(s, b) THEN {Merge(s, b, s.script[b])}
    ELSE {Fails(Merge(s, b, told), t) : told \in SUBSET Consistent(s, b)}

Mergeable(s) ==
    {b \in Admissible(s) : /\ s.st[b] = "live"
                           /\ 0 \in {s.dist[b].num, s.dist[s.current].num}}

(* Whoever merges a space that has failed fails.                           *)
MergeFailed(t) ==
    /\ IsProgram(t)
    /\ \E b \in {"merge", "down"} : Spend(b)
    /\ \E s \in Runs(t) :
          /\ \E b \in Admissible(s) : s.st[b] = "failed"
          /\ vm' = Fails(s, t)

MergeUpward(t) ==
    /\ IsProgram(t)
    /\ Spend("merge")
    /\ \E s \in Runs(t) : \E b \in Mergeable(s) :
          /\ s.parent[b] = s.current
          /\ vm' \in Merged(BindStatus(s, b, "merged"), t, b)

MergeDownward(t) ==
    /\ IsProgram(t)
    /\ Spend("down")
    /\ \E s \in Runs(t) : \E b \in Mergeable(s) :
          LET x == IF s.status[b] # "open" THEN s
                   ELSE NewThreadInject(s, s.parent[b], Task("status", b))
          IN  /\ s.parent[b] # s.current
              /\ vm' \in Merged([x EXCEPT !.down = TRUE], t, b)

-----------------------------------------------------------------------------
(* The scheduler picks any runnable thread: threads have priorities and    *)
(* are preempted at any time.                                              *)
Next ==
    \E t \in Thread :
        \/ InstallFails(t) \/ Terminate(t) \/ FailThread(t)
        \/ BindChoice(t) \/ BindMerged(t)
        \/ Tell(t) \/ Wait(t) \/ Fork(t)
        \/ NewSpace(t) \/ Ask(t) \/ AskAgain(t) \/ InjectSpace(t)
        \/ ChooseSpace(t) \/ CommitSpace(t)
        \/ MergeFailed(t) \/ MergeUpward(t) \/ MergeDownward(t)

Spec == Init /\ [][Next]_vars

-----------------------------------------------------------------------------
(* Properties                                                              *)

(* The spaces whose status means something: live, with no failed space     *)
(* above.                                                                  *)
Alive == {b \in Board \ {Root} : vm.st[b] = "live" /\ IsAlive(vm, b)}

(* The threads of b and of the spaces below it that have not failed.       *)
In(b) == {t \in Thread : /\ vm.thr[t].st # "free"
                         /\ b \in Path(vm, vm.thr[t].board)
                         /\ IsAlive(vm, vm.thr[t].board)}

(* Board::crt counts exactly the runnable threads of a space and its       *)
(* children that can still run, through failures, wake-ups, merges and     *)
(* wakers in any order: with one too few the space is taken for stable     *)
(* while it runs, with one too many it is never stable.                    *)
CrtExact ==
    \A b \in Alive :
        vm.crt[b] =
            Cardinality({t \in Thread : /\ vm.thr[t].board = b
                                        /\ vm.thr[t].st = "runnable"})
          + Cardinality({c \in Alive : vm.parent[c] = b /\ vm.crt[c] > 0})

(* No runnable thread, nothing told about a variable above that the boards *)
(* above do not entail, and no thread that a binding above could wake.     *)
Stable(b) ==
    /\ \A t \in In(b) : vm.thr[t].st = "suspended"
    /\ \A c \in vm.script[b] : c.val \in Above(vm, b, c.var)
    /\ \A t \in In(b) : \A v \in vm.thr[t].on : b \in Path(vm, HomeOf(vm, v))

Answers == {"entailed", "stuck", "alternatives"}

(* Space.ask says that a space is stable only if nothing in it can run now *)
(* or after a binding outside, and entailed only if no thread is left.     *)
StatusSound ==
    \A b \in Alive :
        vm.status[b] \in Answers =>
            /\ Stable(b)
            /\ vm.status[b] = "entailed" <=>
                 /\ vm.dist[b].num = 0
                 /\ ~ \E t \in Thread : /\ vm.thr[t].st # "free"
                                        /\ vm.thr[t].board = b

(* As long as no space has been merged downward, the lists and counters    *)
(* kept on the way make the answer of Space.ask right.                     *)
AskIsSound == ~vm.down => StatusSound

(* A space that has become stable is never left without its answer: a      *)
(* thread that suspends outside can stop counting because it is woken, it  *)
(* fails with its space, or its space is merged.                           *)
AskIsAnswered ==
    ~vm.down => \A b \in Alive : Stable(b) => vm.status[b] \in Answers

(* No thread sleeps on a variable that is bound where the thread can see   *)
(* it, however the binding got there: told, merged, or by a status, as     *)
(* long as no space has been merged downward.                              *)
NoLostWakeup ==
    \A t \in Thread : \A v \in vm.thr[t].on :
        LET b == vm.thr[t].board IN
        ~vm.down /\ IsAlive(vm, b) =>
            CASE v.kind = "root" ->
                   Known(vm, IF vm.thr[t].task = Skip THEN vm.parent[b] ELSE b,
                         v.board) = {}
              [] v.kind = "status" -> vm.status[v.board] = "open"
              [] v.kind = "choice" -> TRUE

=============================================================================
