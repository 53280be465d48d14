-------------------------------- MODULE Streams --------------------------------
(***************************************************************************)
(* Lazy streams (src/runtime.c): a pipeline of stages over one source, the *)
(* operator that consumes it, and the children of its parallel stage.      *)
(*                                                                         *)
(* stream_next calls itself upstream: calls is the stack of stages that    *)
(* are being asked, answer what the one that returned last has given.  A   *)
(* stage is entered when it is on top and there is no answer, and goes on  *)
(* when there is one.  Stage i reads stage i - 1; a stage of flat_map or   *)
(* on_error reads its inner stream as well.                                *)
(***************************************************************************)
EXTENDS Watch, FiniteSetsExt

CONSTANTS
    Stages,         \* the longest pipeline
    Pipelines,      \* sequences of kinds, the source first
    Consumers,      \* what reads the last stage
    Items,          \* bound: items of a source
    Width,          \* the worker count of parallel
    MemoryLimit     \* allocations may fail: RuntimeLimits.max_memory

SourceKinds == {"list", "processes", "every", "database", "lines", "files", "watch"}
StageKinds == {"map", "inspect", "where", "distinct", "debounce", "take", "skip", "parse_csv",
               "encode_csv", "sort", "group", "flat_map", "on_error", "parallel"}

(* A pipeline is a source and the stages over it.                            *)
ASSUME PipelineAssumption ==
    /\ Stages \in Nat \ {0} /\ Items \in Nat \ {0, 1} /\ Width \in Nat \ {0} /\ MemoryLimit \in BOOLEAN
    /\ Consumers \subseteq {"collect", "first", "for", "save"}
    /\ \A p \in Pipelines :
          /\ p \in Seq(SourceKinds \cup StageKinds) /\ Len(p) \in 1..Stages
          /\ p[1] \in SourceKinds /\ \A i \in 2..Len(p) : p[i] \in StageKinds

VARIABLES
    kind,           \* of each stream
    st,             \* its fields
    calls, answer,
    consumer, phase,
    output,         \* what the consumer has read
    temporary, target,  \* of a consumer that saves: its file and the one it replaces
    dropped,        \* auxiliary: items a stage has left out on purpose
    erred,          \* auxiliary: there was an error, perhaps one that was handled
    leaked          \* auxiliary: open files nobody holds any more

pipeVars == <<kind, st, calls, answer, consumer, phase, output, temporary, target,
              dropped, erred, leaked>>
vars == <<runtimeVars, watchVars, pipeVars>>

Main == 1..Stages
Inner(i) == i + Stages
Ids == 1..2 * Stages

Header == 0     \* the row of column names
End == -1       \* stream_next returned false
NoAnswer == [from |-> 0, item |-> End]

WithFile == {"lines", "files"}

Item == 0..Items + 1

Job == [item : Item, state : {"running", "ok", "error", "bad"}]

Stream ==
    [closed : BOOLEAN, file : BOOLEAN, cursor : BOOLEAN, started : BOOLEAN, left : 0..Items,
     tag : Item, inner : 0..2 * Stages, buffer : Seq(Item), jobs : Seq(Job), done : BOOLEAN,
     busy : {"no", "fill", "wait", "refill"}, held : Item \cup {End}]

Fresh(left, tag) ==
    [closed |-> FALSE, file |-> FALSE, cursor |-> FALSE, started |-> FALSE, left |-> left, tag |-> tag,
     inner |-> 0, buffer |-> <<>>, jobs |-> <<>>, done |-> FALSE, busy |-> "no", held |-> End]

TypeOK ==
    /\ RuntimeType /\ WatchType
    /\ kind \in [Ids -> SourceKinds \cup StageKinds \cup {"none"}] /\ st \in [Ids -> Stream]
    /\ calls \in Seq(Ids) /\ answer \in [from : Ids \cup {0}, item : Item \cup {End}]
    /\ consumer \in Consumers /\ phase \in {"start", "pulling", "ended", "released"}
    /\ output \in Seq(Item) /\ dropped \subseteq Item /\ erred \in BOOLEAN
    /\ temporary \in {"none", "open", "gone"} /\ target \in {"old", "new"}
    /\ leaked \in Nat

LastStage == Max({i \in Main : kind[i] # "none"})

(* The consumer has claimed the last stage and asks it for the first item.   *)
Init ==
    /\ RuntimeInit
    /\ \E p \in Pipelines :
          /\ kind = [i \in Ids |-> IF i <= Len(p) THEN p[i] ELSE "none"]
          /\ calls = <<Len(p)>>
    /\ st = [i \in Ids |-> Fresh(CASE kind[i] = "skip" -> 1 [] kind[i] = "take" -> 1
                                   [] OTHER -> Items, 0)]
    /\ IF kind[1] = "watch" THEN WatchInit ELSE NoWatch
    /\ answer = NoAnswer
    /\ consumer \in Consumers
    /\ phase = "start"
    /\ output = <<>> /\ temporary = "none" /\ target = "old"
    /\ dropped = {} /\ erred = FALSE /\ leaked = 0

-----------------------------------------------------------------------------
(* stream_close.                                                             *)

(* A close that forgets the inner streams of flat_map.                      *)
ClosingMutant(i) ==
    IF i \in Main THEN {j \in 1..i : \A k \in j..i : ~st[k].closed}
    ELSE {j \in {i} : ~st[j].closed}

(* What a close reaches: the stages from here upstream as far as they are    *)
(* open (a closed one returns at once), and their inner streams.             *)
Closing(i) ==
    LET down == IF i \in Main THEN {j \in 1..i : \A k \in j..i : ~st[k].closed}
                ELSE {j \in {i} : ~st[j].closed}
    IN down \cup {Inner(j) : j \in {k \in down : st[k].inner # 0 /\ ~st[Inner(k)].closed}}

(* Each worker is told to stop, killed if it does not within half a second,  *)
(* and reaped.                                                               *)
Emptied(s) == [s EXCEPT !.closed = TRUE, !.file = FALSE, !.cursor = FALSE, !.jobs = <<>>]

Shut(S) == [i \in Ids |-> IF i \in S THEN Emptied(st[i]) ELSE st[i]]

(* The children of the streams in S, and the open files: those of the        *)
(* children, and a stream's own or its watch's (0).                          *)
Children(S) == {c \in S \X (1..Width) : c[2] <= Len(st[c[1]].jobs)}

Held(S) == Children(S) \cup {<<i, 0>> : i \in {j \in S : st[j].file \/ (j = 1 /\ armed)}}

HeldBy(S) == Cardinality(Held(S))

Active(S) == Cardinality(Children(S))

(* Closing the streams in S, with the counters they give back.               *)
Close(S) ==
    /\ st' = Shut(S)
    /\ files' = Less(files, HeldBy(S))
    /\ procs' = Less(procs, Active(S))
    /\ WatchClosed(1 \in S /\ kind[1] = "watch")

-----------------------------------------------------------------------------
(* Calls and answers.                                                        *)

Asked(i) == phase = "pulling" /\ calls # <<>> /\ calls[Len(calls)] = i /\ answer = NoAnswer

(* A handler's stream answers in the place of its on_error.                  *)
Told(i, j) ==
    /\ phase = "pulling" /\ calls # <<>> /\ calls[Len(calls)] = i
    /\ answer.from = j \/ (j \in Main /\ answer.from = Inner(j))

Ask(j) == calls' = Append(calls, j) /\ answer' = NoAnswer

Give(i, item) == calls' = Front(calls) /\ answer' = [from |-> i, item |-> item]

NoError == UNCHANGED <<failed, erred>>
Error == failed' = TRUE /\ erred' = TRUE

KeepStreams == UNCHANGED <<st, files, procs, watchVars>>
KeepRest == UNCHANGED <<cancelled, kind, consumer, phase, output, temporary, target, leaked>>

Step(i) == /\ KeepRest
           /\ kind[i] # "none"

(* The stage is closed and says so; or it fails, and closes or does not.     *)
Finish(i) == Close(Closing(i)) /\ Give(i, End) /\ UNCHANGED dropped /\ NoError
FailClosed(i) == Close(Closing(i)) /\ Give(i, End) /\ UNCHANGED dropped /\ Error
FailOpen(i) == KeepStreams /\ Give(i, End) /\ UNCHANGED dropped /\ Error

Drop(item) == dropped' = dropped \cup {item}

(* The checks at the head of stream_next.                                    *)
Refuse(i) ==
    /\ Asked(i) /\ st[i].busy = "no"
    /\ st[i].closed \/ failed \/ cancelled
    /\ IF cancelled /\ ~st[i].closed THEN Error ELSE NoError
    /\ KeepStreams /\ Give(i, End)
    /\ UNCHANGED dropped /\ Step(i)

Entered(i) ==
    Asked(i) /\ st[i].busy = "no" /\ ~st[i].closed /\ ~failed /\ ~cancelled /\ Step(i)

-----------------------------------------------------------------------------
(* Sources.                                                                  *)

ItemOf(i) == IF i \in Main THEN Items + 1 - st[i].left ELSE st[i].tag

(* A list, a range, a snapshot of the processes (which may fail), a timer:   *)
(* nothing to hold.                                                          *)
NextInMemory(i) ==
    /\ Entered(i) /\ kind[i] \in {"list", "processes", "every"}
    /\ \/ /\ st[i].left > 0
          /\ st' = [st EXCEPT ![i].left = @ - 1]
          /\ Give(i, ItemOf(i)) /\ NoError
          /\ UNCHANGED <<files, procs, watchVars, dropped>>
       \/ st[i].left = 0 /\ kind[i] # "every" /\ Finish(i)
       \/ kind[i] = "processes" /\ st[i].left = Items /\ FailClosed(i)

(* A result of the database: its cursor is opened when it is first read.     *)
NextInDatabase(i) ==
    /\ Entered(i) /\ kind[i] = "database"
    /\ \/ /\ st[i].left > 0
          /\ st' = [st EXCEPT ![i].left = @ - 1, ![i].cursor = TRUE]
          /\ Give(i, ItemOf(i)) /\ NoError
          /\ UNCHANGED <<files, procs, watchVars, dropped>>
       \/ st[i].left = 0 /\ Finish(i)
       \/ FailClosed(i)

(* A wait for the timer is cut short.                                        *)
TimerCancelled(i) ==
    /\ Asked(i) /\ kind[i] = "every" /\ ~st[i].closed /\ cancelled /\ ~failed
    /\ FailClosed(i) /\ Step(i)

(* A file or a directory is opened when it is first read.                    *)
NextInFile(i) ==
    /\ Entered(i) /\ kind[i] \in WithFile
    /\ \/ /\ st[i].file \/ FileFree
          /\ st[i].left > 0
          /\ st' = [st EXCEPT ![i].file = TRUE, ![i].left = @ - 1]
          /\ files' = IF st[i].file THEN files ELSE files + 1
          /\ UNCHANGED <<procs, watchVars, dropped>>
          /\ \/ Give(i, ItemOf(i)) /\ NoError
             \/ kind[i] = "files" /\ Give(i, End) /\ Error
       \/ (st[i].file \/ FileFree) /\ st[i].left = 0 /\ Finish(i)
       \/ ~st[i].file /\ FailClosed(i)

(* Watch's steps, until there is an event or it fails.                       *)
NextWatch(i) ==
    /\ Asked(i) /\ kind[i] = "watch" /\ Step(i)
    /\ st[i].busy = "wait" \/ Entered(i)
    /\ \/ /\ Ready /\ st[i].left > 0
          /\ GiveEvent
          /\ st' = [st EXCEPT ![i].left = @ - 1, ![i].busy = "no"]
          /\ Give(i, ItemOf(i)) /\ NoError
          /\ UNCHANGED <<files, procs, dropped>>
       \/ /\ WatchWorks
          /\ st' = [st EXCEPT ![i].busy = "wait"]
          /\ UNCHANGED <<procs, calls, answer, dropped, erred>>
       \/ WatchFails /\ (step = "waiting" => cancelled) /\ FailClosed(i)

(* The wait for an event fails.                                              *)
WatchBreaks(i) ==
    /\ Asked(i) /\ kind[i] = "watch" /\ st[i].busy = "wait" /\ step = "waiting" /\ WatchFails
    /\ FailClosed(i) /\ Step(i)

-----------------------------------------------------------------------------
(* Stages that ask their source for one item after the other.                *)

PerItem == {"map", "inspect", "where", "distinct", "debounce", "take", "skip", "parse_csv"}

AskSource(i) ==
    /\ Entered(i) /\ kind[i] \in PerItem
    /\ IF kind[i] = "take" /\ st[i].left = 0
         THEN Finish(i)
         ELSE Ask(i - 1) /\ KeepStreams /\ NoError /\ UNCHANGED dropped

(* The closure's, or the stage's, verdict on an item: it goes on, is left    *)
(* out, or is an error, after which only some of the stages close.           *)
PassItem(i) ==
    /\ Told(i, i - 1) /\ answer.item # End /\ Step(i)
    /\ kind[i] \in PerItem /\ (kind[i] = "skip" => st[i].left = 0)
    /\ Give(i, answer.item)
    /\ st' = [st EXCEPT ![i].left = IF kind[i] = "take" THEN @ - 1 ELSE @,
                        ![i].started = TRUE, ![i].held = End]
    /\ NoError /\ UNCHANGED <<files, procs, watchVars, dropped>>

(* For parse_csv: the header, or a line in the middle of a quoted field.     *)
DropItem(i) ==
    /\ Told(i, i - 1) /\ answer.item # End /\ Step(i)
    /\ \/ kind[i] \in {"where", "distinct", "debounce"}
       \/ kind[i] = "skip" /\ st[i].left > 0
       \/ kind[i] = "parse_csv"
    /\ Drop(answer.item)
    /\ st' = [st EXCEPT ![i].left = IF kind[i] = "skip" THEN @ - 1 ELSE @,
                        ![i].held = IF kind[i] = "parse_csv" /\ st[i].started
                                      THEN answer.item ELSE End,
                        ![i].started = TRUE]
    /\ Ask(i - 1) /\ NoError /\ UNCHANGED <<files, procs, watchVars>>

FailItem(i) ==
    /\ Told(i, i - 1) /\ answer.item # End /\ Step(i)
    /\ \/ kind[i] \in {"map", "inspect", "where", "distinct"} /\ FailOpen(i)
       \/ kind[i] \in {"debounce", "parse_csv"} /\ FailClosed(i)

(* The source is at its end, or has failed.                                  *)
SourceEnded(i) ==
    /\ Told(i, i - 1) /\ answer.item = End /\ kind[i] \in PerItem /\ Step(i)
    /\ IF kind[i] = "parse_csv" /\ st[i].held # End THEN FailClosed(i) ELSE Finish(i)

(* encode_csv gives the header before the first row, and holds that row.     *)
AskRow(i) ==
    /\ Entered(i) /\ kind[i] = "encode_csv"
    /\ \/ /\ st[i].held # End
          /\ Give(i, st[i].held)
          /\ st' = [st EXCEPT ![i].held = End]
          /\ UNCHANGED <<files, procs, watchVars, dropped>> /\ NoError
       \/ st[i].held # End /\ FailOpen(i)
       \/ st[i].held = End /\ Ask(i - 1) /\ KeepStreams /\ NoError /\ UNCHANGED dropped

EncodeRow(i) ==
    /\ Told(i, i - 1) /\ kind[i] = "encode_csv" /\ Step(i)
    /\ IF answer.item = End THEN Finish(i)
       ELSE \/ FailClosed(i)
            \/ FailOpen(i)
            \/ /\ Give(i, IF st[i].started THEN answer.item ELSE Header)
               /\ st' = [st EXCEPT ![i].started = TRUE,
                                   ![i].held = IF @ = End /\ ~st[i].started THEN answer.item ELSE End]
               /\ NoError /\ UNCHANGED <<files, procs, watchVars, dropped>>

-----------------------------------------------------------------------------
(* sort_by and group_by read all of their source first.                      *)

Barriers == {"sort", "group"}

NextSorted(i) ==
    /\ Entered(i) /\ kind[i] \in Barriers
    /\ IF ~st[i].started
         THEN /\ st' = [st EXCEPT ![i].started = TRUE]
              /\ Ask(i - 1)
              /\ UNCHANGED <<files, procs, watchVars, dropped>> /\ NoError
         ELSE IF st[i].buffer = <<>> THEN Finish(i)
         ELSE /\ Give(i, Head(st[i].buffer))
              /\ st' = [st EXCEPT ![i].buffer = Tail(@)]
              /\ UNCHANGED <<files, procs, watchVars, dropped>> /\ NoError

Load(i) ==
    /\ Told(i, i - 1) /\ answer.item # End /\ kind[i] \in Barriers /\ Step(i)
    /\ \/ /\ st' = [st EXCEPT ![i].buffer = Append(@, answer.item)]
          /\ Ask(i - 1)
          /\ UNCHANGED <<files, procs, watchVars, dropped>> /\ NoError
       \/ Close(Closing(i - 1)) /\ Give(i, End) /\ UNCHANGED dropped /\ Error

(* The source is closed, but not the stage itself when there was an error.   *)
(* One group is given for the first of its items.                            *)
Loaded(i) ==
    LET items == st[i].buffer
        ordered == CASE items = <<>> -> {<<>>}
                     [] kind[i] = "sort" -> {Reverse(items)}
                     [] OTHER -> {items, <<Head(items)>>}
        closed == Closing(i - 1)
    IN /\ Told(i, i - 1) /\ answer.item = End /\ kind[i] \in Barriers /\ Step(i)
       /\ NoError
       /\ files' = Less(files, HeldBy(closed)) /\ procs' = Less(procs, Active(closed))
       /\ WatchClosed(1 \in closed /\ kind[1] = "watch")
       /\ IF failed
            THEN Give(i, End) /\ st' = Shut(closed) /\ UNCHANGED dropped
            ELSE \E o \in ordered :
                    /\ dropped' = dropped \cup (Range(items) \ Range(o))
                    /\ IF o = <<>>
                         THEN /\ st' = [Shut(closed) EXCEPT ![i].closed = TRUE, ![i].buffer = o]
                              /\ Give(i, End)
                         ELSE /\ st' = [Shut(closed) EXCEPT ![i].buffer = Tail(o)]
                              /\ Give(i, Head(o))

-----------------------------------------------------------------------------
(* flat_map and on_error: a stream the program's closure returns.            *)

(* A fresh stream becomes the inner one and is asked.                        *)
Attach(i, tag) ==
    \E k \in {"list", "lines"}, left \in 0..(IF kind[i] = "flat_map" THEN 1 ELSE 2) :
        /\ kind' = [kind EXCEPT ![Inner(i)] = k]
        /\ st' = [st EXCEPT ![i].inner = Inner(i), ![Inner(i)] = Fresh(left, tag)]
        /\ dropped' = IF left = 0 /\ kind[i] = "flat_map" THEN dropped \cup {tag} ELSE dropped

AskInner(i) ==
    /\ Entered(i) /\ kind[i] \in {"flat_map", "on_error"}
    /\ Ask(IF st[i].inner # 0 THEN Inner(i) ELSE i - 1)
    /\ KeepStreams /\ NoError /\ UNCHANGED dropped

FlatMapOuter(i) ==
    /\ Told(i, i - 1) /\ kind[i] = "flat_map"
    /\ IF answer.item = End THEN Finish(i) /\ Step(i)
       ELSE \/ FailClosed(i) /\ Step(i)
            \/ /\ Attach(i, answer.item)
               /\ Ask(Inner(i)) /\ NoError
               /\ UNCHANGED <<cancelled, files, procs, watchVars, consumer, phase, output,
                              temporary, target, leaked>>

FlatMapInner(i) ==
    /\ Told(i, Inner(i)) /\ kind[i] = "flat_map" /\ Step(i)
    /\ IF answer.item # End
         THEN Give(i, answer.item) /\ KeepStreams
         ELSE LET closed == Closing(Inner(i)) IN
              /\ st' = [Shut(closed) EXCEPT ![i].inner = 0]
              /\ files' = Less(files, HeldBy(closed))
              /\ Ask(i - 1) /\ UNCHANGED <<procs, watchVars>>
    /\ NoError /\ UNCHANGED dropped

(* The handler's stream replaces a source that failed, which stays open; it  *)
(* is asked in the place of this stage.                                      *)
OnErrorSource(i) ==
    /\ Told(i, i - 1) /\ kind[i] = "on_error"
    /\ \/ /\ answer.item # End /\ Give(i, answer.item)
          /\ KeepStreams /\ NoError /\ UNCHANGED dropped /\ Step(i)
       \/ answer.item = End /\ ~failed /\ Finish(i) /\ Step(i)
       \/ answer.item = End /\ failed /\ FailClosed(i) /\ Step(i)
       \/ /\ answer.item = End /\ failed
          /\ failed' = FALSE
          /\ Attach(i, Items + 1)
          /\ calls' = Append(Front(calls), Inner(i)) /\ answer' = NoAnswer
          /\ UNCHANGED <<cancelled, files, procs, watchVars, consumer, phase, output,
                         temporary, target, erred, leaked>>

OnErrorInner(i) ==
    /\ Told(i, Inner(i)) /\ kind[i] = "on_error" /\ Step(i)
    /\ IF answer.item = End THEN Finish(i)
       ELSE Give(i, answer.item) /\ KeepStreams /\ NoError /\ UNCHANGED dropped

-----------------------------------------------------------------------------
(* parallel: up to Width items are worked on by children of their own.       *)

Jobs(i) == st[i].jobs

Room(i) == ~st[i].done /\ Len(Jobs(i)) < Width

(* parallel_next fills the free places first, then waits for the oldest.     *)
NextParallel(i) ==
    /\ Entered(i) /\ kind[i] = "parallel"
    /\ IF Room(i)
         THEN st' = [st EXCEPT ![i].busy = "fill"] /\ Ask(i - 1)
              /\ UNCHANGED <<files, procs, watchVars>>
         ELSE IF Jobs(i) = <<>> THEN Close(Closing(i)) /\ Give(i, End)
         ELSE st' = [st EXCEPT ![i].busy = "wait"] /\ UNCHANGED <<calls, answer, files, procs, watchVars>>
    /\ NoError /\ UNCHANGED dropped

Launched(i) == [st EXCEPT ![i].jobs = Append(@, [item |-> answer.item, state |-> "running"])]

(* A launch that only counts the children.                                  *)
LaunchChecksMutant == procs < MaxProcesses

LaunchChecks == procs < MaxProcesses /\ FileFree

(* parallel_launch: a result file and a child for the item it was given.     *)
Launch(i) ==
    /\ Told(i, i - 1) /\ answer.item # End /\ st[i].busy \in {"fill", "refill"} /\ Step(i)
    /\ LaunchChecks
    /\ files' = files + 1 /\ procs' = procs + 1
    /\ NoError /\ UNCHANGED <<watchVars, dropped>>
    /\ IF Len(Jobs(i)) + 1 < Width
         THEN st' = Launched(i) /\ Ask(i - 1)
         ELSE IF st[i].busy = "fill"
         THEN st' = [Launched(i) EXCEPT ![i].busy = "wait"]
              /\ answer' = NoAnswer /\ UNCHANGED calls
         ELSE st' = [Launched(i) EXCEPT ![i].busy = "no", ![i].held = End] /\ Give(i, st[i].held)

(* No place for a child, no result file, or fork fails: the item is lost.    *)
(* While filling, the stage closes; while refilling it has a result to give, *)
(* gives neither it nor closes.                                              *)
LaunchFails(i) ==
    /\ Told(i, i - 1) /\ answer.item # End /\ Step(i)
    /\ \/ st[i].busy = "fill" /\ FailClosed(i)
       \/ st[i].busy = "refill" /\ FailOpen(i)

(* The source has nothing more, or has failed.                               *)
ParallelSourceEnded(i) ==
    /\ Told(i, i - 1) /\ answer.item = End /\ kind[i] = "parallel" /\ Step(i)
    /\ IF failed
         THEN IF st[i].busy = "fill" THEN FailClosed(i) ELSE FailOpen(i)
         ELSE /\ NoError /\ UNCHANGED dropped
              /\ IF st[i].busy = "refill"
                   THEN /\ st' = [st EXCEPT ![i].done = TRUE, ![i].busy = "no", ![i].held = End]
                        /\ Give(i, st[i].held) /\ UNCHANGED <<files, procs, watchVars>>
                   ELSE IF Jobs(i) = <<>>
                   THEN Close(Closing(i)) /\ Give(i, End)
                   ELSE /\ st' = [st EXCEPT ![i].done = TRUE, ![i].busy = "wait"]
                        /\ answer' = NoAnswer /\ UNCHANGED <<calls, files, procs, watchVars>>

Waiting(i) == Asked(i) /\ st[i].busy = "wait" /\ kind[i] = "parallel" /\ Jobs(i) # <<>>

(* Collecting that throws away all children that have ended.                *)
CollectedMutant(i) == [st EXCEPT ![i].jobs = SelectSeq(@, LAMBDA j : j.state = "running")]

Collected(i) == [st EXCEPT ![i].jobs = Tail(@)]

(* The oldest child has ended: it leaves the list, its result is read, and   *)
(* its place is filled before the result is given.                           *)
Oldest(i) == Jobs(i)[1]

Collect(i) ==
    /\ Waiting(i) /\ Oldest(i).state = "ok" /\ Step(i)
    /\ files' = Less(files, 1) /\ procs' = Less(procs, 1)
    /\ IF st[i].done
         THEN st' = [Collected(i) EXCEPT ![i].busy = "no"] /\ Give(i, Oldest(i).item)
         ELSE st' = [Collected(i) EXCEPT ![i].busy = "refill", ![i].held = Oldest(i).item] /\ Ask(i - 1)
    /\ NoError /\ UNCHANGED <<watchVars, dropped>>

(* A wait for a child that is not ended by a cancellation.                  *)
CollectFailsMutant(i) ==
    /\ Waiting(i) /\ Oldest(i).state \in {"error", "bad"}
    /\ FailClosed(i) /\ Step(i)

(* It reports an error, or nothing that can be read, or the wait itself is   *)
(* cancelled or fails.                                                       *)
CollectFails(i) ==
    /\ Waiting(i) /\ (Oldest(i).state \in {"error", "bad"} \/ cancelled)
    /\ FailClosed(i) /\ Step(i)

(* A child ends by itself: with a result, an error, or one that cannot be    *)
(* sent.                                                                     *)
ChangeJobs(i, jobs) ==
    /\ st' = [st EXCEPT ![i].jobs = jobs]
    /\ UNCHANGED <<runtimeVars, watchVars, kind, calls, answer, consumer, phase, output,
                   target, dropped, erred, leaked>>

WorkerEnds(i) ==
    \E k \in 1..Len(Jobs(i)), state \in {"ok", "error", "bad"} :
        /\ Jobs(i)[k].state = "running"
        /\ ChangeJobs(i, [Jobs(i) EXCEPT ![k].state = state])
        /\ UNCHANGED temporary

(* A child runs out of memory: longjmp takes it to the boundary of its copy  *)
(* of the parent, where it releases what the parent holds.  It unlinks the   *)
(* parent's temporary file and stops the children that were started before   *)
(* it.                                                                       *)
WorkerOverMemory(i) ==
    /\ MemoryLimit
    /\ \E k \in 1..Len(Jobs(i)) : \E hit \in SUBSET (1..k - 1) :
        /\ Jobs(i)[k].state = "running" /\ \A h \in hit : Jobs(i)[h].state = "running"
        /\ ChangeJobs(i, [j \in 1..Len(Jobs(i)) |->
                            IF j = k THEN [Jobs(i)[j] EXCEPT !.state = "bad"]
                            ELSE IF j \in hit THEN [Jobs(i)[j] EXCEPT !.state = "error"]
                            ELSE Jobs(i)[j]])
        /\ temporary' = IF temporary = "open" THEN "gone" ELSE temporary

-----------------------------------------------------------------------------
(* The consumer.                                                             *)

(* write_string_stream_atomic writes to a file next to its target.           *)
Begin ==
    /\ phase = "start"
    /\ \/ /\ consumer # "save"
          /\ phase' = "pulling"
          /\ UNCHANGED <<runtimeVars, watchVars, kind, st, temporary, erred>>
       \/ /\ consumer = "save" /\ FileFree
          /\ files' = files + 1
          /\ temporary' = "open" /\ phase' = "pulling"
          /\ UNCHANGED <<failed, cancelled, procs, watchVars, kind, st, erred>>
       \/ /\ consumer = "save"
          /\ Close(Closing(LastStage)) /\ Error
          /\ phase' = "ended"
          /\ UNCHANGED <<cancelled, kind, temporary>>
    /\ UNCHANGED <<calls, answer, consumer, output, target, dropped, leaked>>

Answered == phase = "pulling" /\ calls = <<>>

(* The item is kept, written or given to the body, and the next one asked    *)
(* for.                                                                      *)
ReadOn ==
    /\ Answered /\ answer.item # End /\ consumer # "first"
    /\ output' = Append(output, answer.item)
    /\ calls' = <<LastStage>> /\ answer' = NoAnswer
    /\ UNCHANGED <<runtimeVars, watchVars, kind, st, consumer, phase, temporary, target,
                   dropped, erred, leaked>>

Closes == {"collect", "first", "save"}

(* A loop leaves its stream as it is.                                        *)
LeaveStream ==
    IF consumer \in Closes THEN st' = Shut(Closing(LastStage)) ELSE UNCHANGED st

LeftFiles == IF consumer \in Closes THEN HeldBy(Closing(LastStage)) ELSE 0

(* A save that does not look whether the end was an error.                  *)
SaveCompleteMutant == answer.item = End

SaveComplete == answer.item = End /\ ~failed'

(* The stream is at its end or has failed, the consumer has what it wants    *)
(* (first, a break in a loop), or fails itself.  What was saved takes the    *)
(* place of the target if all of it was read and written.                    *)
Stop ==
    /\ Answered
    /\ LeaveStream
    /\ files' = Less(Less(files, LeftFiles), IF consumer = "save" THEN 1 ELSE 0)
    /\ procs' = IF consumer \in Closes THEN Less(procs, Active(Closing(LastStage))) ELSE procs
    /\ WatchClosed(kind[1] = "watch" /\ consumer \in Closes /\ 1 \in Closing(LastStage))
    /\ phase' = "ended"
    /\ \/ answer.item = End /\ output' = output /\ ~(consumer = "save" /\ temporary = "gone") /\ NoError
       \/ /\ answer.item # End /\ consumer \in {"first", "for"}
          /\ output' = Append(output, answer.item) /\ NoError
       \/ (answer.item # End \/ consumer = "save") /\ output' = output /\ Error
    /\ target' = IF temporary = "open" /\ SaveComplete THEN "new" ELSE target
    /\ temporary' = IF consumer = "save" THEN "none" ELSE temporary
    /\ UNCHANGED <<cancelled, kind, calls, answer, consumer, dropped, leaked>>

(* runtime_memory_limit: longjmp to the boundary, past every stage.          *)
OutOfMemory ==
    /\ MemoryLimit /\ phase = "pulling"
    /\ calls' = <<>> /\ answer' = NoAnswer
    /\ phase' = "ended" /\ Error
    /\ UNCHANGED <<cancelled, files, procs, watchVars, kind, st, consumer, output,
                   temporary, target, dropped, leaked>>

(* The same while a child's result is read: the child is reaped and off the  *)
(* list, its file is neither in the list nor closed.                         *)
CollectOutOfMemory(i) ==
    /\ MemoryLimit /\ Waiting(i) /\ Oldest(i).state = "ok"
    /\ st' = Collected(i) /\ procs' = Less(procs, 1)
    /\ leaked' = leaked + 1
    /\ calls' = <<>> /\ answer' = NoAnswer
    /\ phase' = "ended" /\ Error
    /\ UNCHANGED <<cancelled, files, watchVars, kind, consumer, output, temporary, target, dropped>>

(* runtime_release, or the boundary of a request or an embedded call: what   *)
(* is registered for cleaning up, then every stream.                         *)
Release ==
    /\ phase = "ended"
    /\ phase' = "released"
    /\ LET open == {i \in Ids : kind[i] # "none" /\ ~st[i].closed}
           file == IF temporary = "none" THEN 0 ELSE 1
       IN /\ st' = Shut(open)
          /\ files' = Less(Less(files, file), HeldBy(open))
          /\ procs' = Less(procs, Active(open))
          /\ WatchClosed(kind[1] = "watch" /\ 1 \in open)
    /\ temporary' = "none"
    /\ UNCHANGED <<failed, cancelled, kind, calls, answer, consumer, output, target,
                   dropped, erred, leaked>>

-----------------------------------------------------------------------------
SourceStep(i) ==
    NextInMemory(i) \/ NextInDatabase(i) \/ TimerCancelled(i) \/ NextInFile(i) \/ NextWatch(i)

ItemStep(i) == AskSource(i) \/ PassItem(i) \/ DropItem(i) \/ FailItem(i) \/ SourceEnded(i)

RowStep(i) == AskRow(i) \/ EncodeRow(i)

BarrierStep(i) == NextSorted(i) \/ Load(i) \/ Loaded(i)

InnerStep(i) ==
    AskInner(i) \/ FlatMapOuter(i) \/ FlatMapInner(i) \/ OnErrorSource(i) \/ OnErrorInner(i)

ParallelStep(i) ==
    NextParallel(i) \/ Launch(i) \/ LaunchFails(i) \/ ParallelSourceEnded(i) \/ Collect(i)
        \/ CollectFails(i)

Worker(i) == WorkerEnds(i) \/ WorkerOverMemory(i)

RuntimeStep ==
    \/ \E i \in Ids : Refuse(i) \/ SourceStep(i)
    \/ \E i \in Main : ItemStep(i) \/ RowStep(i) \/ BarrierStep(i) \/ InnerStep(i) \/ ParallelStep(i)
    \/ Begin \/ ReadOn \/ Stop \/ Release

(* What need never happen.                                                   *)
Mishap ==
    \/ OutOfMemory
    \/ \E i \in Main : CollectOutOfMemory(i) \/ WatchBreaks(i)

Next ==
    \/ RuntimeStep
    \/ Mishap
    \/ \E i \in Main : Worker(i)
    \/ phase # "released" /\ Interrupt /\ UNCHANGED <<watchVars, pipeVars>>
    \/ phase # "released" /\ Change /\ UNCHANGED pipeVars

Spec == Init /\ [][Next]_vars

(* The runtime goes on; no child, no timer and no event ever has to come.    *)
FairSpec == Spec /\ WF_vars(RuntimeStep)

-----------------------------------------------------------------------------
(* Correctness.                                                              *)

Opened == {i \in Ids : kind[i] # "none"}

(* The two counters say what is really open and running, whatever was        *)
(* closed, refused or given up half-way (runtime_reserve_file,               *)
(* runtime_fclose, parallel_launch, stream_close).                           *)
Accounting ==
    /\ files = HeldBy(Ids) + leaked + (IF temporary = "none" THEN 0 ELSE 1)
    /\ procs = Active(Ids)

(* No pipeline goes past the limits of its runtime, and no stage past its    *)
(* own width (parallel_next).                                                *)
WithinLimits ==
    /\ files <= MaxFiles /\ procs <= MaxProcesses
    /\ \A i \in Ids : Len(st[i].jobs) <= Width

(* The books are balanced: a well-typed state, the counters exact and within *)
(* their limits.                                                             *)
Balanced == TypeOK /\ Accounting /\ WithinLimits

(* A closed stage holds no file, cursor or child, and nothing it read from   *)
(* is open any more: closing at once when a stage is closed already, and     *)
(* leaving a failed stage open, never cuts the way upstream.                 *)
ClosedReachesUpstream ==
    \A i \in Main : kind[i] # "none" /\ st[i].closed =>
        /\ ~st[i].file /\ ~st[i].cursor /\ Jobs(i) = <<>>
        /\ st[i].inner # 0 => st[Inner(i)].closed
        /\ \A j \in 1..i : st[j].closed

(* Every end of the program leaves no child and no open stream behind.       *)
ReleasedIsClosed ==
    phase = "released" =>
        /\ \A i \in Opened : st[i].closed
        /\ procs = 0 /\ temporary = "none" /\ ~armed

(* A close reaches everything below it, and the release everything there is. *)
NothingStaysOpen == ClosedReachesUpstream /\ ReleasedIsClosed

Increasing(s) ==
    \A k, l \in 1..Len(s) : k < l => s[k] < s[l] \/ (s[k] = Items + 1 /\ s[l] = s[k])

(* A pipeline that keeps the order: none that sorts, nor one that encodes    *)
(* twice, since the second header comes before the first.                    *)
Plain ==
    /\ \A i \in Main : kind[i] # "sort"
    /\ \A i, j \in Main : kind[i] = "encode_csv" /\ kind[j] = "encode_csv" => i = j

(* Items come out in the order of the source, each once, however many        *)
(* children work on them (parallel_next, flat_map), and those of a handler's *)
(* stream, all of them Items + 1, after those of the stream it replaces.     *)
InOrder == Plain => Increasing(output)

InFlight ==
    {answer.item} \cup
        UNION {{st[i].held, st[i].tag} \cup Range(st[i].buffer)
                 \cup {Jobs(i)[k].item : k \in 1..Len(Jobs(i))} : i \in Opened}

(* take stops its source while a stage below it has items on their way.      *)
CutShort ==
    \E i \in Main, j \in Main : j < i /\ kind[i] = "take"
        /\ kind[j] \in {"parallel", "sort", "group", "encode_csv"}

(* Without an error every item the source has given is with the consumer, on *)
(* its way, or was left out by a stage that leaves items out.                *)
NothingLost ==
    ~erred /\ ~CutShort /\ (phase = "pulling" \/ answer.item = End) =>
        1..(Items - st[1].left) \subseteq Range(output) \cup dropped \cup InFlight

(* What the consumer gets is the source: in its order, once, and all of it.  *)
Faithful == InOrder /\ NothingLost

(* The target of a save is only replaced when the stream came to its end and *)
(* nothing had gone wrong that no handler replaced, and then by everything   *)
(* the source had (write_string_stream_atomic).                              *)
SaveIsWhole ==
    target = "new" =>
        /\ answer.item = End /\ ~failed
        /\ ~erred /\ ~CutShort => 1..(Items - st[1].left) \subseteq Range(output) \cup dropped

(* A cancelled pipeline stops, though its children, its timer or its watch   *)
(* may never answer.                                                         *)
CancelStops == cancelled ~> phase \in {"ended", "released"}

(* What the manual says of a program that goes past max_memory: every file   *)
(* is closed.                                                                *)
MemoryLimitReleases == phase = "released" => files = 0
=============================================================================
