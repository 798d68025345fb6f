---------------------------- MODULE Subprocesses -----------------------------
(* src/src/stdlib/subprocess_ffi.rs: a child process that is written to and *)
(* read from line by line; a thread moves its output to a queue.            *)
(*                                                                          *)
(* The child is external.  Its lines are numbered in the order in which it  *)
(* writes them, so three counters tell what is in its pipe and in the queue.*)
(* A line that is not UTF-8 ends the reading, with the child at work.       *)
EXTENDS Callers, Integers

CONSTANTS
    InputRoom,      \* lines that fit into the child's input
    MaxLines        \* bound: lines written by the child

ASSUME SubprocessAssumption == InputRoom \in Nat \ {0} /\ MaxLines \in Nat

VARIABLES
    subOpen,        \* the handle is in the registry
    subChild,       \* "none", "runs" or "gone"
    subInput,       \* lines in its input
    subWritten,     \* lines it has written,
    subBad,         \*   the first of them that is not UTF-8, or 0,
    subQueued,      \*   of these, read by the thread and queued,
    subTaken,       \*   of these, taken by readers
    subEof,         \* the flag the thread raises when the output ends
    subLock,        \* holder of the child's mutex
    subThread       \* of each thread: position, and what it was told

subVars == <<subOpen, subChild, subInput, subWritten, subBad, subQueued,
             subTaken, subEof, subLock, subThread>>
subLines == <<subWritten, subBad, subQueued, subTaken, subEof>>

SubInit ==
    /\ subOpen = FALSE /\ subChild = "none" /\ subInput = 0
    /\ subWritten = 0 /\ subBad = 0 /\ subQueued = 0 /\ subTaken = 0
    /\ subEof = FALSE
    /\ subLock = None
    /\ subThread = [t \in Threads |-> [at |-> "idle", told |-> "nothing"]]

SubAt(t, p) == subThread[t].at = p

SubGo(t, p) == subThread' = [subThread EXCEPT ![t].at = p]

SubReturns(t, what) ==
    subThread' = [subThread EXCEPT ![t] = [at |-> "idle", told |-> what]]

SubSpawn(t) ==
    /\ SubAt(t, "idle") /\ subChild = "none"
    /\ subChild' = "runs" /\ subOpen' = TRUE
    /\ UNCHANGED <<subInput, subLines, subLock, subThread>>

\* Every call looks the handle up first.
SubCall(t) ==
    /\ SubAt(t, "idle") /\ subOpen
    /\ \/ \E p \in {"write", "read", "timed read", "is alive"} :
             SubGo(t, p)
          /\ UNCHANGED subOpen
       \/ subOpen' = FALSE /\ SubGo(t, "terminate")
    /\ UNCHANGED <<subChild, subInput, subLines, subLock>>

\* write_line waits for room with the child's mutex held.
SubWriteEnters(t) ==
    /\ SubAt(t, "write") /\ subLock = None
    /\ subLock' = t
    /\ SubGo(t, "pipe")
    /\ UNCHANGED <<subOpen, subChild, subInput, subLines>>

SubWrite(t) ==
    /\ SubAt(t, "pipe")
    /\ \/ /\ subChild = "runs" /\ subInput < InputRoom
          /\ subInput' = subInput + 1
       \/ subChild = "gone" /\ UNCHANGED subInput
    /\ subLock' = None
    /\ SubReturns(t, "nothing")
    /\ UNCHANGED <<subOpen, subChild, subLines>>

\* read_line holds it only to find the queue.
SubReadEnters(t) ==
    /\ subLock = None
    /\ \/ SubAt(t, "read") /\ SubGo(t, "look")
       \/ SubAt(t, "timed read") /\ SubGo(t, "timed look")
    /\ UNCHANGED <<subOpen, subChild, subInput, subLines, subLock>>

Looking(t) == SubAt(t, "look") \/ SubAt(t, "timed look")

\* A line is taken, if there is one.
TakesLine(t) ==
    /\ subTaken < subQueued
    /\ subTaken' = subTaken + 1
    /\ SubReturns(t, "line")

SubLook(t) ==
    /\ Looking(t)
    /\ \/ TakesLine(t)
       \/ /\ subTaken = subQueued /\ UNCHANGED subTaken
          /\ SubGo(t, IF SubAt(t, "look") THEN "flag" ELSE "timed flag")
    /\ UNCHANGED <<subOpen, subChild, subInput, subWritten, subBad, subQueued,
                   subEof, subLock>>

\* The flag is down: look again later, or return at the deadline.
SubLookAgain(t) ==
    /\ ~subEof
    /\ \/ SubAt(t, "flag") /\ SubGo(t, "look")
       \/ SubAt(t, "timed flag") /\ SubGo(t, "timed look")
       \/ SubAt(t, "timed flag") /\ SubReturns(t, "nothing")
    /\ UNCHANGED <<subOpen, subChild, subInput, subLines, subLock>>

Flagged(t) == subEof /\ (SubAt(t, "flag") \/ SubAt(t, "timed flag"))

\* Wrong variant: the end is the end.
SubEndsAtOnce(t) ==
    /\ Flagged(t)
    /\ SubReturns(t, "end")
    /\ UNCHANGED <<subOpen, subChild, subInput, subLines, subLock>>

\* The flag is up: there may be lines left.
SubEnds(t) ==
    /\ Flagged(t)
    /\ \/ TakesLine(t)
       \/ subTaken = subQueued /\ SubReturns(t, "end") /\ UNCHANGED subTaken
    /\ UNCHANGED <<subOpen, subChild, subInput, subWritten, subBad, subQueued,
                   subEof, subLock>>

\* is_alive; terminate, which has taken the handle away.
SubAsks(t) ==
    /\ SubAt(t, "is alive") /\ subLock = None
    /\ SubReturns(t, "nothing")
    /\ UNCHANGED <<subOpen, subChild, subInput, subLines, subLock>>

SubTerminate(t) ==
    /\ SubAt(t, "terminate") /\ subLock = None
    /\ subChild' = "gone"
    /\ SubReturns(t, "nothing")
    /\ UNCHANGED <<subOpen, subInput, subLines, subLock>>

-----------------------------------------------------------------------------
(* The reading thread and the child.                                        *)
\* The next line in the pipe, if it is there.
NextIsBad == subQueued + 1 = subBad

SubQueues ==
    /\ subQueued < subWritten /\ ~NextIsBad /\ ~subEof
    /\ subQueued' = subQueued + 1
    /\ UNCHANGED <<subOpen, subChild, subInput, subWritten, subBad, subTaken,
                   subEof, subLock, subThread>>

\* The output has ended, or a line is not UTF-8: then the child may be at work,
\* and what it wrote after that line is not read.
SubEofSeen ==
    /\ ~subEof
    /\ \/ subChild = "gone" /\ subQueued = subWritten
       \/ NextIsBad
    /\ subEof' = TRUE
    /\ UNCHANGED <<subOpen, subChild, subInput, subWritten, subBad, subQueued,
                   subTaken, subLock, subThread>>

ChildReads ==
    /\ subChild = "runs" /\ subInput > 0
    /\ subInput' = subInput - 1
    /\ UNCHANGED <<subOpen, subChild, subLines, subLock, subThread>>

\* Nothing is written once the reader has left: the pipe is closed.
ChildWrites ==
    /\ subChild = "runs" /\ ~subEof /\ subWritten < MaxLines
    /\ subWritten' = subWritten + 1
    /\ subBad' \in IF subBad = 0 THEN {0, subWritten'} ELSE {subBad}
    /\ UNCHANGED <<subOpen, subChild, subInput, subQueued, subTaken,
                   subEof, subLock, subThread>>

ChildExits ==
    /\ subChild = "runs"
    /\ subChild' = "gone"
    /\ UNCHANGED <<subOpen, subInput, subLines, subLock, subThread>>

SubNext ==
    \/ \E t \in Threads :
          \/ SubSpawn(t) \/ SubCall(t) \/ SubWriteEnters(t) \/ SubWrite(t)
          \/ SubReadEnters(t) \/ SubLook(t) \/ SubLookAgain(t) \/ SubEnds(t)
          \/ SubAsks(t) \/ SubTerminate(t)
    \/ SubQueues \/ SubEofSeen \/ ChildReads \/ ChildWrites \/ ChildExits

-----------------------------------------------------------------------------
SubTypes ==
    /\ subOpen \in BOOLEAN /\ subChild \in {"none", "runs", "gone"}
    /\ subInput \in 0..InputRoom
    /\ subWritten \in 0..MaxLines /\ subBad \in 0..subWritten
    /\ subQueued \in 0..subWritten
    /\ subTaken \in 0..subQueued
    /\ subEof \in BOOLEAN /\ subLock \in Threads \cup {None}
    /\ subThread \in [Threads ->
           [at : {"idle", "write", "pipe", "read", "look", "flag", "timed read",
                  "timed look", "timed flag", "is alive", "terminate"},
            told : {"nothing", "line", "end"}]]

\* The lines that a reader can get: those before the first that is not UTF-8.
Readable == IF subBad = 0 THEN subWritten ELSE subBad - 1

\* "EOF/错误返回空串" (subprocess_ffi.rs:127) and "再检查一次队列" (158): who is told
\* that the output has ended has no line of the child before it that nobody
\* took, of a killed child either; where a line is not UTF-8 the output ends at
\* that line, whatever the child writes after it.
LinesAllRead ==
    \A t \in Threads : subThread[t].told = "end" => subTaken = Readable
=============================================================================
