------------------------------ MODULE Mailboxes ------------------------------
(* src/src/stdlib/mailbox_ffi.rs: mailboxes, and the one thread that posts  *)
(* delayed letters.                                                         *)
(*                                                                          *)
(* A step is a region under the mutex of the pool, of a mailbox or of the   *)
(* timer's heap.  The code's handles start at 900000, here at 1.            *)
EXTENDS Callers, Integers, Sequences

CONSTANTS
    MailCapacity,   \* 4096 in the code
    Delays,         \* what post_after is given
    MaxMailboxes,   \* bound: mailboxes created
    MaxLetters,     \* bound: calls of post and post_after
    MaxTime         \* bound: ticks of the clock

ASSUME MailAssumption ==
    /\ MailCapacity \in Nat \ {0} /\ Delays \subseteq Nat
    /\ MaxMailboxes \in Nat /\ MaxLetters \in Nat /\ MaxTime \in Nat

Mailers == 1..MaxMailboxes

VARIABLES
    mailMade,       \* handles given out; they are never used again
    mailOpen,       \* handles in the pool
    mailQueue,      \* letters, numbered as they were accepted
    mailAccepted, mailTaken,   \* of each mailbox, counted
    mailNow,        \* the clock
    mailHeap,       \* scheduled letters: when due, serial number, mailbox
    mailSerial,
    mailTimer,      \* the timer's thread: position, the letter in its hands,
                    \*   when its sleep ends (Never: not by itself)
    mailThread,     \* of each thread: position, mailbox, and of a delayed letter
                    \*   when it is due and its serial number
    mailCalls

mailVars == <<mailMade, mailOpen, mailQueue, mailAccepted, mailTaken, mailNow,
              mailHeap, mailSerial, mailTimer, mailThread, mailCalls>>
mailBoxes == <<mailMade, mailOpen, mailQueue, mailAccepted, mailTaken>>
mailClock == <<mailNow, mailHeap, mailSerial, mailTimer>>

Never == -1

MailIdle == [at |-> "idle", on |-> 0, due |-> 0, serial |-> 0]

TimerUp == [at |-> "look", on |-> 0, wake |-> Never]

MailInit ==
    /\ mailMade = 0 /\ mailOpen = {}
    /\ mailQueue = [m \in Mailers |-> <<>>]
    /\ mailAccepted = [m \in Mailers |-> 0]
    /\ mailTaken = [m \in Mailers |-> 0]
    /\ mailNow = 0 /\ mailHeap = {} /\ mailSerial = 0
    /\ mailTimer = [TimerUp EXCEPT !.at = "unborn"]
    /\ mailThread = [t \in Threads |-> MailIdle]
    /\ mailCalls = 0

MailAt(t, p) == mailThread[t].at = p

MailReturns(t) == mailThread' = [mailThread EXCEPT ![t] = MailIdle]

MailCreate(t) ==
    /\ MailAt(t, "idle") /\ mailMade < MaxMailboxes
    /\ mailMade' = mailMade + 1
    /\ mailOpen' = mailOpen \cup {mailMade + 1}
    /\ UNCHANGED <<mailQueue, mailAccepted, mailTaken, mailClock, mailThread,
                   mailCalls>>

\* Letters that were not taken go with the mailbox, once the last call that
\* has looked it up is over.
MailClose(t) ==
    /\ MailAt(t, "idle")
    /\ \E m \in mailOpen : mailOpen' = mailOpen \ {m}
    /\ UNCHANGED <<mailMade, mailQueue, mailAccepted, mailTaken, mailClock,
                   mailThread, mailCalls>>

\* post and take look the mailbox up and go on with it outside the pool's
\* mutex, even if it is closed meanwhile.
MailLookup(t) ==
    /\ MailAt(t, "idle")
    /\ \E m \in mailOpen :
          \/ /\ mailCalls < MaxLetters /\ mailCalls' = mailCalls + 1
             /\ mailThread' = [mailThread EXCEPT ![t].at = "post", ![t].on = m]
          \/ /\ mailThread' = [mailThread EXCEPT ![t].at = "take", ![t].on = m]
             /\ UNCHANGED mailCalls
    /\ UNCHANGED <<mailBoxes, mailClock>>

\* A full mailbox accepts nothing.
Accept(m) ==
    IF Len(mailQueue[m]) >= MailCapacity
    THEN UNCHANGED <<mailQueue, mailAccepted>>
    ELSE /\ mailQueue' = [mailQueue EXCEPT ![m] = Append(@, mailAccepted[m] + 1)]
         /\ mailAccepted' = [mailAccepted EXCEPT ![m] = @ + 1]

MailPost(t) ==
    /\ MailAt(t, "post")
    /\ Accept(mailThread[t].on)
    /\ MailReturns(t)
    /\ UNCHANGED <<mailMade, mailOpen, mailTaken, mailClock, mailCalls>>

MailTake(t) ==
    LET m == mailThread[t].on
    IN  /\ MailAt(t, "take")
        /\ IF mailQueue[m] = <<>>
           THEN UNCHANGED <<mailQueue, mailTaken>>
           ELSE /\ mailQueue' = [mailQueue EXCEPT ![m] = Tail(@)]
                /\ mailTaken' = [mailTaken EXCEPT ![m] = @ + 1]
        /\ MailReturns(t)
        /\ UNCHANGED <<mailMade, mailOpen, mailAccepted, mailClock, mailCalls>>

-----------------------------------------------------------------------------
(* Delayed letters.                                                         *)

\* post_after reads the clock and takes a number, for any handle; the first
\* call starts the thread.
Schedule(t) ==
    /\ MailAt(t, "idle") /\ mailCalls < MaxLetters
    /\ mailCalls' = mailCalls + 1
    /\ \E m \in Mailers, d \in Delays :
          mailThread' = [mailThread EXCEPT ![t] =
              [at |-> "schedule", on |-> m, due |-> mailNow + d,
               serial |-> mailSerial]]
    /\ mailSerial' = mailSerial + 1
    /\ mailTimer' = IF mailTimer.at = "unborn"
                    THEN TimerUp ELSE mailTimer
    /\ UNCHANGED <<mailBoxes, mailNow, mailHeap>>

ItemOf(t) == [due |-> mailThread[t].due, serial |-> mailThread[t].serial,
              box |-> mailThread[t].on]

\* Wrong variant: the thread is notified only of the first letter.
SchedulePushFirstNotifies(t) ==
    /\ MailAt(t, "schedule")
    /\ mailHeap' = mailHeap \cup {ItemOf(t)}
    /\ mailThread' = [mailThread EXCEPT ![t] =
           IF mailHeap = {} THEN [MailIdle EXCEPT !.at = "notify"] ELSE MailIdle]
    /\ UNCHANGED <<mailBoxes, mailNow, mailSerial, mailTimer, mailCalls>>

SchedulePush(t) ==
    /\ MailAt(t, "schedule")
    /\ mailHeap' = mailHeap \cup {ItemOf(t)}
    /\ mailThread' = [mailThread EXCEPT ![t] = [MailIdle EXCEPT !.at = "notify"]]
    /\ UNCHANGED <<mailBoxes, mailNow, mailSerial, mailTimer, mailCalls>>

\* "It may be due before the wait ends."
ScheduleNotify(t) ==
    /\ MailAt(t, "notify")
    /\ mailTimer' = IF mailTimer.at = "asleep"
                    THEN TimerUp ELSE mailTimer
    /\ MailReturns(t)
    /\ UNCHANGED <<mailBoxes, mailNow, mailHeap, mailSerial, mailCalls>>

Earlier(i, j) == i.due < j.due \/ (i.due = j.due /\ i.serial < j.serial)

Top == CHOOSE i \in mailHeap : \A j \in mailHeap \ {i} : Earlier(i, j)

\* With the heap's mutex: take out what is due, or sleep until the first is.
TimerLooks ==
    /\ mailTimer.at = "look"
    /\ IF mailHeap # {} /\ Top.due <= mailNow
       THEN /\ mailTimer' = [mailTimer EXCEPT !.at = "deliver", !.on = Top.box]
            /\ mailHeap' = mailHeap \ {Top}
       ELSE /\ mailTimer' = [at |-> "asleep", on |-> 0,
                             wake |-> IF mailHeap = {} THEN Never ELSE Top.due]
            /\ UNCHANGED mailHeap
    /\ UNCHANGED <<mailBoxes, mailNow, mailSerial, mailThread, mailCalls>>

\* Outside it: post, which is refused if the mailbox is closed ...
TimerPosts ==
    /\ mailTimer.at = "deliver"
    /\ mailTimer' = IF mailTimer.on \in mailOpen
                    THEN [mailTimer EXCEPT !.at = "push"] ELSE TimerUp
    /\ UNCHANGED <<mailBoxes, mailNow, mailHeap, mailSerial, mailThread, mailCalls>>

\* ... or full.
TimerPushes ==
    /\ mailTimer.at = "push"
    /\ Accept(mailTimer.on)
    /\ mailTimer' = TimerUp
    /\ UNCHANGED <<mailMade, mailOpen, mailTaken, mailNow, mailHeap, mailSerial,
                   mailThread, mailCalls>>

\* The wait times out, or ends for no reason.
TimerWakes ==
    /\ mailTimer.at = "asleep"
    /\ mailTimer' = TimerUp
    /\ UNCHANGED <<mailBoxes, mailNow, mailHeap, mailSerial, mailThread, mailCalls>>

MailTick ==
    /\ mailNow < MaxTime
    /\ mailNow' = mailNow + 1
    /\ UNCHANGED <<mailBoxes, mailHeap, mailSerial, mailTimer, mailThread, mailCalls>>

MailNext ==
    \/ \E t \in Threads :
          \/ MailCreate(t) \/ MailClose(t) \/ MailLookup(t) \/ MailPost(t)
          \/ MailTake(t) \/ Schedule(t) \/ SchedulePush(t) \/ ScheduleNotify(t)
    \/ TimerLooks \/ TimerPosts \/ TimerPushes \/ TimerWakes \/ MailTick

-----------------------------------------------------------------------------
MailTypes ==
    /\ mailMade \in 0..MaxMailboxes /\ mailOpen \subseteq Mailers
    /\ mailQueue \in [Mailers -> Seq(Nat \ {0})]
    /\ mailAccepted \in [Mailers -> Nat] /\ mailTaken \in [Mailers -> Nat]
    /\ mailHeap \subseteq [due : Nat, serial : Nat, box : Mailers]
    /\ mailNow \in 0..MaxTime /\ mailSerial \in Nat
    /\ mailTimer.at \in {"unborn", "look", "deliver", "push", "asleep"}
    /\ mailThread \in [Threads ->
           [at : {"idle", "post", "take", "schedule", "notify"},
            on : 0..MaxMailboxes, due : Nat, serial : Nat]]

\* "What is full refuses, and does not drop the oldest" (mailbox_ffi.rs:27): of
\* all posts, delayed ones included, each accepted letter is in the mailbox or
\* was taken by one reader, in the order in which they were accepted.
LettersOnce ==
    \A m \in Mailers :
        /\ mailAccepted[m] = mailTaken[m] + Len(mailQueue[m])
        /\ \A i \in DOMAIN mailQueue[m] : mailQueue[m][i] = mailTaken[m] + i

\* The one timer thread never sleeps beyond the first letter that is due,
\* unless a notification is on its way (mailbox_ffi.rs:254).
NoOversleep ==
    mailTimer.at = "asleep" /\ (\A t \in Threads : ~MailAt(t, "notify"))
    => \A i \in mailHeap : mailTimer.wake # Never /\ mailTimer.wake <= i.due
=============================================================================
