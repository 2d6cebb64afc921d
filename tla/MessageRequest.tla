-------------------------- MODULE MessageRequest --------------------------
(***************************************************************************)
(* CFMessagePortSendRequest of CFMessagePort.c, the callback of the reply  *)
(* port, and __CFMessagePortPerform of the process that answers.           *)
(*                                                                         *)
(* The threads send requests to one remote port and wait in one mode of    *)
(* their run loops, where a callout may send another request: a thread has *)
(* a stack of them.  A step ends where the port's lock is let go, or after *)
(* an access to _replies that is made without it.                          *)
(* Data, and the message formats that are refused, are left out.           *)
(***************************************************************************)
EXTENDS Integers, Sequences, FiniteSets, SequencesExt

CONSTANTS
  Threads,
  MaxConv,      \* the largest conversation number: INT32_MAX
  MaxRequests,  \* bound: the number of requests
  MaxDepth      \* bound: the requests of a thread that are within each other

RequestAssumption == MaxConv \in Nat /\ MaxRequests \in Nat /\ MaxDepth \in Nat

VARIABLES
  valid,       \* the remote port is valid
  conv,        \* _convCounter
  replies,     \* _replies: the conversations with a key, and what it has
  requests,    \* per thread, the requests it is in, innermost first
  hears,       \* the threads whose run loop has the source of the reply port
  sent,        \* the requests on their way: conversation numbers
  answers,     \* the messages queued at the reply port
  served,      \* the process that answers is alive
  orphans,     \* history: the conversations whose message was not sent
  timely       \* history: those whose thread has handled the reply in time

vars == <<valid, conv, replies, requests, hears, sent, answers, served, orphans, timely>>

Ids == -(MaxConv + 1)..MaxConv
Steps == {"send", "run", "handle", "read", "decide", "finish"}
Request == [pc : Steps, id : Ids, registered : BOOLEAN, due : BOOLEAN, got : BOOLEAN, msg : Ids]

\* What _replies has for a conversation: no key, NULL, or a reply.
Entries == {"none", "null", "reply"}

TypeOK ==
  /\ valid \in BOOLEAN /\ served \in BOOLEAN
  /\ conv \in Ids
  /\ replies \in [Ids -> Entries]
  /\ requests \in [Threads -> Seq(Request)]
  /\ hears \subseteq Threads
  /\ sent \in Seq(Ids) /\ answers \in Seq(Ids)
  /\ orphans \subseteq Ids /\ timely \subseteq Ids

Init ==
  /\ valid = TRUE /\ served = TRUE
  /\ conv = 0
  /\ replies = [i \in Ids |-> "none"]
  /\ requests = [t \in Threads |-> <<>>]
  /\ hears = {}
  /\ sent = <<>> /\ answers = <<>>
  /\ orphans = {} /\ timely = {}

----------------------------------------------------------------------------
Top(t) == requests[t][1]
At(t, pc) == requests[t] # <<>> /\ Top(t).pc = pc
Become(t, request) == requests' = [requests EXCEPT ![t] = <<request>> \o Tail(@)]
Goto(t, pc) == Become(t, [Top(t) EXCEPT !.pc = pc])

\* An int32_t that is incremented, or negated.
Wrap(i) == IF i > MaxConv THEN -(MaxConv + 1) ELSE i
Negated(i) == IF i = -(MaxConv + 1) THEN i ELSE -i

\* Only the source's first request in the mode registers it, and removes it.
Registers_Always(t) == TRUE   \* mutant
Registers(t) == t \notin hears

\* Called by a client, or by a callout of the run loop that an outer request
\* runs.  The port's lock is held until the message is ready.
SendRequest(t) ==
  /\ requests[t] = <<>> \/ At(t, "run")
  /\ Len(requests[t]) < MaxDepth /\ conv \in 0..MaxRequests - 1
  /\ valid
  /\ LET c == Wrap(conv + 1)
     IN /\ conv' = c
        /\ replies' = [replies EXCEPT ![Negated(c)] = "null"]
        /\ requests' = [requests EXCEPT ![t] =
             <<[pc |-> "send", id |-> Negated(c), registered |-> Registers(t), due |-> FALSE,
                got |-> FALSE, msg |-> 0]>> \o @]
  /\ hears' = hears \cup {t}
  /\ UNCHANGED <<valid, sent, answers, served, orphans, timely>>

Unregister(t) == hears' = IF Top(t).registered THEN hears \ {t} ELSE hears

\* mach_msg without the lock: it times out, or finds the port dead; then the
\* key stays where it is.
Send(t) ==
  /\ At(t, "send")
  /\ \/ /\ served
        /\ sent' = Append(sent, Negated(Top(t).id))
        /\ Goto(t, "run")
        /\ UNCHANGED <<hears, orphans>>
     \/ /\ Unregister(t)
        /\ orphans' = orphans \cup {Top(t).id}
        /\ requests' = [requests EXCEPT ![t] = Tail(@)]
        /\ UNCHANGED sent
  /\ UNCHANGED <<valid, conv, replies, answers, served, timely>>

\* CFRunLoopRunInMode returns when a source has been handled: a message of
\* the reply port, which is for any thread's request, or another source.
Receive(t) ==
  /\ At(t, "run") /\ t \in hears /\ answers # <<>>
  /\ Become(t, [Top(t) EXCEPT !.pc = "handle", !.msg = Head(answers)])
  /\ answers' = Tail(answers)
  /\ UNCHANGED <<valid, conv, replies, hears, sent, served, orphans, timely>>

Stores(id) == valid /\ replies[id] # "none"

\* __CFMessagePortReplyCallBack: the reply of no conversation is discarded,
\* as is one that has a number that cannot be a reply's.
Handle(t) ==
  /\ At(t, "handle")
  /\ LET id == Top(t).msg
         own == {i \in 1..Len(requests[t]) : requests[t][i].id = id /\ ~requests[t][i].due}
     IN /\ replies' = IF id < 0 /\ Stores(id) THEN [replies EXCEPT ![id] = "reply"] ELSE replies
        /\ timely' = IF id < 0 /\ Stores(id) /\ own # {} THEN timely \cup {id} ELSE timely
  /\ Goto(t, "read")
  /\ UNCHANGED <<valid, conv, hears, sent, answers, served, orphans>>

\* The run loop returns for another reason: another source, a stop, or time.
RunReturns(t) ==
  /\ At(t, "run")
  /\ Goto(t, "read")
  /\ UNCHANGED <<valid, conv, replies, hears, sent, answers, served, orphans, timely>>

\* Whether there is a reply is read without the lock, and before the time.
Read(t) ==
  /\ At(t, "read")
  /\ Become(t, [Top(t) EXCEPT !.pc = "decide", !.got = replies[Top(t).id] = "reply"])
  /\ UNCHANGED <<valid, conv, replies, hears, sent, answers, served, orphans, timely>>

Ends_InTime(t) == Top(t).got \/ ~valid   \* mutant
Ends(t) == Top(t).got \/ Top(t).due \/ ~valid
Decide(t) ==
  /\ At(t, "decide")
  /\ Goto(t, IF Ends(t) THEN "finish" ELSE "run")
  /\ UNCHANGED <<valid, conv, replies, hears, sent, answers, served, orphans, timely>>

\* The source is removed by the request that registered it, and the key is.
Finish(t) ==
  /\ At(t, "finish")
  /\ Unregister(t)
  /\ replies' = [replies EXCEPT ![Top(t).id] = "none"]
  /\ requests' = [requests EXCEPT ![t] = Tail(@)]
  /\ UNCHANGED <<valid, conv, sent, answers, served, orphans, timely>>

\* Time: the deadline of a request passes, whatever its thread is doing.
Expire(t) ==
  /\ \E i \in 1..Len(requests[t]) :
       /\ ~requests[t][i].due /\ requests[t][i].pc # "send"
       /\ requests' = [requests EXCEPT ![t][i].due = TRUE]
  /\ UNCHANGED <<valid, conv, replies, hears, sent, answers, served, orphans, timely>>

----------------------------------------------------------------------------
(* The other process, and the invalidation of the port. *)

\* __CFMessagePortPerform: a request that has a number it cannot have is
\* dropped, the answer has the negated number.
Serve ==
  /\ served /\ sent # <<>>
  /\ sent' = Tail(sent)
  /\ answers' = IF Head(sent) > 0 /\ valid THEN Append(answers, Negated(Head(sent))) ELSE answers
  /\ UNCHANGED <<valid, conv, replies, requests, hears, served, orphans, timely>>

\* The process ends, or its local port is invalidated: no answer comes.
Crash ==
  /\ served
  /\ served' = FALSE /\ sent' = <<>>
  /\ UNCHANGED <<valid, conv, replies, requests, hears, answers, orphans, timely>>

\* CFMessagePortInvalidate of the remote port: its reply port goes with it,
\* with the source and the messages.
Invalidate ==
  /\ valid
  /\ valid' = FALSE /\ hears' = {} /\ answers' = <<>>
  /\ UNCHANGED <<conv, replies, requests, sent, served, orphans, timely>>

Thread(t) == Send(t) \/ Receive(t) \/ Handle(t) \/ RunReturns(t) \/ Read(t) \/ Decide(t) \/ Finish(t)

Next ==
  \/ \E t \in Threads : SendRequest(t) \/ Thread(t) \/ Expire(t)
  \/ Serve \/ Crash \/ Invalidate

\* Every thread runs, and time passes.
Fairness == \A t \in Threads : WF_vars(Thread(t)) /\ WF_vars(Expire(t))
Spec == Init /\ [][Next]_vars /\ Fairness

----------------------------------------------------------------------------
Requests(t) == ToSet(requests[t])

\* CFMessagePort.c:968, 977.  Keys do not pile up: _replies has only those of the
\* requests that are being made, and of those whose message was not sent; a
\* late reply brings none back.
KeysArePending ==
  \A i \in Ids : replies[i] # "none" =>
    i \in orphans \/ \E t \in Threads : \E r \in Requests(t) : r.id = i

\* CFMessagePort.c:914, 963.  While a request waits, its run loop listens to the
\* reply port, whatever requests within it or before it have come and gone.
WaitersCanHear ==
  \A t \in Threads : valid /\ requests[t] # <<>> => t \in hears

\* CFMessagePort.c:952.  A reply that the thread's own run loop has handled
\* before the deadline is what its request returns, although the deadline may
\* have passed, or the port have been invalidated, when it is looked for.
TimelyReplyIsReturned ==
  \A t \in Threads : At(t, "finish") /\ Top(t).id \in timely => Top(t).got

\* CFMessagePort.c:949.  A request returns, whether or not a reply comes.
RequestsEnd ==
  \A t \in Threads : requests[t] # <<>> ~> requests[t] = <<>>
=============================================================================
