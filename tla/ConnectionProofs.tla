--------------------------- MODULE ConnectionProofs ---------------------------
(***************************************************************************)
(* Proofs about Connection, for any faults, races and bound.               *)
(*                                                                         *)
(* TypeInv adds to TypeOK that the queues are sequences, and that a call   *)
(* only waits for the reply to a request.                                  *)
(*                                                                         *)
(* UrlInv says what UrlCurrent needs of a socket with commands on their    *)
(* way: the last of them that opens or closes it decides, and if it opens  *)
(* it, it does so for the streams that are wanted now.                     *)
(***************************************************************************)
EXTENDS Connection, SequenceTheorems, TLAPS

Requests == {"info", "start", "time", "auth", "orders"}
CallSet == [todo : Seq(Requests), at : {"run", "wait", "done"}]

IsMap(f) == f = [s \in Sockets |-> f[s]]

SocketsTyped ==
  /\ sock \in [Sockets -> {"closed", "connecting", "open"}]
  /\ {dead, pong} \subseteq [Sockets -> BOOLEAN]
StreamsTyped ==
  /\ IsMap(url) /\ IsMap(templates)
  /\ \A s \in Sockets : url[s] \subseteq StreamsOf(s) /\ templates[s] \subseteq StreamsOf(s)
CommandsTyped ==
  IsMap(commands) /\ \A s \in Sockets : commands[s] \in Seq(CommandSet(s))
EventsTyped == events \in Seq(EventSet)
CallsTyped ==
  /\ calls \in Seq(CallSet)
  /\ \A i \in 1 .. Len(calls) :
       /\ calls[i].at # "run" => calls[i].todo # <<>>
       /\ calls[i].at = "wait" => Head(calls[i].todo) # "start"
       /\ calls[i].at = "done" => i < Len(calls)
FlagsTyped ==
  /\ {online, blocked, pingTimer, putTimer, clock, stale} \subseteq BOOLEAN
  /\ refused \subseteq {"time", "auth", "orders"}
KeysTyped == keys \in Nat /\ {token, put, key} \subseteq 0 .. keys

TypeInv ==
  /\ SocketsTyped /\ StreamsTyped /\ CommandsTyped /\ EventsTyped /\ CallsTyped
  /\ FlagsTyped /\ KeysTyped
  /\ faults \in 0 .. MaxFaults

-----------------------------------------------------------------------------
(* What the client posts to the thread of a socket.                        *)

(* What is posted comes after what the thread of that socket has yet to    *)
(* execute; the other thread is not concerned.                             *)
LEMMA PostTyped ==
  ASSUME IsMap(commands), NEW s \in Sockets, NEW S, NEW posted \in Seq(S),
         commands[s] \in Seq(S), Post(s, posted)
  PROVE  /\ IsMap(commands')
         /\ commands'[s] = commands[s] \o posted /\ commands'[s] \in Seq(S)
         /\ \A t \in Sockets \ {s} : commands'[t] = commands[t]
<1>1. commands' = [t \in Sockets |-> IF t = s THEN commands[s] \o posted ELSE commands[t]]
  BY DEF IsMap, Post
<1>2. commands[s] \o posted \in Seq(S)
  BY ConcatProperties
<1>3. QED
  BY <1>1, <1>2 DEF IsMap

(* A command is what the type of the posted commands says.                 *)
LEMMA OpenTyped ==
  ASSUME NEW S, NEW streams \in SUBSET S
  PROVE  OpenOf(streams) \in Seq([op : {"open", "close", "ping"}, streams : SUBSET S])
<1> DEFINE C == [op : {"open", "close", "ping"}, streams : SUBSET S]
<1>1. Command("open", streams) \in C
  BY DEF Command
<1>2. <<Command("open", streams)>> \in Seq(C) /\ <<>> \in Seq(C)
  BY <1>1, EmptySeq
<1>3. QED
  BY <1>2 DEF OpenOf

(* So is what a reconnection posts.                                        *)
LEMMA ReconnectTyped ==
  ASSUME NEW S, NEW streams \in SUBSET S, NEW s \in Sockets
  PROVE  ReconnectOf(s, streams) \in Seq([op : {"open", "close", "ping"}, streams : SUBSET S])
<1> DEFINE C == [op : {"open", "close", "ping"}, streams : SUBSET S]
<1>1. Command("close", {}) \in C
  BY DEF Command
<1>2. <<Command("close", {})>> \in Seq(C)
  BY <1>1
<1>3. OpenOf(streams) \in Seq(C)
  BY OpenTyped
<1> HIDE DEF C
<1>4. <<Command("close", {})>> \o OpenOf(streams) \in Seq(C)
  BY <1>2, <1>3, ConcatProperties
<1>5. ReconnectOf(s, streams) \in Seq(C)
  BY <1>3, <1>4 DEF ReconnectOf
<1>6. QED
  BY <1>5 DEF C

(* And what adding a stream posts.                                         *)
LEMMA AddStreamTyped ==
  ASSUME NEW S, NEW s \in Sockets, templates[s] \subseteq S, NEW stream \in S
  PROVE  AddStreamOf(s, stream) \in Seq([op : {"open", "close", "ping"}, streams : SUBSET S])
<1>1. ReconnectOf(s, templates[s] \cup {stream}) \in Seq([op : {"open", "close", "ping"}, streams : SUBSET S])
  BY ReconnectTyped
<1>2. <<>> \in Seq([op : {"open", "close", "ping"}, streams : SUBSET S])
  BY EmptySeq
<1>3. QED
  BY <1>1, <1>2 DEF AddStreamOf

-----------------------------------------------------------------------------
(* The stack of calls.                                                     *)

(* What is true of every call of a sequence but the last one's place.      *)
StackTyped(stack) ==
  /\ stack \in Seq(CallSet)
  /\ \A i \in 1 .. Len(stack) :
       /\ stack[i].at # "run" => stack[i].todo # <<>>
       /\ stack[i].at = "wait" => Head(stack[i].todo) # "start"

(* A call that begins.                                                     *)
LEMMA CallTyped ==
  ASSUME NEW todo \in Seq(Requests)
  PROVE  Call(todo) \in CallSet /\ Call(todo).at = "run"
BY DEF Call, CallSet

(* All but the last element of a sequence.                                 *)
LEMMA FrontTyped ==
  ASSUME NEW S, NEW q \in Seq(S), q # <<>>
  PROVE  /\ Front(q) \in Seq(S) /\ Len(Front(q)) = Len(q) - 1
         /\ \A i \in 1 .. Len(q) - 1 : Front(q)[i] = q[i]
<1>1. Len(q) \in Nat \ {0} /\ \A i \in 1 .. Len(q) : q[i] \in S
  BY EmptySeq, ElementOfSeq, LenProperties
<1>2. PICK n : n = Len(q) - 1
  OBVIOUS
<1>3. n \in Nat /\ n - 1 + 1 = n /\ (1 <= n \/ n = 0) /\ \A i \in 1 .. n : i \in 1 .. Len(q)
  BY <1>1, <1>2
<1>4. \A i \in 1 .. n : 1 + i - 1 = i
  BY <1>3
<1>5. /\ SubSeq(q, 1, n) \in Seq(S)
      /\ Len(SubSeq(q, 1, n)) = IF 1 <= n THEN n - 1 + 1 ELSE 0
      /\ \A i \in 1 .. n - 1 + 1 : SubSeq(q, 1, n)[i] = q[1 + i - 1]
  BY <1>1, <1>3, SubSeqProperties
<1>6. Len(SubSeq(q, 1, n)) = n
  BY <1>3, <1>5
<1>7. \A i \in 1 .. n : SubSeq(q, 1, n)[i] = q[i]
  BY <1>3, <1>4, <1>5
<1>8. QED
  BY <1>2, <1>5, <1>6, <1>7 DEF Front

(* A handler that returns or goes on leaves a stack where every call that  *)
(* has its reply has another call above it.                                *)
LEMMA ContinueTyped ==
  ASSUME NEW stack, StackTyped(stack)
  PROVE  /\ StackTyped(Continue(stack))
         /\ \/ Continue(stack) = stack
            \/ Len(Continue(stack)) = Len(stack)
         /\ \A i \in 1 .. Len(stack) :
              Continue(stack)[i].at = "done" => stack[i].at = "done" /\ i < Len(stack)
<1> USE DEF StackTyped
<1>1. CASE stack = <<>> \/ Last(stack).at # "done"
  BY <1>1 DEF Continue, Last
<1>2. CASE ~(stack = <<>> \/ Last(stack).at # "done")
  <2> DEFINE n == Len(stack)
             c == Call(Tail(Last(stack).todo))
             f == Front(stack)
  <2>1. n \in Nat \ {0} /\ stack[n] \in CallSet /\ stack[n].at = "done"
    BY <1>2, EmptySeq, ElementOfSeq, LenProperties DEF Last
  <2>2. stack[n].todo \in Seq(Requests) /\ stack[n].todo # <<>>
    BY <2>1 DEF CallSet
  <2>3. Tail(stack[n].todo) \in Seq(Requests)
    BY <2>2, HeadTailProperties
  <2>4. c \in CallSet /\ c.at = "run"
    BY <2>3, CallTyped DEF Last
  <2>5. /\ f \in Seq(CallSet) /\ Len(f) = n - 1
        /\ \A i \in 1 .. n - 1 : f[i] = stack[i]
    BY <1>2, FrontTyped
  <2> HIDE DEF c, f
  <2>6. /\ Append(f, c) \in Seq(CallSet) /\ Len(Append(f, c)) = n
        /\ \A i \in 1 .. n - 1 : Append(f, c)[i] = stack[i]
        /\ Append(f, c)[n] = c
    BY <2>1, <2>4, <2>5, AppendProperties
  <2>7. Continue(stack) = Append(f, c)
    BY <1>2 DEF Continue, c, f
  <2> HIDE DEF n
  <2>8. \A i \in 1 .. n : i = n \/ i \in 1 .. n - 1
    BY <2>1
  <2>9. StackTyped(Append(f, c))
    BY <2>4, <2>6, <2>8 DEF n
  <2>10. QED
    BY <2>1, <2>4, <2>6, <2>7, <2>8, <2>9 DEF n
<1>3. QED
  BY <1>1, <1>2

(* A typed call in place of another leaves a typed stack.                  *)
LEMMA ExceptTyped ==
  ASSUME NEW stack, StackTyped(stack), NEW i \in 1 .. Len(stack), NEW c \in CallSet,
         c.at # "run" => c.todo # <<>>, c.at = "wait" => Head(c.todo) # "start"
  PROVE  /\ StackTyped([stack EXCEPT ![i] = c])
         /\ Len([stack EXCEPT ![i] = c]) = Len(stack)
         /\ \A j \in 1 .. Len(stack) : [stack EXCEPT ![i] = c][j] = IF j = i THEN c ELSE stack[j]
<1>1. [stack EXCEPT ![i] = c] \in Seq(CallSet) /\ Len([stack EXCEPT ![i] = c]) = Len(stack)
  BY ExceptSeq DEF StackTyped
<1>2. \A j \in 1 .. Len(stack) : [stack EXCEPT ![i] = c][j] = IF j = i THEN c ELSE stack[j]
  BY DEF StackTyped
<1>3. QED
  BY <1>1, <1>2 DEF StackTyped

(* Calls that begin on top of a typed stack leave a typed stack.           *)
LEMMA BegunTyped ==
  ASSUME NEW stack, StackTyped(stack), NEW begun, StackTyped(begun)
  PROVE  /\ StackTyped(stack \o begun)
         /\ Len(stack \o begun) = Len(stack) + Len(begun)
         /\ \A i \in 1 .. Len(stack) : (stack \o begun)[i] = stack[i]
         /\ \A i \in Len(stack) + 1 .. Len(stack) + Len(begun) :
              (stack \o begun)[i] = begun[i - Len(stack)] /\ i - Len(stack) \in 1 .. Len(begun)
<1> DEFINE m == Len(stack)
           n == Len(begun)
           all == stack \o begun
<1>1. stack \in Seq(CallSet) /\ begun \in Seq(CallSet) /\ m \in Nat /\ n \in Nat
  BY LenProperties DEF StackTyped
<1>2. /\ all \in Seq(CallSet) /\ Len(all) = m + n
      /\ \A i \in 1 .. m + n : all[i] = IF i <= m THEN stack[i] ELSE begun[i - m]
  BY <1>1, ConcatProperties
<1> HIDE DEF all
<1>3. \A i \in 1 .. m + n : i \in 1 .. m \/ (~(i <= m) /\ i - m \in 1 .. n)
  BY <1>1
<1>4. \A i \in 1 .. m : i \in 1 .. m + n /\ i <= m
  BY <1>1
<1>5. \A i \in m + 1 .. m + n : i \in 1 .. m + n /\ ~(i <= m) /\ i - m \in 1 .. n
  BY <1>1
<1> HIDE DEF m, n
<1>6. StackTyped(all)
  <2>1. \A i \in 1 .. m + n : \/ i \in 1 .. m /\ all[i] = stack[i]
                              \/ i - m \in 1 .. n /\ all[i] = begun[i - m]
    BY <1>2, <1>3, <1>4
  <2>2. QED
    BY <1>2, <2>1 DEF StackTyped, m, n
<1>7. QED
  BY <1>2, <1>4, <1>5, <1>6 DEF all, m, n

(* The handlers that a signal begins, one or both of them.                 *)
LEMMA HandlersTyped ==
  /\ \A todo \in Seq(Requests) : StackTyped(<<Call(todo)>>)
  /\ PrivateCalls \in Seq(Requests) /\ PublicCalls \in Seq(Requests)
  /\ StackTyped(BothHandlers) /\ StackTyped(<<>>) /\ <<>> \in Seq(Requests)
  /\ \A i \in 1 .. Len(BothHandlers) : BothHandlers[i].at = "run"
<1>1. \A todo \in Seq(Requests) : StackTyped(<<Call(todo)>>)
  BY CallTyped DEF StackTyped
<1>2. PrivateCalls \in Seq(Requests) /\ PublicCalls \in Seq(Requests)
  BY DEF PrivateCalls, PublicCalls, Requests
<1>3. StackTyped(BothHandlers) /\ \A i \in 1 .. Len(BothHandlers) : BothHandlers[i].at = "run"
  <2>1. Call(PrivateCalls) \in CallSet /\ Call(PrivateCalls).at = "run"
    BY <1>2, CallTyped
  <2>2. Call(PublicCalls) \in CallSet /\ Call(PublicCalls).at = "run"
    BY <1>2, CallTyped
  <2>3. QED
    BY <2>1, <2>2 DEF BothHandlers, StackTyped
<1>4. StackTyped(<<>>)
  BY EmptySeq DEF StackTyped
<1>5. <<>> \in Seq(Requests)
  BY EmptySeq
<1>6. QED
  BY <1>1, <1>2, <1>3, <1>4, <1>5

(* Typed calls are a typed stack whose top has no reply.                   *)
LEMMA CallsAreStack ==
  CallsTyped <=> /\ StackTyped(calls)
                 /\ \A i \in 1 .. Len(calls) : calls[i].at = "done" => i < Len(calls)
BY DEF CallsTyped, StackTyped

(* A reply lets calls begin on top and the topmost call go on.             *)
LEMMA AnsweredTyped ==
  ASSUME CallsTyped, NEW i \in 1 .. Len(calls), calls[i].at = "wait",
         NEW begun, StackTyped(begun), Answered(i, begun)
  PROVE  CallsTyped'
<1> DEFINE c == [calls[i] EXCEPT !.at = "done"]
           replied == [calls EXCEPT ![i] = c]
           stack == replied \o begun
<1>1. StackTyped(calls) /\ calls \in Seq(CallSet) /\ calls[i] \in CallSet
  BY CallsAreStack, ElementOfSeq DEF CallsTyped
<1>2. c \in CallSet /\ c.todo # <<>> /\ c.at = "done"
  BY <1>1 DEF CallSet, CallsTyped
<1>3. [calls EXCEPT ![i].at = "done"] = replied
  BY <1>1
<1> HIDE DEF c
<1>4. StackTyped(replied)
  BY <1>1, <1>2, ExceptTyped
<1>5. calls' = Continue(stack)
  BY <1>3 DEF Answered
<1> HIDE DEF replied
<1>6. StackTyped(stack)
  BY <1>4, BegunTyped
<1> HIDE DEF stack
<1>7. /\ StackTyped(calls') /\ Len(calls') = Len(stack)
      /\ \A j \in 1 .. Len(stack) : calls'[j].at = "done" => j < Len(stack)
  BY <1>5, <1>6, ContinueTyped
<1>8. QED
  BY <1>7 DEF CallsTyped, StackTyped

(* Handlers begin on top of those under way.                               *)
LEMMA BeginTyped ==
  ASSUME CallsTyped, NEW begun, StackTyped(begun),
         \A i \in 1 .. Len(begun) : begun[i].at = "run", calls' = calls \o begun
  PROVE  CallsTyped'
<1>1. StackTyped(calls) /\ Len(calls) \in Nat /\ Len(begun) \in Nat
  BY CallsAreStack, LenProperties DEF CallsTyped, StackTyped
<1>2. /\ StackTyped(calls') /\ Len(calls') = Len(calls) + Len(begun)
      /\ \A i \in 1 .. Len(calls) : calls'[i] = calls[i]
      /\ \A i \in Len(calls) + 1 .. Len(calls) + Len(begun) :
           calls'[i] = begun[i - Len(calls)] /\ i - Len(calls) \in 1 .. Len(begun)
  BY <1>1, BegunTyped
<1>3. ASSUME NEW i \in 1 .. Len(calls'), calls'[i].at = "done"
      PROVE  i < Len(calls')
  <2>1. i \in 1 .. Len(calls) \/ i \in Len(calls) + 1 .. Len(calls) + Len(begun)
    BY <1>1, <1>2
  <2>2. i \in 1 .. Len(calls)
    BY <1>2, <1>3, <2>1
  <2>3. i < Len(calls)
    BY <1>2, <1>3, <2>2 DEF CallsTyped
  <2>4. QED
    BY <1>1, <1>2, <2>2, <2>3
<1>4. QED
  BY <1>2, <1>3 DEF CallsTyped, StackTyped

(* The stack pops: a return, or the reply to the call below.               *)
LEMMA ReturnTyped ==
  ASSUME CallsTyped, calls # <<>>, calls' = Continue(Front(calls))
  PROVE  CallsTyped'
<1>1. StackTyped(calls) /\ calls \in Seq(CallSet)
  BY CallsAreStack DEF CallsTyped
<1>2. /\ Front(calls) \in Seq(CallSet) /\ Len(Front(calls)) = Len(calls) - 1
      /\ \A i \in 1 .. Len(calls) - 1 : Front(calls)[i] = calls[i]
  BY <1>1, FrontTyped
<1>3. Len(calls) \in Nat /\ \A i \in 1 .. Len(calls) - 1 : i \in 1 .. Len(calls)
  BY <1>1, LenProperties
<1>4. StackTyped(Front(calls))
  BY <1>1, <1>2, <1>3 DEF StackTyped
<1>5. /\ StackTyped(calls') /\ Len(calls') = Len(Front(calls))
      /\ \A j \in 1 .. Len(Front(calls)) : calls'[j].at = "done" => j < Len(Front(calls))
  BY <1>4, ContinueTyped
<1>6. QED
  BY <1>5 DEF CallsTyped, StackTyped

(* The topmost call changes, and has no reply yet.                         *)
LEMMA TopTyped ==
  ASSUME CallsTyped, calls # <<>>, NEW c \in CallSet, calls' = [calls EXCEPT ![Len(calls)] = c],
         c.at # "done", c.at = "wait" => c.todo # <<>> /\ Head(c.todo) # "start"
  PROVE  CallsTyped'
<1>1. StackTyped(calls) /\ calls \in Seq(CallSet) /\ Len(calls) \in Nat \ {0}
  BY CallsAreStack, EmptySeq, LenProperties DEF CallsTyped
<1>2. Len(calls) \in 1 .. Len(calls) /\ (c.at # "run" => c.at = "wait")
  BY <1>1 DEF CallSet
<1>3. /\ StackTyped(calls') /\ Len(calls') = Len(calls)
      /\ \A j \in 1 .. Len(calls) : calls'[j] = IF j = Len(calls) THEN c ELSE calls[j]
  <2>1. (c.at # "run" => c.todo # <<>>) /\ (c.at = "wait" => Head(c.todo) # "start")
    BY <1>2
  <2>2. PICK n \in 1 .. Len(calls) : n = Len(calls)
    BY <1>2
  <2>3. /\ StackTyped([calls EXCEPT ![n] = c]) /\ Len([calls EXCEPT ![n] = c]) = Len(calls)
        /\ \A j \in 1 .. Len(calls) : [calls EXCEPT ![n] = c][j] = IF j = n THEN c ELSE calls[j]
    <3> HIDE DEF StackTyped
    <3>1. StackTyped(calls) /\ c \in CallSet
      BY <1>1
    <3>2. QED
      BY ONLY <2>1, <3>1, ExceptTyped
  <2>4. QED
    BY <2>2, <2>3
<1>4. ASSUME NEW i \in 1 .. Len(calls'), calls'[i].at = "done"
      PROVE  i < Len(calls')
  <2>1. calls'[i] = IF i = Len(calls) THEN c ELSE calls[i]
    BY <1>3
  <2>2. QED
    BY <1>3, <1>4, <2>1 DEF CallsTyped
<1>5. QED
  BY <1>3, <1>4 DEF CallsTyped, StackTyped

-----------------------------------------------------------------------------
(* The steps keep the types.                                               *)

(* The parts of the type invariant speak of few variables each.            *)
LEMMA TypedUnchanged ==
  /\ CommandsTyped /\ UNCHANGED <<commands, keys>> => CommandsTyped'
  /\ StreamsTyped /\ UNCHANGED <<url, templates, keys>> => StreamsTyped'
  /\ SocketsTyped /\ UNCHANGED <<sock, dead, pong>> => SocketsTyped'
  /\ EventsTyped /\ UNCHANGED events => EventsTyped'
  /\ CallsTyped /\ UNCHANGED calls => CallsTyped'
  /\ FlagsTyped /\ UNCHANGED <<network, timers, clock, history>> => FlagsTyped'
  /\ KeysTyped /\ UNCHANGED login => KeysTyped'
BY DEF CommandsTyped, StreamsTyped, SocketsTyped, EventsTyped, CallsTyped, FlagsTyped, KeysTyped,
       CommandSet, StreamsOf, IsMap, network, timers, history, login

(* What a client posts while no key is given keeps its queue typed.        *)
LEMMA PostKeepsTyped ==
  ASSUME CommandsTyped, UNCHANGED keys, NEW s \in Sockets,
         NEW posted \in Seq(CommandSet(s)), Post(s, posted)
  PROVE  CommandsTyped'
<1>1. /\ IsMap(commands') /\ commands'[s] \in Seq(CommandSet(s))
      /\ \A t \in Sockets \ {s} : commands'[t] = commands[t]
  BY PostTyped DEF CommandsTyped
<1>2. \A t \in Sockets : CommandSet(t)' = CommandSet(t)
  BY DEF CommandSet, StreamsOf
<1>3. QED
  BY <1>1, <1>2 DEF CommandsTyped

(* What the operators of the client post has that type.                    *)
LEMMA PostedTyped ==
  ASSUME NEW s \in Sockets, templates[s] \subseteq StreamsOf(s)
  PROVE  /\ \A streams \in SUBSET StreamsOf(s) :
              OpenOf(streams) \in Seq(CommandSet(s)) /\ ReconnectOf(s, streams) \in Seq(CommandSet(s))
         /\ \A stream \in StreamsOf(s) : AddStreamOf(s, stream) \in Seq(CommandSet(s))
         /\ <<>> \in Seq(CommandSet(s))
BY OpenTyped, ReconnectTyped, AddStreamTyped, EmptySeq DEF CommandSet

(* The thread of a web socket takes a command: opened, closed, or neither. *)
LEMMA ExecuteTyped ==
  ASSUME TypeInv, NEW s \in Sockets, Execute(s)
  PROVE  TypeInv'
<1> DEFINE q == commands[s]
           c == Head(q)
<1> USE DEF TypeInv
<1>1. q \in Seq(CommandSet(s)) /\ q # <<>> /\ UNCHANGED <<pong, templates, calls, keys>>
  BY DEF Execute, CommandsTyped, login
<1>2. c \in CommandSet(s) /\ Tail(q) \in Seq(CommandSet(s))
  BY <1>1, HeadTailProperties
<1>3. commands' = [commands EXCEPT ![s] = Tail(@)]
  BY DEF Execute
<1>4. CommandsTyped'
  <2>1. commands' = [t \in Sockets |-> IF t = s THEN Tail(q) ELSE commands[t]]
    BY <1>3 DEF CommandsTyped, IsMap
  <2>2. \A t \in Sockets : CommandSet(t)' = CommandSet(t)
    BY <1>1 DEF CommandSet, StreamsOf
  <2> HIDE DEF q
  <2>3. QED
    BY <1>2, <2>1, <2>2 DEF CommandsTyped, IsMap
<1>5. c.op \in {"open", "close", "ping"} /\ c.streams \subseteq StreamsOf(s)
  BY <1>2 DEF CommandSet
<1>6. /\ sock' \in {sock, [sock EXCEPT ![s] = "connecting"], [sock EXCEPT ![s] = "closed"]}
      /\ url' \in {url, [url EXCEPT ![s] = c.streams]}
      /\ events' \in {events, Append(events, Event(s, "disconnected")),
                      Append(events, Event(s, "pong"))}
      /\ dead' = [dead EXCEPT ![s] = @ /\ c.op = "ping"]
      /\ stale' = (stale \/ (s = "user" /\ IsOpen(s) /\ c.op # "ping"))
  BY <1>5 DEF Execute
<1> HIDE DEF c
<1>7. SocketsTyped'
  BY <1>1, <1>6 DEF SocketsTyped
<1>8. StreamsTyped'
  BY <1>1, <1>5, <1>6 DEF StreamsTyped, StreamsOf, IsMap
<1>9. EventsTyped'
  <2>1. Event(s, "disconnected") \in EventSet /\ Event(s, "pong") \in EventSet
    BY DEF Event, EventSet
  <2>2. QED
    BY <1>6, <2>1, AppendProperties DEF EventsTyped
<1>10. FlagsTyped'
  BY <1>6 DEF Execute, FlagsTyped, network, timers, IsOpen
<1>11. CallsTyped' /\ KeysTyped' /\ faults' \in 0 .. MaxFaults
  BY <1>1, TypedUnchanged DEF Execute
<1>12. QED
  BY <1>4, <1>7, <1>8, <1>9, <1>10, <1>11

(* A web socket that connects tells it by an event of its own kind.        *)
LEMMA ConnectTyped ==
  ASSUME TypeInv, NEW s \in Sockets, Connect(s)
  PROVE  TypeInv'
<1> USE DEF TypeInv
<1>1. SocketsTyped'
  BY DEF Connect, SocketsTyped, sockets, client
<1>2. StreamsTyped' /\ CommandsTyped'
  BY TypedUnchanged DEF Connect, sockets, client, login
<1>3. EventsTyped' /\ CallsTyped' /\ FlagsTyped' /\ KeysTyped' /\ faults' \in 0 .. MaxFaults
  BY TypedUnchanged DEF Connect, thread
<1>4. QED
  BY <1>1, <1>2, <1>3

(* A web socket that is lost may leave an event, whatever took it away.    *)
LEMMA LoseTyped ==
  ASSUME TypeInv, NEW s \in Sockets, NEW how, Lose(s, how), faults' \in 0 .. MaxFaults
  PROVE  TypeInv'
<1> USE DEF TypeInv
<1>1. SocketsTyped'
  BY DEF Lose, SocketsTyped, client
<1>2. StreamsTyped' /\ CommandsTyped'
  BY TypedUnchanged DEF Lose, client, login
<1>3. EventsTyped'
  <2> DEFINE errors == IF how = "clean" THEN <<>> ELSE <<Event(s, "error")>>
  <2>1. Event(s, "error") \in EventSet /\ Event(s, "disconnected") \in EventSet
    BY DEF Event, EventSet
  <2>2. errors \in Seq(EventSet) /\ <<Event(s, "disconnected")>> \in Seq(EventSet)
    BY <2>1, EmptySeq
  <2>3. events' = events \o errors \o <<Event(s, "disconnected")>>
    BY DEF Lose
  <2> HIDE DEF errors
  <2>4. events \o errors \in Seq(EventSet)
    BY <2>2, ConcatProperties DEF EventsTyped
  <2>5. QED
    BY <2>2, <2>3, <2>4, ConcatProperties DEF EventsTyped
<1>4. FlagsTyped'
  BY DEF Lose, FlagsTyped, network, timers, IsOpen
<1>5. CallsTyped' /\ KeysTyped'
  BY TypedUnchanged DEF Lose
<1>6. QED
  BY <1>1, <1>2, <1>3, <1>4, <1>5

(* The environment may interfere once more.                                *)
LEMMA FaultCounted ==
  ASSUME faults \in 0 .. MaxFaults, NEW kind, Fault(kind)
  PROVE  faults' \in 0 .. MaxFaults
BY BoundAssumption DEF Fault

(* The slot of a connection, a disconnection or a message is served.       *)
LEMMA DeliverTyped ==
  ASSUME TypeInv, Deliver
  PROVE  TypeInv'
<1> DEFINE e == Head(events)
<1> USE DEF TypeInv
<1>1. e \in EventSet /\ Tail(events) \in Seq(EventSet) /\ events' = Tail(events)
  BY HeadTailProperties DEF Deliver, EventsTyped
<1>2. UNCHANGED <<sockets, templates, network, timers, clock, login, history, faults>>
  BY DEF Deliver
<1>3. e.socket \in Sockets /\ e.ev \in {"disconnected", "error", "pong", "opened"}
  BY <1>1 DEF EventSet
<1>4. StreamsTyped' /\ FlagsTyped' /\ KeysTyped' /\ faults' \in 0 .. MaxFaults
  BY <1>2, TypedUnchanged DEF sockets, login
<1>5. EventsTyped'
  BY <1>1 DEF EventsTyped
<1>6. /\ pong' \in {pong, [pong EXCEPT ![e.socket] = TRUE], [pong EXCEPT ![e.socket] = FALSE]}
      /\ \/ commands' = commands
         \/ Post(e.socket, ReconnectOf(e.socket, templates[e.socket]))
      /\ \/ calls' = calls
         \/ \E todo \in {PrivateCalls, PublicCalls} : calls' = Append(calls, Call(todo))
         \/ calls' = calls \o BothHandlers
  BY <1>3 DEF Deliver
<1> HIDE DEF e
<1>7. SocketsTyped'
  BY <1>2, <1>3, <1>6 DEF SocketsTyped, sockets
<1>8. CommandsTyped'
  <2>1. CASE commands' = commands
    BY <1>2, <2>1, TypedUnchanged DEF login
  <2>2. CASE Post(e.socket, ReconnectOf(e.socket, templates[e.socket]))
    <3>1. templates[e.socket] \subseteq StreamsOf(e.socket)
      BY <1>3 DEF StreamsTyped
    <3>2. ReconnectOf(e.socket, templates[e.socket]) \in Seq(CommandSet(e.socket))
      BY <1>3, <3>1, PostedTyped
    <3>3. QED
      BY <1>2, <1>3, <2>2, <3>2, PostKeepsTyped DEF login
  <2>3. QED
    BY <1>6, <2>1, <2>2
<1>9. CallsTyped'
  <2>1. CASE calls' = calls
    BY <2>1, TypedUnchanged
  <2>2. ASSUME NEW todo \in {PrivateCalls, PublicCalls}, calls' = Append(calls, Call(todo))
        PROVE  CallsTyped'
    <3>1. todo \in Seq(Requests)
      BY HandlersTyped
    <3>2. StackTyped(<<Call(todo)>>) /\ Call(todo) \in CallSet /\ Call(todo).at = "run"
      BY <3>1, HandlersTyped, CallTyped
    <3>3. calls' = calls \o <<Call(todo)>>
      BY <2>2, <3>2, AppendIsConcat DEF CallsTyped
    <3>4. \A i \in 1 .. Len(<<Call(todo)>>) : <<Call(todo)>>[i].at = "run"
      BY <3>2
    <3>5. QED
      BY <3>2, <3>3, <3>4, BeginTyped
  <2>3. CASE calls' = calls \o BothHandlers
    BY <2>3, HandlersTyped, BeginTyped
  <2>4. QED
    BY <1>6, <2>1, <2>2, <2>3
<1>10. QED
  BY <1>4, <1>5, <1>7, <1>8, <1>9

(* The top of the stack is one of its calls.                               *)
LEMMA TopIsCall ==
  ASSUME CallsTyped, Running
  PROVE  /\ calls # <<>> /\ Len(calls) \in 1 .. Len(calls)
         /\ calls[Len(calls)] \in CallSet /\ Top = calls[Len(calls)] /\ Top.at = "run"
         /\ Top.todo \in Seq(Requests)
<1>1. calls \in Seq(CallSet) /\ calls # <<>> /\ Top.at = "run"
  BY DEF CallsTyped, Running
<1>2. Len(calls) \in 1 .. Len(calls)
  BY <1>1, EmptySeq, LenProperties
<1>3. calls[Len(calls)] \in CallSet
  BY <1>1, <1>2, ElementOfSeq
<1>4. QED
  BY <1>1, <1>2, <1>3 DEF Top, CallSet

(* A request leaves, or a block makes the call go on without it.           *)
LEMMA RequestTyped ==
  ASSUME TypeInv, Request
  PROVE  TypeInv'
<1> DEFINE top == calls[Len(calls)]
           waits == [top EXCEPT !.at = "wait"]
           skips == [top EXCEPT !.todo = Tail(@)]
<1> USE DEF TypeInv
<1>1. /\ UNCHANGED <<sockets, client, events, network, timers, clock, login, history, faults>>
      /\ Running /\ Top.todo # <<>> /\ Head(Top.todo) # "start"
  BY DEF Request
<1>2. /\ calls # <<>> /\ top \in CallSet /\ Top = top /\ top.at = "run" /\ top.todo \in Seq(Requests)
      /\ Len(calls) \in 1 .. Len(calls)
  BY <1>1, TopIsCall
<1>3. /\ waits \in CallSet /\ waits.at = "wait" /\ waits.todo = top.todo
      /\ skips \in CallSet /\ skips.at = "run"
  BY <1>1, <1>2, HeadTailProperties DEF CallSet
<1>4. \/ calls' = [calls EXCEPT ![Len(calls)] = waits]
      \/ calls' = [calls EXCEPT ![Len(calls)] = skips]
  BY <1>2 DEF Request, CallsTyped
<1>5. CallsTyped'
  <2> HIDE DEF waits, skips
  <2>1. QED
    BY <1>1, <1>2, <1>3, <1>4, TopTyped
<1>6. SocketsTyped' /\ StreamsTyped' /\ CommandsTyped'
  BY <1>1, TypedUnchanged DEF sockets, client, login
<1>7. EventsTyped' /\ FlagsTyped' /\ KeysTyped' /\ faults' \in 0 .. MaxFaults
  BY <1>1, TypedUnchanged
<1>8. QED
  BY <1>5, <1>6, <1>7

(* A call that waits for nothing goes on with the next thing it has to do. *)
LEMMA StartTyped ==
  ASSUME TypeInv, Start
  PROVE  TypeInv'
<1> DEFINE top == calls[Len(calls)]
           skips == [top EXCEPT !.todo = Tail(@)]
<1> USE DEF TypeInv
<1>1. /\ UNCHANGED <<sockets, pong, templates, events, network, putTimer, clock, login, history, faults>>
      /\ Running /\ Top.todo # <<>> /\ pingTimer' = TRUE
  BY DEF Start
<1>2. /\ calls # <<>> /\ top \in CallSet /\ Top = top /\ top.at = "run" /\ top.todo \in Seq(Requests)
      /\ Len(calls) \in 1 .. Len(calls)
  BY <1>1, TopIsCall
<1>3. skips \in CallSet /\ skips.at = "run"
  BY <1>1, <1>2, HeadTailProperties DEF CallSet
<1>4. calls' = [calls EXCEPT ![Len(calls)] = skips]
  BY <1>2 DEF Start, CallsTyped
<1>5. CallsTyped'
  <2> HIDE DEF skips
  <2>1. QED
    BY <1>2, <1>3, <1>4, TopTyped
<1>6. CommandsTyped'
  <2>1. templates["market"] \subseteq StreamsOf("market") /\ "market" \in Sockets
    BY DEF StreamsTyped, Sockets
  <2>2. OpenOf(templates["market"]) \in Seq(CommandSet("market")) /\ <<>> \in Seq(CommandSet("market"))
    BY <2>1, PostedTyped
  <2>3. QED
    BY <1>1, <2>1, <2>2, PostKeepsTyped DEF Start, login
<1>7. SocketsTyped' /\ StreamsTyped' /\ EventsTyped' /\ KeysTyped' /\ faults' \in 0 .. MaxFaults
  BY <1>1, TypedUnchanged DEF sockets, login
<1>8. FlagsTyped'
  BY <1>1 DEF FlagsTyped, network, history
<1>9. QED
  BY <1>5, <1>6, <1>7, <1>8

(* The call on top of the nested loops ends and the one below goes on.     *)
LEMMA ReturnKeepsTypes ==
  ASSUME TypeInv, Return
  PROVE  TypeInv'
<1> USE DEF TypeInv
<1>1. CallsTyped'
  BY ReturnTyped DEF Return, Running
<1>2. SocketsTyped' /\ StreamsTyped' /\ CommandsTyped'
  BY TypedUnchanged DEF Return, sockets, client, login
<1>3. EventsTyped' /\ FlagsTyped' /\ KeysTyped' /\ faults' \in 0 .. MaxFaults
  BY TypedUnchanged DEF Return
<1>4. QED
  BY <1>1, <1>2, <1>3

(* A call that waits for the reply to a request has it as its next one.    *)
LEMMA AwaitedRequest ==
  ASSUME CallsTyped, NEW i \in 1 .. Len(calls), calls[i].at = "wait"
  PROVE  Head(calls[i].todo) \in {"info", "time", "auth", "orders"}
<1>1. calls[i] \in CallSet /\ calls[i].todo # <<>> /\ Head(calls[i].todo) # "start"
  BY ElementOfSeq DEF CallsTyped
<1>2. Head(calls[i].todo) \in Requests
  BY <1>1, HeadTailProperties DEF CallSet
<1>3. QED
  BY <1>1, <1>2 DEF Requests

(* The tickers become a wanted stream.                                     *)
LEMMA AskTickersTyped ==
  ASSUME StreamsTyped, CommandsTyped, UNCHANGED <<url, keys>>, AskTickers
  PROVE  StreamsTyped' /\ CommandsTyped'
<1>1. "market" \in Sockets /\ "tickers" \in StreamsOf("market") /\ templates["market"] \subseteq StreamsOf("market")
  BY DEF Sockets, StreamsOf, Books, StreamsTyped
<1>2. AddStreamOf("market", "tickers") \in Seq(CommandSet("market"))
  BY <1>1, PostedTyped
<1>3. CommandsTyped'
  BY <1>1, <1>2, PostKeepsTyped DEF AskTickers
<1>4. StreamsTyped'
  BY <1>1 DEF AskTickers, StreamsTyped, StreamsOf, IsMap
<1>5. QED
  BY <1>3, <1>4

(* The description of the exchange makes a call ask for the tickers.       *)
LEMMA AnswerInfoTyped ==
  ASSUME TypeInv, NEW i \in 1 .. Len(calls), AnswerInfo(i)
  PROVE  TypeInv'
<1> USE DEF TypeInv
<1>1. /\ UNCHANGED <<sockets, pong, events, network, timers, clock, login, history, faults>>
      /\ calls[i].at = "wait" /\ AskTickers /\ Answered(i, <<>>)
  BY DEF AnswerInfo, Awaits, Answerable
<1>2. CallsTyped'
  BY <1>1, HandlersTyped, AnsweredTyped
<1>3. StreamsTyped' /\ CommandsTyped'
  BY <1>1, AskTickersTyped DEF sockets, login
<1>4. SocketsTyped' /\ EventsTyped' /\ FlagsTyped' /\ KeysTyped' /\ faults' \in 0 .. MaxFaults
  BY <1>1, TypedUnchanged DEF sockets
<1>5. QED
  BY <1>2, <1>3, <1>4

(* The time of the server is answered to the call that asked for it.       *)
LEMMA AnswerTimeTyped ==
  ASSUME TypeInv, NEW i \in 1 .. Len(calls), AnswerTime(i)
  PROVE  TypeInv'
<1> USE DEF TypeInv
<1>1. /\ UNCHANGED <<sockets, client, events, network, timers, login, history, faults>>
      /\ calls[i].at = "wait" /\ clock' = TRUE /\ Answered(i, <<>>)
  BY DEF AnswerTime, Awaits, Answerable
<1>2. CallsTyped'
  BY <1>1, HandlersTyped, AnsweredTyped
<1>3. FlagsTyped'
  BY <1>1 DEF FlagsTyped, network, timers, history
<1>4. SocketsTyped' /\ StreamsTyped' /\ CommandsTyped'
  BY <1>1, TypedUnchanged DEF sockets, client, login
<1>5. EventsTyped' /\ KeysTyped' /\ faults' \in 0 .. MaxFaults
  BY <1>1, TypedUnchanged
<1>6. QED
  BY <1>2, <1>3, <1>4, <1>5

(* The key that the exchange gives is one it has given.                    *)
LEMMA GiveKeyTyped ==
  ASSUME KeysTyped, GiveKey
  PROVE  /\ keys' \in Nat /\ keys <= keys' /\ key' \in 1 .. keys'
         /\ 0 .. keys \subseteq 0 .. keys' /\ 1 .. keys \subseteq 1 .. keys'
BY DEF KeysTyped, GiveKey

(* A new listen key enters the URL of the user stream.                     *)
LEMMA AnswerAuthTyped ==
  ASSUME TypeInv, NEW i \in 1 .. Len(calls), AnswerAuth(i)
  PROVE  TypeInv'
<1> DEFINE streams == templates["user"] \cup {token'}
           added == AddStreamOf("user", token')
           opened == IF IsConnected("user") THEN <<>> ELSE OpenOf(streams)
           C == [op : {"open", "close", "ping"}, streams : SUBSET (1 .. keys')]
<1> USE DEF TypeInv
<1>1. /\ UNCHANGED <<sockets, pong, events, network, pingTimer, clock, put, history, faults>>
      /\ calls[i].at = "wait" /\ Answered(i, <<>>) /\ GiveKey /\ token' = key' /\ putTimer' = TRUE
      /\ templates' = [templates EXCEPT !["user"] = streams]
      /\ Post("user", added \o opened)
  BY DEF AnswerAuth, Awaits, Answerable
<1>2. /\ keys' \in Nat /\ token' \in 1 .. keys' /\ key' \in 0 .. keys'
      /\ 0 .. keys \subseteq 0 .. keys' /\ 1 .. keys \subseteq 1 .. keys'
  BY <1>1, GiveKeyTyped
<1>3. CallsTyped'
  BY <1>1, HandlersTyped, AnsweredTyped
<1>4. KeysTyped'
  BY <1>1, <1>2 DEF KeysTyped
<1>5. /\ "user" \in Sockets /\ templates["user"] \subseteq 1 .. keys' /\ streams \subseteq 1 .. keys'
      /\ "market" \in Sockets /\ Sockets = {"user", "market"}
  BY <1>2 DEF Sockets, StreamsTyped, StreamsOf
<1>6. added \in Seq(C) /\ opened \in Seq(C)
  BY <1>2, <1>5, AddStreamTyped, OpenTyped, EmptySeq
<1>7. CommandSet("user") \subseteq C /\ commands["user"] \in Seq(CommandSet("user"))
  BY <1>2, <1>5 DEF CommandSet, StreamsOf, CommandsTyped
<1>8. commands["user"] \in Seq(C)
  BY <1>7, SeqMonotonic
<1> HIDE DEF added, opened, C
<1>9. added \o opened \in Seq(C)
  BY <1>6, ConcatProperties
<1>10. /\ IsMap(commands') /\ commands'["user"] \in Seq(C)
       /\ \A t \in Sockets \ {"user"} : commands'[t] = commands[t]
  BY <1>1, <1>5, <1>8, <1>9, PostTyped DEF CommandsTyped
<1>11. CommandSet("user")' = C /\ CommandSet("market")' = CommandSet("market")
  BY DEF CommandSet, StreamsOf, C
<1>12. CommandsTyped'
  BY <1>5, <1>10, <1>11 DEF CommandsTyped
<1>13. StreamsTyped'
  <2>1. url' = url
    BY <1>1 DEF sockets
  <2>2. \A s \in Sockets : StreamsOf(s) \subseteq StreamsOf(s)'
    BY <1>2 DEF StreamsOf
  <2>3. streams \subseteq StreamsOf("user")'
    BY <1>5 DEF StreamsOf
  <2>4. templates' = [s \in Sockets |-> IF s = "user" THEN streams ELSE templates[s]]
    BY <1>1 DEF StreamsTyped, IsMap
  <2> HIDE DEF streams
  <2>5. QED
    BY <2>1, <2>2, <2>3, <2>4 DEF StreamsTyped, IsMap
<1>14. FlagsTyped'
  BY <1>1 DEF FlagsTyped, network, history
<1>15. SocketsTyped' /\ EventsTyped' /\ faults' \in 0 .. MaxFaults
  BY <1>1, TypedUnchanged DEF sockets
<1>16. QED
  BY <1>3, <1>4, <1>12, <1>13, <1>14, <1>15

(* The open orders are answered.                                           *)
LEMMA AnswerOrdersTyped ==
  ASSUME TypeInv, NEW i \in 1 .. Len(calls), AnswerOrders(i)
  PROVE  TypeInv'
<1> USE DEF TypeInv
<1>1. /\ UNCHANGED <<sockets, client, events, network, timers, clock, login, refused, faults>>
      /\ calls[i].at = "wait" /\ stale' = FALSE /\ Answered(i, <<>>)
  BY DEF AnswerOrders, Awaits, Answerable
<1>2. CallsTyped'
  BY <1>1, HandlersTyped, AnsweredTyped
<1>3. FlagsTyped'
  BY <1>1 DEF FlagsTyped, network, timers
<1>4. SocketsTyped' /\ StreamsTyped' /\ CommandsTyped'
  BY <1>1, TypedUnchanged DEF sockets, client, login
<1>5. EventsTyped' /\ KeysTyped' /\ faults' \in 0 .. MaxFaults
  BY <1>1, TypedUnchanged
<1>6. QED
  BY <1>2, <1>3, <1>4, <1>5

(* A timestamp is refused: the call asks for the time first.               *)
LEMMA AnswerTimestampTyped ==
  ASSUME TypeInv, NEW i \in 1 .. Len(calls), AnswerTimestamp(i)
  PROVE  TypeInv'
<1> USE DEF TypeInv
<1>1. /\ UNCHANGED <<sockets, client, events, network, timers, clock, login, history, faults>>
      /\ calls[i].at = "wait" /\ Answered(i, <<Call(<<"time">>)>>)
  BY DEF AnswerTimestamp, Awaits, Answerable
<1>2. StackTyped(<<Call(<<"time">>)>>)
  <2>1. <<"time">> \in Seq(Requests)
    BY DEF Requests
  <2>2. QED
    BY <2>1, HandlersTyped
<1>3. CallsTyped'
  BY <1>1, <1>2, AnsweredTyped
<1>4. SocketsTyped' /\ StreamsTyped' /\ CommandsTyped'
  BY <1>1, TypedUnchanged DEF sockets, client, login
<1>5. EventsTyped' /\ FlagsTyped' /\ KeysTyped' /\ faults' \in 0 .. MaxFaults
  BY <1>1, TypedUnchanged
<1>6. QED
  BY <1>3, <1>4, <1>5

(* A request fails, which may block the ones that follow.                  *)
LEMMA AnswerErrorTyped ==
  ASSUME TypeInv, NEW i \in 1 .. Len(calls), NEW kind \in {"refused", "block"}, AnswerError(i, kind)
  PROVE  TypeInv'
<1> DEFINE request == Head(calls[i].todo)
<1> USE DEF TypeInv
<1>1. /\ UNCHANGED <<sockets, pong, events, online, timers, login, stale>>
      /\ calls[i].at = "wait"
      /\ \/ AskTickers /\ Answered(i, <<Call(PublicCalls)>>)
         \/ UNCHANGED <<commands, templates>> /\ Answered(i, <<>>)
      /\ clock' = (clock /\ request # "time")
      /\ refused' = IF online /\ kind = "refused" /\ request # "info" THEN refused \cup {request}
                    ELSE refused
      /\ blocked' = (blocked \/ kind = "block")
      /\ Fault(kind) \/ faults' = faults
  BY DEF AnswerError, Answerable
<1>2. request \in {"info", "time", "auth", "orders"}
  BY <1>1, AwaitedRequest
<1> HIDE DEF request
<1>3. CallsTyped'
  <2>1. StackTyped(<<>>) /\ StackTyped(<<Call(PublicCalls)>>)
    BY HandlersTyped
  <2>2. QED
    BY <1>1, <2>1, AnsweredTyped
<1>4. StreamsTyped' /\ CommandsTyped'
  BY <1>1, AskTickersTyped, TypedUnchanged DEF sockets, login
<1>5. FlagsTyped'
  BY <1>1, <1>2 DEF FlagsTyped, timers
<1>6. SocketsTyped' /\ EventsTyped' /\ KeysTyped'
  BY <1>1, TypedUnchanged DEF sockets
<1>7. faults' \in 0 .. MaxFaults
  BY <1>1, FaultCounted
<1>8. QED
  BY <1>3, <1>4, <1>5, <1>6, <1>7

(* The block ends.                                                         *)
LEMMA UnblockTyped ==
  ASSUME TypeInv, Unblock
  PROVE  TypeInv'
<1> USE DEF TypeInv
<1>1. /\ UNCHANGED <<sockets, client, events, online, timers, clock, login, history, faults>>
      /\ blocked' = FALSE /\ calls' = calls \o BothHandlers
  BY DEF Unblock
<1>2. CallsTyped'
  BY <1>1, HandlersTyped, BeginTyped
<1>3. FlagsTyped'
  BY <1>1 DEF FlagsTyped, timers, history
<1>4. SocketsTyped' /\ StreamsTyped' /\ CommandsTyped'
  BY <1>1, TypedUnchanged DEF sockets, client, login
<1>5. EventsTyped' /\ KeysTyped' /\ faults' \in 0 .. MaxFaults
  BY <1>1, TypedUnchanged
<1>6. QED
  BY <1>2, <1>3, <1>4, <1>5

(* The ping timer of a web socket fires.                                   *)
LEMMA PingFireTyped ==
  ASSUME TypeInv, PingFire
  PROVE  TypeInv'
<1> USE DEF TypeInv
<1>1. /\ UNCHANGED <<sockets, templates, thread, network, timers, clock, login, history>>
      /\ commands' = [s \in Sockets |-> IF IsOpen(s) THEN <<Command("ping", {})>> ELSE <<>>]
      /\ pong' = [s \in Sockets |-> IsOpen(s)]
      /\ faults' = faults \/ Fault("ping")
  BY DEF PingFire
<1>2. CommandsTyped'
  <2>1. \A s \in Sockets : Command("ping", {}) \in CommandSet(s)'
    BY DEF Command, CommandSet
  <2>2. \A s \in Sockets : <<Command("ping", {})>> \in Seq(CommandSet(s)') /\ <<>> \in Seq(CommandSet(s)')
    BY <2>1, EmptySeq
  <2>3. QED
    BY <1>1, <2>2 DEF CommandsTyped, IsMap
<1>3. SocketsTyped'
  BY <1>1 DEF SocketsTyped, sockets, IsOpen
<1>4. StreamsTyped' /\ EventsTyped' /\ CallsTyped' /\ FlagsTyped' /\ KeysTyped'
  BY <1>1, TypedUnchanged DEF sockets, thread, login
<1>5. faults' \in 0 .. MaxFaults
  BY <1>1, FaultCounted
<1>6. QED
  BY <1>2, <1>3, <1>4, <1>5

(* The timer that waits for a pong fires and the web socket is closed.     *)
LEMMA PongFireTyped ==
  ASSUME TypeInv, NEW s \in Sockets, PongFire(s)
  PROVE  TypeInv'
<1> USE DEF TypeInv
<1>1. /\ UNCHANGED <<sockets, templates, thread, network, timers, clock, login, history, faults>>
      /\ pong' = [pong EXCEPT ![s] = FALSE]
      /\ Post(s, ReconnectOf(s, templates[s]))
  BY DEF PongFire
<1>2. CommandsTyped'
  <2>1. templates[s] \subseteq StreamsOf(s)
    BY DEF StreamsTyped
  <2>2. ReconnectOf(s, templates[s]) \in Seq(CommandSet(s))
    BY <2>1, PostedTyped
  <2>3. QED
    BY <1>1, <2>2, PostKeepsTyped DEF login
<1>3. SocketsTyped'
  BY <1>1 DEF SocketsTyped, sockets
<1>4. StreamsTyped' /\ EventsTyped' /\ CallsTyped' /\ FlagsTyped' /\ KeysTyped'
  BY <1>1, TypedUnchanged DEF sockets, thread, login
<1>5. QED
  BY <1>1, <1>2, <1>3, <1>4

(* The timer that prolongs the listen key fires.                           *)
LEMMA PutFireTyped ==
  ASSUME TypeInv, PutFire
  PROVE  TypeInv'
<1> USE DEF TypeInv
<1>1. /\ UNCHANGED <<sockets, client, thread, network, timers, clock, token, key, keys, history, faults>>
      /\ put' = token
  BY DEF PutFire
<1>2. SocketsTyped' /\ StreamsTyped' /\ CommandsTyped' /\ EventsTyped' /\ CallsTyped' /\ FlagsTyped'
  BY <1>1, TypedUnchanged DEF sockets, client, thread
<1>3. KeysTyped'
  BY <1>1 DEF KeysTyped
<1>4. QED
  BY <1>1, <1>2, <1>3

(* The listen key is prolonged or not.                                     *)
LEMMA AnswerPutTyped ==
  ASSUME TypeInv, AnswerPut
  PROVE  TypeInv'
<1> USE DEF TypeInv
<1>1. /\ UNCHANGED <<sockets, client, events, network, clock, token, key, keys, history, faults>>
      /\ put' = 0 /\ pingTimer' = FALSE /\ putTimer' = FALSE
      /\ calls' = Append(calls, Call(<<"auth">>))
  BY DEF AnswerPut
<1>2. CallsTyped'
  <2>1. <<"auth">> \in Seq(Requests)
    BY DEF Requests
  <2>2. StackTyped(<<Call(<<"auth">>)>>) /\ Call(<<"auth">>) \in CallSet /\ Call(<<"auth">>).at = "run"
    BY <2>1, HandlersTyped, CallTyped
  <2>3. calls' = calls \o <<Call(<<"auth">>)>>
    BY <1>1, <2>2, AppendIsConcat DEF CallsTyped
  <2>4. \A i \in 1 .. Len(<<Call(<<"auth">>)>>) : <<Call(<<"auth">>)>>[i].at = "run"
    BY <2>2
  <2>5. QED
    BY <2>2, <2>3, <2>4, BeginTyped
<1>3. FlagsTyped' /\ KeysTyped'
  <2>1. FlagsTyped'
    BY <1>1 DEF FlagsTyped, network, history
  <2>2. KeysTyped'
    BY <1>1 DEF KeysTyped
  <2>3. QED
    BY <2>1, <2>2
<1>4. SocketsTyped' /\ StreamsTyped' /\ CommandsTyped' /\ EventsTyped'
  BY <1>1, TypedUnchanged DEF sockets, client
<1>5. QED
  BY <1>1, <1>2, <1>3, <1>4

(* The pairs that the user adds or removes are a stream of the markets.    *)
LEMMA BookTyped ==
  ASSUME TypeInv, AddBook \/ RemoveBook
  PROVE  TypeInv'
<1> USE DEF TypeInv
<1>1. /\ UNCHANGED <<sockets, pong, thread, network, timers, clock, login, history>>
      /\ Fault("streams")
      /\ templates' = [templates EXCEPT !["market"] = @ \cup {"book"}]
           \/ templates' = [templates EXCEPT !["market"] = @ \ {"book"}]
      /\ \/ Post("market", AddStreamOf("market", "book"))
         \/ Post("market", ReconnectOf("market", templates["market"] \ {"book"}))
  BY DEF AddBook, RemoveBook
<1>2. /\ "market" \in Sockets /\ templates["market"] \subseteq StreamsOf("market")
      /\ "book" \in StreamsOf("market")
      /\ templates["market"] \ {"book"} \subseteq StreamsOf("market")
  BY DEF Sockets, StreamsOf, Books, StreamsTyped
<1>3. /\ AddStreamOf("market", "book") \in Seq(CommandSet("market"))
      /\ ReconnectOf("market", templates["market"] \ {"book"}) \in Seq(CommandSet("market"))
  BY <1>2, PostedTyped
<1>4. CommandsTyped'
  BY <1>1, <1>2, <1>3, PostKeepsTyped DEF login
<1>5. StreamsTyped'
  BY <1>1, <1>2 DEF StreamsTyped, StreamsOf, IsMap, sockets, login
<1>6. SocketsTyped' /\ EventsTyped' /\ CallsTyped' /\ FlagsTyped' /\ KeysTyped'
  BY <1>1, TypedUnchanged DEF sockets, thread
<1>7. faults' \in 0 .. MaxFaults
  BY <1>1, FaultCounted
<1>8. QED
  BY <1>4, <1>5, <1>6, <1>7

(* The environment silences a peer, forgets a key, or takes the network    *)
(* away and brings it back.                                                *)
LEMMA OutageTyped ==
  ASSUME TypeInv, \/ \E s \in Sockets : Silent(s)
                  \/ Expire \/ NetworkDown \/ NetworkUp
  PROVE  TypeInv'
<1> USE DEF TypeInv
<1>1. /\ UNCHANGED <<sock, url, client, calls, blocked, timers, clock, token, put, keys, refused>>
      /\ \/ dead' = dead
         \/ \E s \in Sockets : dead' = [dead EXCEPT ![s] = TRUE]
         \/ dead' = [s \in Sockets |-> dead[s] \/ IsOpen(s)]
      /\ key' = key \/ key' = 0
      /\ online' \in {online, TRUE, FALSE}
      /\ \/ stale' = stale \/ stale' = TRUE
         \/ \E s \in Sockets : stale' = (stale \/ s = "user")
      /\ \/ events' = events
         \/ events' = <<Event("market", "opened"), Event("user", "opened")>>
      /\ faults' = faults \/ \E kind \in FaultKinds : Fault(kind)
  BY DEF Silent, Expire, NetworkDown, NetworkUp, sockets, thread, network, history, login, FaultKinds
<1>2. SocketsTyped'
  BY ZenonT(40), <1>1 DEF SocketsTyped, IsOpen, client
<1>3. StreamsTyped' /\ CommandsTyped' /\ CallsTyped'
  BY <1>1, TypedUnchanged DEF client
<1>4. EventsTyped'
  <2>1. Event("market", "opened") \in EventSet /\ Event("user", "opened") \in EventSet
    BY DEF Event, EventSet, Sockets
  <2>2. <<Event("market", "opened"), Event("user", "opened")>> \in Seq(EventSet)
    BY <2>1
  <2>3. QED
    BY <1>1, <2>2 DEF EventsTyped
<1>5. FlagsTyped'
  BY <1>1 DEF FlagsTyped, timers
<1>6. KeysTyped'
  BY <1>1 DEF KeysTyped
<1>7. faults' \in 0 .. MaxFaults
  BY <1>1, FaultCounted
<1>8. QED
  BY <1>2, <1>3, <1>4, <1>5, <1>6, <1>7

(* The first state has the types.                                          *)
LEMMA TypeInit == Init => TypeInv
<1> SUFFICES ASSUME Init PROVE TypeInv
  OBVIOUS
<1>1. SocketsTyped /\ StreamsTyped /\ EventsTyped /\ FlagsTyped /\ KeysTyped
  <2>1. SocketsTyped
    BY DEF Init, SocketsTyped
  <2>2. StreamsTyped
    BY DEF Init, StreamsTyped, IsMap
  <2>3. EventsTyped
    BY EmptySeq DEF Init, EventsTyped
  <2>4. FlagsTyped
    BY DEF Init, FlagsTyped
  <2>5. KeysTyped
    BY DEF Init, KeysTyped
  <2>6. QED
    BY <2>1, <2>2, <2>3, <2>4, <2>5
<1>2. CommandsTyped
  BY EmptySeq DEF Init, CommandsTyped, IsMap
<1>3. CallsTyped
  <2>1. RunCalls \in Seq(Requests)
    BY DEF RunCalls, Requests
  <2>2. StackTyped(<<Call(RunCalls)>>) /\ Call(RunCalls).at = "run" /\ calls = <<Call(RunCalls)>>
    BY <2>1, HandlersTyped, CallTyped DEF Init
  <2>3. QED
    BY <2>2 DEF CallsTyped, StackTyped
<1>4. faults \in 0 .. MaxFaults
  BY BoundAssumption DEF Init
<1>5. QED
  BY <1>1, <1>2, <1>3, <1>4 DEF TypeInv

(* So does every state that a step leads to.                               *)
LEMMA TypeStep == TypeInv /\ [Next]_vars => TypeInv'
<1> SUFFICES ASSUME TypeInv, [Next]_vars PROVE TypeInv'
  OBVIOUS
<1>1. ASSUME NEW s \in Sockets, Execute(s) \/ Connect(s) \/ PongFire(s) PROVE TypeInv'
  BY <1>1, ExecuteTyped, ConnectTyped, PongFireTyped
<1>2. CASE Deliver
  BY <1>2, DeliverTyped
<1>3. CASE Request \/ Start \/ Return
  BY <1>3, RequestTyped, StartTyped, ReturnKeepsTypes
<1>4. ASSUME NEW i \in 1 .. Len(calls), Answer(i) PROVE TypeInv'
  BY <1>4, AnswerInfoTyped, AnswerTimeTyped, AnswerAuthTyped, AnswerOrdersTyped, AnswerTimestampTyped,
     AnswerErrorTyped DEF Answer
<1>5. CASE Unblock \/ PingFire \/ PutFire \/ AnswerPut
  BY <1>5, UnblockTyped, PingFireTyped, PutFireTyped, AnswerPutTyped
<1>6. CASE Environment \/ NetworkUp
  <2>1. ASSUME NEW s \in Sockets, FailConnect(s) PROVE TypeInv'
    <3>1. Lose(s, "reset") /\ (faults' = faults \/ Fault("reset"))
      BY <2>1 DEF FailConnect
    <3>2. faults' \in 0 .. MaxFaults
      BY <3>1, FaultCounted DEF TypeInv
    <3>3. QED
      BY <3>1, <3>2, LoseTyped
  <2>2. ASSUME NEW s \in Sockets, NEW how \in {"clean", "reset"}, Close(s, how) PROVE TypeInv'
    <3>1. Lose(s, how) /\ Fault(how)
      BY <2>2 DEF Close
    <3>2. faults' \in 0 .. MaxFaults
      BY <3>1, FaultCounted DEF TypeInv
    <3>3. QED
      BY <3>1, <3>2, LoseTyped
  <2>3. QED
    BY <1>6, <2>1, <2>2, BookTyped, OutageTyped DEF Environment
<1>7. CASE UNCHANGED vars
  <2>1. UNCHANGED <<sockets, client, thread, network, timers, clock, login, history, faults>>
    BY <1>7 DEF vars
  <2>2. SocketsTyped' /\ StreamsTyped' /\ CommandsTyped' /\ EventsTyped' /\ CallsTyped'
    BY <2>1, TypedUnchanged DEF TypeInv, sockets, client, thread, login
  <2>3. FlagsTyped' /\ KeysTyped' /\ faults' \in 0 .. MaxFaults
    BY <2>1, TypedUnchanged DEF TypeInv
  <2>4. QED
    BY <2>2, <2>3 DEF TypeInv
<1>8. QED
  BY <1>1, <1>2, <1>3, <1>4, <1>5, <1>6, <1>7 DEF Next

(* The strengthened type invariant of Connection holds in every state.     *)
LEMMA TypeInvHolds == Spec => []TypeInv
BY TypeInit, TypeStep, PTL DEF Spec

(* Every variable keeps its type: a call that waits has a request to wait  *)
(* for, one that has its reply has another call above it, and the key in   *)
(* use is one that the exchange has given.                                 *)
THEOREM TypeCorrect == Spec => []TypeOK
<1>1. TypeInv => TypeOK
  <2> SUFFICES ASSUME TypeInv PROVE TypeOK
    OBVIOUS
  <2>1. \A s \in Sockets : \A i \in 1 .. Len(commands[s]) : commands[s][i] \in CommandSet(s)
    BY ElementOfSeq DEF TypeInv, CommandsTyped
  <2>2. \A i \in 1 .. Len(events) : events[i] \in EventSet
    BY ElementOfSeq DEF TypeInv, EventsTyped
  <2>3. \A i \in 1 .. Len(calls) : calls[i].at \in {"run", "wait", "done"}
    <3>1. \A i \in 1 .. Len(calls) : calls[i] \in CallSet
      BY ElementOfSeq DEF TypeInv, CallsTyped
    <3>2. QED
      BY <3>1 DEF CallSet
  <2>4. QED
    BY <2>1, <2>2, <2>3 DEF TypeInv, TypeOK, SocketsTyped, StreamsTyped, CallsTyped, FlagsTyped, KeysTyped
<1>2. QED
  BY <1>1, TypeInvHolds, PTL

-----------------------------------------------------------------------------
(* The streams of an open socket are those that are wanted.                *)

OnlyPings(s, i) == \A j \in i .. Len(commands[s]) : commands[s][j].op = "ping"

(* Executing all that is posted leaves a socket that is closed or that is  *)
(* opened for the streams that are wanted now.                             *)
LastOpenCurrent(s) ==
  /\ IsConnected(s) /\ OnlyPings(s, 1) => url[s] = templates[s]
  /\ \A i \in 1 .. Len(commands[s]) :
       commands[s][i].op = "open" /\ OnlyPings(s, i + 1)
       => commands[s][i].streams = templates[s]

(* Nobody opens a socket before there is a stream for it.                  *)
NothingWanted(s) ==
  templates[s] = {} =>
    /\ ~IsConnected(s)
    /\ \A i \in 1 .. Len(commands[s]) : commands[s][i].op # "open"

(* What is posted while the network is away, or was posted before, is      *)
(* replaced when its return is delivered.                                  *)
Current(s) ==
  /\ NothingWanted(s)
  /\ online /\ ~Contains(events, Event(s, "opened")) => LastOpenCurrent(s)

BookAfterTickers == "book" \in templates["market"] => "tickers" \in templates["market"]

UrlInv == TypeInv /\ (\A s \in Sockets : Current(s)) /\ BookAfterTickers

(* The step does not concern what is wanted of the socket.                 *)
Quiet(s) ==
  /\ commands'[s] = commands[s] /\ templates'[s] = templates[s] /\ url'[s] = url[s]
  /\ IsConnected(s)' => IsConnected(s)
  /\ online' => online
  /\ Contains(events, Event(s, "opened")) => Contains(events', Event(s, "opened"))

(* Such a step leaves the socket as current as it was.                     *)
LEMMA QuietCurrent ==
  ASSUME NEW s \in Sockets, Current(s), Quiet(s)
  PROVE  Current(s)'
<1>1. NothingWanted(s)'
  BY DEF Current, NothingWanted, Quiet
<1>2. ASSUME online', ~Contains(events', Event(s, "opened")) PROVE LastOpenCurrent(s)'
  <2>1. LastOpenCurrent(s)
    BY <1>2 DEF Current, Quiet
  <2>2. \A i : OnlyPings(s, i)' <=> OnlyPings(s, i)
    BY DEF Quiet, OnlyPings
  <2>3. QED
    BY <2>1, <2>2 DEF LastOpenCurrent, Quiet
<1>3. Contains(events, Event(s, "opened"))' <=> Contains(events', Event(s, "opened"))
  BY DEF Event
<1>4. QED
  BY <1>1, <1>2, <1>3 DEF Current

(* A socket for which there is no stream is current.                       *)
LEMMA NothingCurrent ==
  ASSUME NEW s \in Sockets, templates[s] = {}, NothingWanted(s)
  PROVE  Current(s)
BY DEF Current, LastOpenCurrent, NothingWanted

(* A socket is current once the last that was posted to it opens it for    *)
(* the streams that are wanted.                                            *)
LEMMA OpenEnds ==
  ASSUME NEW s \in Sockets, NEW S, NEW q \in Seq(S), NEW p \in Seq(S), p # <<>>,
         commands'[s] = q \o p, templates'[s] # {},
         p[Len(p)] = Command("open", templates'[s])
  PROVE  Current(s)'
<1> DEFINE n == Len(q) + Len(p)
<1>1. /\ Len(commands'[s]) = n /\ n \in Nat \ {0}
      /\ commands'[s][n] = Command("open", templates'[s])
  <2>1. Len(q) \in Nat /\ Len(p) \in Nat \ {0}
    BY EmptySeq, LenProperties
  <2>2. /\ Len(q \o p) = n
        /\ \A i \in 1 .. n : (q \o p)[i] = IF i <= Len(q) THEN q[i] ELSE p[i - Len(q)]
    BY ConcatProperties
  <2>3. n \in 1 .. n /\ ~(n <= Len(q)) /\ n - Len(q) = Len(p) /\ n \in Nat \ {0}
    BY <2>1
  <2> HIDE DEF n
  <2>4. QED
    BY <2>2, <2>3
<1>2. commands'[s][n].op = "open" /\ commands'[s][n].streams = templates'[s]
  BY <1>1 DEF Command
<1> HIDE DEF n
<1>3. ~OnlyPings(s, 1)'
  BY <1>1, <1>2 DEF OnlyPings
<1>4. ASSUME NEW i \in 1 .. Len(commands'[s]), OnlyPings(s, i + 1)' PROVE i = n
  <2>1. i # n => n \in i + 1 .. n
    BY <1>1
  <2>2. QED
    BY <1>1, <1>2, <1>4, <2>1 DEF OnlyPings
<1>5. LastOpenCurrent(s)'
  BY <1>2, <1>3, <1>4 DEF LastOpenCurrent
<1>6. QED
  BY <1>5 DEF Current, NothingWanted

(* What reconnecting posts ends with the command to open, if there is a    *)
(* network and a stream.                                                   *)
LEMMA ReconnectEnds ==
  ASSUME NEW s \in Sockets, NEW S, NEW streams \in SUBSET S, streams # {}, online
  PROVE  /\ ReconnectOf(s, streams) # <<>> /\ OpenOf(streams) # <<>>
         /\ ReconnectOf(s, streams)[Len(ReconnectOf(s, streams))] = Command("open", streams)
         /\ OpenOf(streams)[Len(OpenOf(streams))] = Command("open", streams)
<1>1. OpenOf(streams) = <<Command("open", streams)>>
  BY DEF OpenOf
<1>2. PICK close, open : close = Command("close", {}) /\ open = Command("open", streams)
  OBVIOUS
<1>3. ReconnectOf(s, streams) \in {<<open>>, <<close>> \o <<open>>}
  BY <1>1, <1>2 DEF ReconnectOf
<1>4. /\ <<open>> # <<>> /\ <<open>>[Len(<<open>>)] = open
      /\ <<close>> \o <<open>> # <<>> /\ Len(<<close>> \o <<open>>) = 2 /\ (<<close>> \o <<open>>)[2] = open
  <2>1. <<close>> \in Seq({close, open}) /\ <<open>> \in Seq({close, open})
    OBVIOUS
  <2>2. /\ Len(<<close>> \o <<open>>) = Len(<<close>>) + Len(<<open>>)
        /\ \A i \in 1 .. Len(<<close>>) + Len(<<open>>) :
             (<<close>> \o <<open>>)[i] = IF i <= Len(<<close>>) THEN <<close>>[i]
                                      ELSE <<open>>[i - Len(<<close>>)]
    BY <2>1, ConcatProperties
  <2>3. Len(<<close>>) = 1 /\ Len(<<open>>) = 1 /\ <<open>>[1] = open
    OBVIOUS
  <2>4. Len(<<close>> \o <<open>>) = 2 /\ (<<close>> \o <<open>>)[2] = open
    BY <2>2, <2>3
  <2>5. QED
    BY <2>3, <2>4, EmptySeq
<1> HIDE DEF Command
<1>5. QED
  BY <1>1, <1>2, <1>3, <1>4

(* A reconnection for the streams that are wanted from now on leaves the   *)
(* socket current, whatever is on its way to it.                           *)
LEMMA ReconnectCurrent ==
  ASSUME TypeInv, NEW s \in Sockets, Current(s), NEW S, NEW streams \in SUBSET S,
         streams = {} => templates[s] = {}, commands[s] \in Seq([op : {"open", "close", "ping"}, streams : SUBSET S]),
         templates'[s] = streams, Post(s, ReconnectOf(s, streams)), UNCHANGED <<sock, online>>
  PROVE  Current(s)'
<1> DEFINE C == [op : {"open", "close", "ping"}, streams : SUBSET S]
           p == ReconnectOf(s, streams)
<1>1. p \in Seq(C) /\ commands[s] \in Seq(C)
  BY ReconnectTyped
<1>2. commands'[s] = commands[s] \o p
  <2> HIDE DEF C, p
  <2>1. QED
    BY <1>1, PostTyped DEF TypeInv, CommandsTyped, p
<1>3. CASE streams = {}
  <2>1. NothingWanted(s) /\ templates[s] = {} /\ ~IsConnected(s)
    BY <1>3 DEF Current, NothingWanted
  <2>2. p = <<>>
    BY <1>3, <2>1 DEF ReconnectOf, OpenOf
  <2>3. commands'[s] = commands[s]
    BY <1>1, <1>2, <2>2, ConcatEmptySeq
  <2>4. NothingWanted(s)'
    BY <2>1, <2>3 DEF NothingWanted, IsConnected
  <2>5. NothingWanted(s)' /\ templates'[s] = {} => Current(s)'
    BY DEF Current, LastOpenCurrent, NothingWanted
  <2>6. QED
    BY <1>3, <2>4, <2>5
<1>4. CASE streams # {} /\ online
  <2>1. p # <<>> /\ p[Len(p)] = Command("open", templates'[s])
    BY <1>4, ReconnectEnds
  <2> HIDE DEF C, p
  <2>2. QED
    BY <1>1, <1>2, <1>4, <2>1, OpenEnds
<1>5. CASE streams # {} /\ ~online
  BY <1>5 DEF Current, NothingWanted
<1>6. QED
  BY <1>3, <1>4, <1>5

(* An event stays posted when others are posted after it.                  *)
LEMMA ContainsConcat ==
  ASSUME NEW S, NEW q \in Seq(S), NEW p \in Seq(S), NEW e, Contains(q, e)
  PROVE  Contains(q \o p, e)
<1>1. PICK i \in 1 .. Len(q) : q[i] = e
  BY DEF Contains
<1>2. Len(q) \in Nat /\ Len(p) \in Nat
  BY LenProperties
<1>3. i \in 1 .. Len(q) + Len(p) /\ i <= Len(q)
  BY <1>2
<1>4. Len(q \o p) = Len(q) + Len(p) /\ (q \o p)[i] = e
  BY <1>1, <1>3, ConcatProperties
<1>5. QED
  BY <1>3, <1>4 DEF Contains

(* It stays posted when another one is delivered.                          *)
LEMMA ContainsTail ==
  ASSUME NEW S, NEW q \in Seq(S), q # <<>>, NEW e, Head(q) # e, Contains(q, e)
  PROVE  Contains(Tail(q), e)
<1>1. PICK i \in 1 .. Len(q) : q[i] = e
  BY DEF Contains
<1>2. /\ Len(q) \in Nat \ {0} /\ Head(q) = q[1] /\ Len(Tail(q)) = Len(q) - 1
      /\ \A j \in 1 .. Len(Tail(q)) : Tail(q)[j] = q[j + 1]
  BY EmptySeq, LenProperties, HeadTailProperties
<1>3. i # 1
  BY <1>1, <1>2
<1>4. i - 1 \in 1 .. Len(q) - 1 /\ i - 1 + 1 = i
  BY <1>2, <1>3
<1>5. Tail(q)[i - 1] = e
  BY <1>1, <1>2, <1>4
<1>6. QED
  BY <1>2, <1>4, <1>5 DEF Contains

(* A socket that has nothing posted to it, is not opened and is wanted for *)
(* the same streams is not concerned by a step.                            *)
LEMMA SameQuiet ==
  ASSUME NEW s \in Sockets, UNCHANGED <<commands, templates, url, sock>>, online' => online,
         Contains(events, Event(s, "opened")) => Contains(events', Event(s, "opened"))
  PROVE  Quiet(s)
BY DEF Quiet, IsConnected

(* A step that reconnects one socket leaves both current.                  *)
LEMMA ReconnectStep ==
  ASSUME UrlInv, NEW s \in Sockets, NEW streams \in SUBSET StreamsOf(s),
         streams = {} => templates[s] = {}, Post(s, ReconnectOf(s, streams)),
         templates' = [templates EXCEPT ![s] = streams], UNCHANGED <<sock, url, online>>,
         \A t \in Sockets \ {s} :
           Contains(events, Event(t, "opened")) => Contains(events', Event(t, "opened"))
  PROVE  \A t \in Sockets : Current(t)'
<1>1. commands[s] \in Seq(CommandSet(s)) /\ IsMap(commands) /\ IsMap(templates)
  BY DEF UrlInv, TypeInv, CommandsTyped, StreamsTyped
<1>2. Current(s)'
  <2>1. templates'[s] = streams
    BY <1>1 DEF IsMap
  <2>2. commands[s] \in Seq([op : {"open", "close", "ping"}, streams : SUBSET StreamsOf(s)])
    BY <1>1 DEF CommandSet
  <2>3. QED
    BY <2>1, <2>2, ReconnectCurrent DEF UrlInv
<1>3. ASSUME NEW t \in Sockets \ {s} PROVE Current(t)'
  <2>1. templates'[t] = templates[t] /\ commands'[t] = commands[t]
    BY <1>1 DEF IsMap, Post
  <2>2. Quiet(t)
    BY <2>1 DEF Quiet, IsConnected
  <2>3. QED
    BY <2>2, QuietCurrent DEF UrlInv
<1>4. QED
  BY <1>2, <1>3

(* So does a step that adds a stream.                                      *)
LEMMA AddStreamStep ==
  ASSUME UrlInv, NEW s \in Sockets, NEW stream \in StreamsOf(s), Post(s, AddStreamOf(s, stream)),
         templates' = [templates EXCEPT ![s] = @ \cup {stream}], UNCHANGED <<sock, url, online, events>>
  PROVE  \A t \in Sockets : Current(t)'
<1>1. templates[s] \subseteq StreamsOf(s) /\ IsMap(templates) /\ commands[s] \in Seq(CommandSet(s)) /\ IsMap(commands)
  BY DEF UrlInv, TypeInv, StreamsTyped, CommandsTyped
<1>2. CASE stream \in templates[s]
  <2>1. AddStreamOf(s, stream) = <<>>
    BY <1>2 DEF AddStreamOf
  <2>2. commands' = commands
    <3>1. commands[s] \o <<>> = commands[s]
      BY <1>1, ConcatEmptySeq
    <3>2. QED
      BY <1>1, <2>1, <3>1 DEF Post, IsMap
  <2>3. templates' = templates
    <3>1. templates[s] \cup {stream} = templates[s]
      BY <1>2
    <3>2. QED
      BY <1>1, <3>1 DEF IsMap
  <2>4. QED
    BY <2>2, <2>3, SameQuiet, QuietCurrent DEF UrlInv
<1>3. CASE stream \notin templates[s]
  <2> DEFINE streams == templates[s] \cup {stream}
  <2>1. AddStreamOf(s, stream) = ReconnectOf(s, streams)
    BY <1>3 DEF AddStreamOf
  <2>2. streams \in SUBSET StreamsOf(s) /\ streams # {} /\ templates' = [templates EXCEPT ![s] = streams]
    BY <1>1
  <2> HIDE DEF streams
  <2>3. QED
    BY <2>1, <2>2, ReconnectStep
<1>4. QED
  BY <1>2, <1>3

(* A step that neither posts nor opens leaves both as current as they      *)
(* were.                                                                   *)
LEMMA SameStep ==
  ASSUME UrlInv, UNCHANGED <<commands, templates, url>>, online' => online,
         \A s \in Sockets : /\ IsConnected(s)' => IsConnected(s)
                            /\ Contains(events, Event(s, "opened")) => Contains(events', Event(s, "opened"))
  PROVE  (\A s \in Sockets : Current(s)') /\ BookAfterTickers'
<1>1. \A s \in Sockets : Quiet(s)
  BY DEF Quiet
<1>2. QED
  BY <1>1, QuietCurrent DEF UrlInv, BookAfterTickers

(* A socket is what the last command that it executed made of it.          *)
LEMMA ExecuteCurrent ==
  ASSUME UrlInv, NEW s \in Sockets, Execute(s)
  PROVE  (\A t \in Sockets : Current(t)') /\ BookAfterTickers'
<1> DEFINE q == commands[s]
           c == Head(q)
<1>1. /\ q \in Seq(CommandSet(s)) /\ q # <<>> /\ IsMap(commands) /\ IsMap(url) /\ EventsTyped
      /\ sock \in [Sockets -> {"closed", "connecting", "open"}]
  BY DEF Execute, UrlInv, TypeInv, CommandsTyped, StreamsTyped, SocketsTyped
<1>2. UNCHANGED <<templates, online>> /\ commands' = [commands EXCEPT ![s] = Tail(@)]
  BY DEF Execute, network
<1>3. /\ c \in CommandSet(s) /\ c = q[1] /\ Len(Tail(q)) = Len(q) - 1 /\ Len(q) \in Nat \ {0}
      /\ \A i \in 1 .. Len(Tail(q)) : Tail(q)[i] = q[i + 1]
  BY <1>1, EmptySeq, LenProperties, HeadTailProperties
<1>4. c.op \in {"open", "close", "ping"}
  BY <1>3 DEF CommandSet
<1>5. /\ c.op = "open" => sock' = [sock EXCEPT ![s] = "connecting"] /\ url' = [url EXCEPT ![s] = c.streams]
      /\ c.op = "close" => sock' = [sock EXCEPT ![s] = "closed"] /\ url' = url
      /\ c.op = "ping" => sock' = sock /\ url' = url
      /\ events' \in {events, Append(events, Event(s, "disconnected")), Append(events, Event(s, "pong"))}
  BY <1>4 DEF Execute
<1>6. \A t \in Sockets : Contains(events, Event(t, "opened")) => Contains(events', Event(t, "opened"))
  <2>1. Event(s, "disconnected") \in EventSet /\ Event(s, "pong") \in EventSet
    BY DEF Event, EventSet
  <2>2. ASSUME NEW e \in EventSet
        PROVE  Append(events, e) = events \o <<e>> /\ <<e>> \in Seq(EventSet)
    BY <1>1, AppendIsConcat DEF EventsTyped
  <2>3. \A e \in EventSet : \A f : Contains(events, f) => Contains(Append(events, e), f)
    BY <1>1, <2>2, ContainsConcat DEF EventsTyped
  <2>4. QED
    BY <1>5, <2>1, <2>3
<1>7. ASSUME NEW t \in Sockets \ {s} PROVE Current(t)'
  <2>1. /\ commands'[t] = commands[t] /\ url'[t] = url[t] /\ sock'[t] = sock[t]
    BY <1>1, <1>2, <1>4, <1>5 DEF IsMap
  <2>2. Quiet(t)
    BY <1>2, <1>6, <2>1 DEF Quiet, IsConnected
  <2>3. QED
    BY <2>2, QuietCurrent DEF UrlInv
<1>8. Current(s)'
  <2>1. commands'[s] = Tail(q) /\ Current(s)
    BY <1>1, <1>2 DEF IsMap, UrlInv
  <2>2. /\ c.op = "open" => IsConnected(s)' /\ url'[s] = c.streams
        /\ c.op = "close" => ~IsConnected(s)' /\ url'[s] = url[s]
        /\ c.op = "ping" => (IsConnected(s)' <=> IsConnected(s)) /\ url'[s] = url[s]
    BY <1>1, <1>5 DEF IsConnected, IsMap
  <2>3. Len(commands'[s]) = Len(q) - 1 /\ \A i \in 1 .. Len(q) - 1 : commands'[s][i] = q[i + 1]
    BY <1>3, <2>1
  <2>4. \A i \in 1 .. Len(q) - 1 : i + 1 \in 1 .. Len(q)
    BY <1>3
  <2>5. NothingWanted(s)'
    <3> SUFFICES ASSUME templates'[s] = {}
                 PROVE  ~IsConnected(s)' /\ \A i \in 1 .. Len(commands'[s]) : commands'[s][i].op # "open"
      BY DEF NothingWanted
    <3>1. ~IsConnected(s) /\ \A i \in 1 .. Len(q) : q[i].op # "open"
      BY <1>2, <2>1 DEF Current, NothingWanted
    <3>2. c.op # "open"
      BY <1>3, <3>1
    <3>3. ~IsConnected(s)'
      BY <1>4, <2>2, <3>1, <3>2
    <3>4. \A i \in 1 .. Len(commands'[s]) : commands'[s][i].op # "open"
      BY <2>3, <2>4, <3>1
    <3>5. QED
      BY <3>3, <3>4
  <2>6. ASSUME online', ~Contains(events', Event(s, "opened")) PROVE LastOpenCurrent(s)'
    <3>1. LastOpenCurrent(s)
      BY <1>2, <1>6, <2>1, <2>6 DEF Current
    <3>2. ASSUME NEW i \in 1 .. Len(q), OnlyPings(s, i)' PROVE OnlyPings(s, i + 1)
      <4>1. ASSUME NEW j \in i + 1 .. Len(q) PROVE q[j].op = "ping"
        <5>1. j - 1 \in i .. Len(q) - 1 /\ j - 1 + 1 = j /\ j - 1 \in 1 .. Len(q) - 1
          BY <1>3
        <5>2. QED
          BY <2>3, <3>2, <5>1 DEF OnlyPings
      <4>2. QED
        BY <4>1 DEF OnlyPings
    <3>3. ASSUME IsConnected(s)', OnlyPings(s, 1)' PROVE url'[s] = templates'[s]
      <4>1. 1 \in 1 .. Len(q) /\ OnlyPings(s, 2)
        BY <1>3, <3>2, <3>3
      <4>2. CASE c.op = "open"
        <5>1. q[1].op = "open" /\ OnlyPings(s, 1 + 1) => q[1].streams = templates[s]
          BY <3>1, <4>1 DEF LastOpenCurrent
        <5>2. QED
          BY <1>2, <1>3, <2>2, <4>1, <4>2, <5>1
      <4>3. CASE c.op = "ping"
        <5>1. OnlyPings(s, 1)
          <6>1. \A j \in 1 .. Len(q) : j = 1 \/ j \in 2 .. Len(q)
            BY <1>3
          <6>2. QED
            BY <1>3, <4>1, <4>3, <6>1 DEF OnlyPings
        <5>2. QED
          BY <1>2, <2>2, <3>1, <3>3, <4>3, <5>1 DEF LastOpenCurrent
      <4>4. QED
        BY <1>4, <2>2, <3>3, <4>2, <4>3
    <3>4. ASSUME NEW i \in 1 .. Len(commands'[s]), commands'[s][i].op = "open", OnlyPings(s, i + 1)'
          PROVE  commands'[s][i].streams = templates'[s]
      <4>1. i \in 1 .. Len(q) - 1 /\ i + 1 \in 1 .. Len(q) /\ commands'[s][i] = q[i + 1]
        BY <2>3, <2>4
      <4>2. OnlyPings(s, i + 1 + 1)
        BY <3>2, <3>4, <4>1
      <4>3. q[i + 1].op = "open" /\ OnlyPings(s, i + 1 + 1) => q[i + 1].streams = templates[s]
        BY <3>1, <4>1 DEF LastOpenCurrent
      <4>4. QED
        BY <1>2, <3>4, <4>1, <4>2, <4>3
    <3>5. QED
      BY <3>3, <3>4 DEF LastOpenCurrent
  <2>7. QED
    BY <2>5, <2>6 DEF Current, Event
<1>9. QED
  BY <1>2, <1>7, <1>8 DEF UrlInv, BookAfterTickers

(* What a socket reports of its loss is posted after what was posted.      *)
LEMMA LoseCurrent ==
  ASSUME UrlInv, NEW s \in Sockets, NEW how, Lose(s, how)
  PROVE  (\A t \in Sockets : Current(t)') /\ BookAfterTickers'
<1> DEFINE errors == IF how = "clean" THEN <<>> ELSE <<Event(s, "error")>>
<1>1. /\ UNCHANGED <<url, commands, templates, online>> /\ sock' = [sock EXCEPT ![s] = "closed"]
      /\ events' = events \o errors \o <<Event(s, "disconnected")>>
  BY DEF Lose, client, network
<1>2. EventsTyped /\ sock \in [Sockets -> {"closed", "connecting", "open"}]
  BY DEF UrlInv, TypeInv, SocketsTyped
<1>3. \A t \in Sockets : IsConnected(t)' => IsConnected(t)
  BY <1>1, <1>2 DEF IsConnected
<1>4. ASSUME NEW e, Contains(events, e) PROVE Contains(events', e)
  <2>1. Event(s, "error") \in EventSet /\ Event(s, "disconnected") \in EventSet
    BY DEF Event, EventSet
  <2>2. errors \in Seq(EventSet) /\ <<Event(s, "disconnected")>> \in Seq(EventSet) /\ events \in Seq(EventSet)
    BY <1>2, <2>1, EmptySeq DEF EventsTyped
  <2> HIDE DEF errors
  <2>3. events \o errors \in Seq(EventSet) /\ Contains(events \o errors, e)
    BY <1>4, <2>2, ConcatProperties, ContainsConcat
  <2>4. QED
    BY <1>1, <2>2, <2>3, ContainsConcat
<1>5. QED
  BY <1>1, <1>3, <1>4, SameStep

(* A slot that is served leaves the URLs as the streams say.               *)
LEMMA DeliverCurrent ==
  ASSUME UrlInv, Deliver
  PROVE  (\A t \in Sockets : Current(t)') /\ BookAfterTickers'
<1> DEFINE e == Head(events)
           s == e.socket
<1>1. UNCHANGED <<sock, url, templates, online>> /\ events' = Tail(events) /\ events # <<>>
  BY DEF Deliver, sockets, network
<1>2. events \in Seq(EventSet) /\ IsMap(templates) /\ e \in EventSet
  BY <1>1, HeadTailProperties DEF UrlInv, TypeInv, EventsTyped, StreamsTyped
<1>3. s \in Sockets /\ e.ev \in {"disconnected", "error", "pong", "opened"} /\ templates[s] \subseteq StreamsOf(s)
  BY <1>2 DEF EventSet, UrlInv, TypeInv, StreamsTyped
<1>4. ASSUME NEW f, e # f, Contains(events, f) PROVE Contains(events', f)
  BY <1>1, <1>2, <1>4, ContainsTail
<1>5. CASE e.ev = "opened"
  <2>1. Post(s, ReconnectOf(s, templates[s]))
    BY <1>5 DEF Deliver
  <2>2. templates' = [templates EXCEPT ![s] = templates[s]]
    BY <1>1, <1>2 DEF IsMap
  <2>3. \A t \in Sockets \ {s} : Event(t, "opened") # e
    BY DEF Event
  <2>4. \A t \in Sockets \ {s} :
          Contains(events, Event(t, "opened")) => Contains(events', Event(t, "opened"))
    BY <1>4, <2>3
  <2> HIDE DEF s, e
  <2>5. \A t \in Sockets : Current(t)'
    BY <1>1, <1>3, <2>1, <2>2, <2>4, ReconnectStep
  <2>6. QED
    BY <1>1, <2>5 DEF UrlInv, BookAfterTickers
<1>6. CASE e.ev # "opened"
  <2>1. commands' = commands
    BY <1>3, <1>6 DEF Deliver
  <2>2. \A t \in Sockets : Event(t, "opened") # e
    BY <1>6 DEF Event
  <2>3. \A t \in Sockets : Contains(events, Event(t, "opened")) => Contains(events', Event(t, "opened"))
    BY <1>4, <2>2
  <2>4. \A t \in Sockets : IsConnected(t)' => IsConnected(t)
    BY <1>1 DEF IsConnected
  <2>5. QED
    BY <1>1, <2>1, <2>3, <2>4, SameStep
<1>7. QED
  BY <1>5, <1>6

(* The socket of the markets is opened when it is not.                     *)
LEMMA StartCurrent ==
  ASSUME UrlInv, Start
  PROVE  (\A t \in Sockets : Current(t)') /\ BookAfterTickers'
<1>1. /\ UNCHANGED <<sock, url, templates, online, events>> /\ "market" \in Sockets
      /\ Post("market", IF IsConnected("market") THEN <<>> ELSE OpenOf(templates["market"]))
  BY DEF Start, sockets, network, Sockets
<1>2. /\ IsMap(commands) /\ IsMap(templates) /\ commands["market"] \in Seq(CommandSet("market"))
      /\ templates["market"] \subseteq StreamsOf("market")
  BY <1>1 DEF UrlInv, TypeInv, CommandsTyped, StreamsTyped
<1>3. CASE IsConnected("market")
  <2>1. commands["market"] \o <<>> = commands["market"]
    BY <1>2, ConcatEmptySeq
  <2>2. commands' = commands
    BY <1>1, <1>2, <1>3, <2>1 DEF Post, IsMap
  <2>3. \A t \in Sockets : IsConnected(t)' => IsConnected(t)
    BY <1>1 DEF IsConnected
  <2>4. QED
    BY <1>1, <2>2, <2>3, SameStep
<1>4. CASE ~IsConnected("market")
  <2>1. ReconnectOf("market", templates["market"]) = OpenOf(templates["market"])
    BY <1>4 DEF ReconnectOf
  <2>2. templates' = [templates EXCEPT !["market"] = templates["market"]]
    BY <1>1, <1>2 DEF IsMap
  <2>3. \A t \in Sockets : Current(t)'
    BY <1>1, <1>2, <1>4, <2>1, <2>2, ReconnectStep
  <2>4. QED
    BY <1>1, <2>3 DEF UrlInv, BookAfterTickers
<1>5. QED
  BY <1>3, <1>4

(* The tickers, once wanted, are in what the socket is opened for.         *)
LEMMA AskTickersCurrent ==
  ASSUME UrlInv, AskTickers, UNCHANGED <<sock, url, online, events>>
  PROVE  (\A t \in Sockets : Current(t)') /\ BookAfterTickers'
<1>1. "market" \in Sockets /\ "tickers" \in StreamsOf("market") /\ IsMap(templates)
  BY DEF Sockets, StreamsOf, Books, UrlInv, TypeInv, StreamsTyped
<1>2. \A t \in Sockets : Current(t)'
  BY <1>1, AddStreamStep DEF AskTickers
<1>3. "tickers" \in templates'["market"]
  BY <1>1 DEF AskTickers, IsMap
<1>4. QED
  BY <1>2, <1>3 DEF BookAfterTickers

(* A log in leaves the socket of the user on its way to the stream of the  *)
(* token it got, or there.                                                 *)
LEMMA AnswerAuthCurrent ==
  ASSUME UrlInv, NEW i, AnswerAuth(i)
  PROVE  (\A t \in Sockets : Current(t)') /\ BookAfterTickers'
<1> DEFINE streams == templates["user"] \cup {token'}
           added == AddStreamOf("user", token')
           opened == IF IsConnected("user") THEN <<>> ELSE OpenOf(streams)
           C == [op : {"open", "close", "ping"}, streams : SUBSET (1 .. keys')]
<1>1. /\ UNCHANGED <<sock, url, online, events>> /\ online /\ GiveKey /\ token' = key'
      /\ templates' = [templates EXCEPT !["user"] = streams]
      /\ Post("user", added \o opened)
  BY DEF AnswerAuth, Awaits, sockets, network
<1>2. /\ IsMap(commands) /\ IsMap(templates) /\ commands["user"] \in Seq(CommandSet("user"))
      /\ "user" \in Sockets /\ "market" \in Sockets /\ Sockets = {"user", "market"} /\ Current("user")
      /\ templates["user"] \subseteq StreamsOf("user") /\ KeysTyped
  BY DEF UrlInv, TypeInv, CommandsTyped, StreamsTyped, Sockets
<1>3. /\ keys' \in Nat /\ token' \in 1 .. keys' /\ 1 .. keys \subseteq 1 .. keys'
  BY <1>1, <1>2, GiveKeyTyped
<1>4. templates["user"] \subseteq 1 .. keys' /\ streams \subseteq 1 .. keys' /\ streams # {}
  BY <1>2, <1>3 DEF StreamsOf
<1>5. added \in Seq(C) /\ opened \in Seq(C)
  BY <1>2, <1>3, <1>4, AddStreamTyped, OpenTyped, EmptySeq
<1>6. CommandSet("user") \subseteq C
  BY <1>3 DEF CommandSet, StreamsOf
<1>7. commands["user"] \in Seq(C)
  BY <1>2, <1>6, SeqMonotonic
<1>8. templates'["user"] = streams /\ templates'["market"] = templates["market"]
  BY <1>1, <1>2 DEF IsMap
<1>9. commands'["user"] = commands["user"] \o (added \o opened) /\ commands'["market"] = commands["market"]
  BY <1>1, <1>2 DEF IsMap, Post
<1>10. Current("user")'
  <2>1. CASE IsConnected("user") /\ token' \in templates["user"]
    <3>1. added = <<>> /\ opened = <<>> /\ streams = templates["user"]
      BY <2>1 DEF AddStreamOf
    <3>2. added \o opened = <<>> /\ commands["user"] \o <<>> = commands["user"]
      BY <1>2, <3>1, ConcatEmptySeq, EmptySeq
    <3> HIDE DEF added, opened, streams, C
    <3>3. Quiet("user")
      BY <1>1, <1>8, <1>9, <3>1, <3>2 DEF Quiet, IsConnected
    <3>4. QED
      BY <1>2, <3>3, QuietCurrent
  <2>2. CASE IsConnected("user") /\ token' \notin templates["user"]
    <3>1. added = ReconnectOf("user", streams) /\ opened = <<>>
      BY <2>2 DEF AddStreamOf
    <3>2. added # <<>> /\ added[Len(added)] = Command("open", streams)
      BY <1>1, <1>2, <1>4, <3>1, ReconnectEnds
    <3> HIDE DEF added, opened, streams, C
    <3>3. added \o opened = added
      BY <1>5, <3>1, ConcatEmptySeq
    <3>4. QED
      BY <1>2, <1>4, <1>5, <1>7, <1>8, <1>9, <3>2, <3>3, OpenEnds
  <2>3. CASE ~IsConnected("user")
    <3>1. opened # <<>> /\ opened[Len(opened)] = Command("open", streams)
      BY <1>1, <1>2, <1>4, <2>3, ReconnectEnds
    <3> HIDE DEF added, opened, streams, C
    <3>2. commands["user"] \o (added \o opened) = (commands["user"] \o added) \o opened
      <4>1. PICK a, b, c \in Seq(C) : a = commands["user"] /\ b = added /\ c = opened
        BY <1>5, <1>7
      <4>2. (a \o b) \o c = a \o (b \o c)
        BY ConcatAssociative
      <4>3. QED
        BY <4>1, <4>2
    <3>3. commands["user"] \o added \in Seq(C)
      BY <1>5, <1>7, ConcatProperties
    <3>4. QED
      BY <1>2, <1>4, <1>5, <1>8, <1>9, <3>1, <3>2, <3>3, OpenEnds
  <2>4. QED
    BY <2>1, <2>2, <2>3
<1>11. Current("market")'
  <2>1. Quiet("market")
    BY <1>1, <1>8, <1>9 DEF Quiet, IsConnected
  <2>2. QED
    BY <1>2, <2>1, QuietCurrent DEF UrlInv
<1>12. BookAfterTickers'
  BY <1>8 DEF UrlInv, BookAfterTickers
<1>13. QED
  BY <1>2, <1>10, <1>11, <1>12

(* A book that is subscribed to or left changes the streams with the URL.  *)
LEMMA BookCurrent ==
  ASSUME UrlInv, AddBook \/ RemoveBook
  PROVE  (\A t \in Sockets : Current(t)') /\ BookAfterTickers'
<1>1. UNCHANGED <<sock, url, online, events>>
  BY DEF AddBook, RemoveBook, sockets, thread, network
<1>2. "market" \in Sockets /\ "book" \in StreamsOf("market") /\ IsMap(templates)
      /\ templates["market"] \subseteq StreamsOf("market")
  BY DEF Sockets, StreamsOf, Books, UrlInv, TypeInv, StreamsTyped
<1>3. CASE AddBook
  <2>1. \A t \in Sockets : Current(t)'
    BY <1>1, <1>2, <1>3, AddStreamStep DEF AddBook
  <2>2. "tickers" \in templates'["market"]
    BY <1>2, <1>3 DEF AddBook, IsMap
  <2>3. QED
    BY <2>1, <2>2 DEF BookAfterTickers
<1>4. CASE RemoveBook
  <2> DEFINE streams == templates["market"] \ {"book"}
  <2>1. /\ Post("market", ReconnectOf("market", streams)) /\ "book" \in templates["market"]
        /\ templates' = [templates EXCEPT !["market"] = streams]
    BY <1>4 DEF RemoveBook
  <2>2. streams \in SUBSET StreamsOf("market") /\ "tickers" \in streams
    BY <1>2, <2>1 DEF UrlInv, BookAfterTickers
  <2>3. "book" \notin templates'["market"]
    BY <1>2, <2>1 DEF IsMap
  <2> HIDE DEF streams
  <2>4. \A t \in Sockets : Current(t)'
    BY <1>1, <1>2, <2>1, <2>2, ReconnectStep
  <2>5. QED
    BY <2>3, <2>4 DEF BookAfterTickers
<1>5. QED
  BY <1>3, <1>4

(* Nobody sends pings to a socket with commands on their way.              *)
LEMMA PingFireCurrent ==
  ASSUME UrlInv, PingFire
  PROVE  (\A t \in Sockets : Current(t)') /\ BookAfterTickers'
<1>1. /\ UNCHANGED <<sock, url, online, events, templates>>
      /\ \A s \in Sockets : commands[s] = <<>>
      /\ commands' = [s \in Sockets |-> IF IsOpen(s) THEN <<Command("ping", {})>> ELSE <<>>]
  BY DEF PingFire, sockets, thread, network
<1>2. ASSUME NEW s \in Sockets PROVE Current(s)'
  <2>1. Current(s) /\ commands[s] = <<>>
    BY <1>1 DEF UrlInv
  <2>2. \A i \in 1 .. Len(commands'[s]) : commands'[s][i].op = "ping"
    BY <1>1, EmptySeq DEF Command
  <2>3. NothingWanted(s)'
    BY <1>1, <2>1, <2>2 DEF Current, NothingWanted, IsConnected
  <2>4. OnlyPings(s, 1)
    BY <2>1, EmptySeq DEF OnlyPings
  <2>5. LastOpenCurrent(s) => LastOpenCurrent(s)'
    BY <1>1, <2>2, <2>4 DEF LastOpenCurrent, IsConnected
  <2>6. QED
    BY <1>1, <2>1, <2>3, <2>5 DEF Current, Event
<1>3. QED
  BY <1>1, <1>2 DEF UrlInv, BookAfterTickers

(* The return of the network is posted to both.                            *)
LEMMA NetworkUpCurrent ==
  ASSUME UrlInv, NetworkUp
  PROVE  (\A t \in Sockets : Current(t)') /\ BookAfterTickers'
<1>1. /\ UNCHANGED <<sock, url, templates, commands>>
      /\ events' = <<Event("market", "opened"), Event("user", "opened")>>
  BY DEF NetworkUp, sockets, client
<1>2. ASSUME NEW s \in Sockets PROVE Contains(events', Event(s, "opened"))
  BY <1>1 DEF Contains, Sockets
<1>3. ASSUME NEW s \in Sockets PROVE NothingWanted(s)'
  <2>1. NothingWanted(s)
    BY DEF UrlInv, Current
  <2>2. QED
    BY <1>1, <2>1 DEF NothingWanted, IsConnected
<1>4. QED
  BY <1>1, <1>2, <1>3 DEF UrlInv, Current, BookAfterTickers, Event

(* Every step keeps the invariant about the URLs.                          *)
LEMMA UrlStep == UrlInv /\ [Next]_vars => UrlInv'
<1> SUFFICES ASSUME UrlInv, [Next]_vars PROVE (\A t \in Sockets : Current(t)') /\ BookAfterTickers'
  BY TypeStep DEF UrlInv
<1>1. ASSUME UNCHANGED <<sock, url, events, commands, templates>>, online' => online
      PROVE  (\A t \in Sockets : Current(t)') /\ BookAfterTickers'
  BY <1>1, SameStep DEF IsConnected
<1>2. ASSUME NEW s \in Sockets, Execute(s) \/ Connect(s) \/ PongFire(s)
      PROVE  (\A t \in Sockets : Current(t)') /\ BookAfterTickers'
  <2>1. CASE Connect(s)
    <3>1. UNCHANGED <<url, commands, templates, online, events>> /\ sock' = [sock EXCEPT ![s] = "open"]
          /\ sock[s] = "connecting"
      BY <2>1 DEF Connect, client, thread, network
    <3>2. sock \in [Sockets -> {"closed", "connecting", "open"}]
      BY DEF UrlInv, TypeInv, SocketsTyped
    <3>3. \A t \in Sockets : IsConnected(t)' => IsConnected(t)
      BY <3>1, <3>2 DEF IsConnected
    <3>4. QED
      BY <3>1, <3>3, SameStep
  <2>2. CASE PongFire(s)
    <3>1. UNCHANGED <<sock, url, templates, online, events>> /\ Post(s, ReconnectOf(s, templates[s]))
      BY <2>2 DEF PongFire, sockets, thread, network
    <3>2. templates[s] \subseteq StreamsOf(s) /\ templates' = [templates EXCEPT ![s] = templates[s]]
      BY <3>1 DEF UrlInv, TypeInv, StreamsTyped, IsMap
    <3>3. \A t \in Sockets : Current(t)'
      BY <3>1, <3>2, ReconnectStep
    <3>4. QED
      BY <3>1, <3>3 DEF UrlInv, BookAfterTickers
  <2>3. QED
    BY <1>2, <2>1, <2>2, ExecuteCurrent
<1>3. CASE Request \/ Return
  BY <1>1, <1>3 DEF Request, Return, sockets, client, network
<1>4. ASSUME NEW i \in 1 .. Len(calls), Answer(i)
      PROVE  (\A t \in Sockets : Current(t)') /\ BookAfterTickers'
  <2>1. CASE AnswerInfo(i)
    BY <2>1, AskTickersCurrent DEF AnswerInfo, sockets, network
  <2>2. CASE AnswerAuth(i)
    BY <2>2, AnswerAuthCurrent
  <2>3. CASE AnswerTime(i) \/ AnswerOrders(i) \/ AnswerTimestamp(i)
    BY <1>1, <2>3 DEF AnswerTime, AnswerOrders, AnswerTimestamp, sockets, client, network
  <2>4. ASSUME NEW kind \in {"refused", "block"}, AnswerError(i, kind)
        PROVE  (\A t \in Sockets : Current(t)') /\ BookAfterTickers'
    <3>1. UNCHANGED <<sock, url, online, events>> /\ (AskTickers \/ UNCHANGED <<commands, templates>>)
      BY <2>4 DEF AnswerError, sockets
    <3>2. QED
      BY <1>1, <3>1, AskTickersCurrent
  <2>5. QED
    BY <1>4, <2>1, <2>2, <2>3, <2>4 DEF Answer
<1>5. CASE Unblock \/ PutFire \/ AnswerPut
  BY <1>1, <1>5 DEF Unblock, PutFire, AnswerPut, sockets, client, network, thread
<1>6. CASE Environment
  <2>1. ASSUME NEW s \in Sockets, Silent(s)
        PROVE  (\A t \in Sockets : Current(t)') /\ BookAfterTickers'
    BY <1>1, <2>1 DEF Silent, client, network, thread
  <2>2. ASSUME NEW s \in Sockets, \/ FailConnect(s) \/ \E how \in {"clean", "reset"} : Close(s, how)
        PROVE  (\A t \in Sockets : Current(t)') /\ BookAfterTickers'
    BY <2>2, LoseCurrent DEF FailConnect, Close
  <2>3. CASE Expire \/ NetworkDown
    BY <1>1, <2>3 DEF Expire, NetworkDown, sockets, client, network, thread
  <2>4. QED
    BY <1>6, <2>1, <2>2, <2>3, BookCurrent DEF Environment
<1>7. CASE UNCHANGED vars
  BY <1>1, <1>7 DEF vars, sockets, client, network, thread
<1>8. QED
  BY <1>2, <1>3, <1>4, <1>5, <1>6, <1>7, DeliverCurrent, StartCurrent, PingFireCurrent, NetworkUpCurrent
     DEF Next

(* At the start no web socket is open and no stream is asked for.          *)
LEMMA UrlInit == Init => UrlInv
<1> SUFFICES ASSUME Init PROVE (\A s \in Sockets : Current(s)) /\ BookAfterTickers
  BY TypeInit DEF UrlInv
<1>1. ASSUME NEW s \in Sockets PROVE Current(s)
  <2>1. templates[s] = {} /\ commands[s] = <<>> /\ ~IsConnected(s)
    BY DEF Init, IsConnected
  <2>2. NothingWanted(s)
    BY <2>1, EmptySeq DEF NothingWanted
  <2>3. QED
    BY <2>1, <2>2, NothingCurrent
<1>2. BookAfterTickers
  BY DEF Init, BookAfterTickers, Sockets
<1>3. QED
  BY <1>1, <1>2

(* An open socket with nothing posted to it is subscribed to the streams   *)
(* that are wanted, whenever the handlers of BinanceAPI and the timers     *)
(* read the state of the socket and however what they post interleaves     *)
(* with what its thread executes: for any faults, any number of them and   *)
(* any race.                                                               *)
THEOREM UrlCurrentHolds == Spec => []UrlCurrent
<1>1. UrlInv => UrlCurrent
  <2> SUFFICES ASSUME UrlInv, NEW s \in Sockets, commands[s] = <<>>, IsConnected(s), online,
                      ~Contains(events, Event(s, "opened"))
               PROVE  url[s] = templates[s]
    BY DEF UrlCurrent
  <2>1. LastOpenCurrent(s) /\ OnlyPings(s, 1)
    BY EmptySeq DEF UrlInv, Current, OnlyPings
  <2>2. QED
    BY <2>1 DEF LastOpenCurrent
<1>2. QED
  BY <1>1, UrlInit, UrlStep, PTL DEF Spec

=============================================================================
