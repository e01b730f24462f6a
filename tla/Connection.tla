----------------------------- MODULE Connection -----------------------------
(***************************************************************************)
(* How the bot keeps its two web sockets alive: the stream of the user     *)
(* (reports of orders and balances, under a listen key that expires) and   *)
(* the stream of the markets.  Two actors: the main thread, and the thread *)
(* of each socket, which executes what WebSocketClient posts to it and     *)
(* posts back what happens.                                                *)
(*                                                                         *)
(* A handler of BinanceAPI waits for its replies in event loops of its     *)
(* own, which run further handlers inside it: the main thread is a stack   *)
(* of calls, and an answer only lets the topmost one go on.                *)
(*                                                                         *)
(* Abstractions: the requests for one purpose are one (listMarketInfo and  *)
(* listMarketData; the history, the open orders and the balance); a listen *)
(* key is a number, 0 is none; of the markets' streams there are that of   *)
(* the tickers and one book.  A round trip on an open socket takes less    *)
(* than the 5 s of the pong timer, so that timer only fires when no ping   *)
(* and no pong is on its way, and a handshake takes longer than executing  *)
(* what is posted to the socket.  A close finds the write buffer empty.    *)
(***************************************************************************)
EXTENDS Integers, Sequences, FiniteSets, SequencesExt

CONSTANTS
  MaxFaults,  (* bound: what the environment does in all                  *)
  Faults,     (* what it may do, see FaultKinds                           *)
  Races       (* when it may do so, see RaceKinds                         *)

(* "clean", "reset" - the server closes a socket, in order or not;         *)
(* "silent" - a peer is gone and nothing says so; "down" - the network is  *)
(* gone and comes back (only as the first fault); "block" - a request      *)
(* fails, host not found or too many of them; "refused" - it fails in any  *)
(* other way; "expire" - the exchange forgets the listen key; "streams" -  *)
(* the user adds or removes a pair; "ping" - pings are sent although       *)
(* nobody is gone.                                                         *)
FaultKinds == {"clean", "reset", "silent", "down", "block", "refused",
               "expire", "streams", "ping"}

(* "unpinged" - a peer is silently gone while the timer of the pings is,   *)
(* or soon will be, off.                                                   *)
RaceKinds == {"unpinged"}

ASSUME BoundAssumption == MaxFaults \in Nat
ASSUME FaultsAssumption == Faults \subseteq FaultKinds
ASSUME RacesAssumption == Races \subseteq RaceKinds

Sockets == {"user", "market"}
Books == {"tickers", "book"}

(* What a handler does in turn; each but "start" is a request.             *)
PublicCalls == <<"info", "start">>
PrivateCalls == <<"time", "auth", "orders">>
RunCalls == <<"info", "time", "auth", "start", "orders">>

VARIABLES
  sock,       (* QWebSocket::state                                        *)
  dead,       (* environment: the peer of the socket is silently gone     *)
  url,        (* the streams that the socket was opened for               *)
  commands,   (* posted to the thread of the socket                       *)
  pong,       (* m_pongTimer is on                                        *)
  templates,  (* m_streamTemplates, and m_url                             *)
  events,     (* posted to the main thread                                *)
  calls,      (* the handlers under way, each inside the one before       *)
  online,     (* QNetworkSession::isOpen                                  *)
  blocked,    (* m_requestsIsBlock; m_requestBreakTimer is on             *)
  pingTimer,  (* m_userWSPingTimerId # 0                                  *)
  putTimer,   (* m_userWSPutKeyTimerId # 0                                *)
  clock,      (* m_serverTimeOffset is right                              *)
  token,      (* m_userToken                                              *)
  put,        (* the key of the PUT under way, 0 if none                  *)
  key,        (* exchange: the listen key that is valid, 0 if none        *)
  keys,       (* exchange: how many keys it has given                     *)
  stale,      (* history: reports may have been missed and not asked for  *)
  refused,    (* history: requests that failed and that nothing repeats   *)
  faults      (* history: how often the environment has interfered        *)

sockets == <<sock, dead, url>>
client == <<commands, pong, templates>>
thread == <<events, calls>>
network == <<online, blocked>>
timers == <<pingTimer, putTimer>>
login == <<token, put, key, keys>>
history == <<stale, refused>>
vars == <<sockets, client, thread, network, timers, clock, login, history,
          faults>>

-----------------------------------------------------------------------------
(* The web socket client.                                                  *)

Command(op, streams) == [op |-> op, streams |-> streams]

IsOpen(s) == sock[s] = "open"
IsConnected(s) == sock[s] \in {"open", "connecting"}

(* What open posts when the streams of the socket are those.               *)
OpenOf(streams) ==
  IF streams # {} /\ online THEN <<Command("open", streams)>> ELSE <<>>

ReconnectOf(s, streams) ==
  IF IsConnected(s) THEN <<Command("close", {})>> \o OpenOf(streams)
  ELSE OpenOf(streams)

Post(s, posted) == commands' = [commands EXCEPT ![s] = @ \o posted]

(* Mutant: the URL is made before the stream is added.                     *)
AddStreamEarlyUrl(s, stream) ==
  IF stream \in templates[s] THEN <<>> ELSE ReconnectOf(s, templates[s])

(* What addStreamTemplate posts.                                           *)
AddStreamOf(s, stream) ==
  IF stream \in templates[s] THEN <<>>
  ELSE ReconnectOf(s, templates[s] \cup {stream})

-----------------------------------------------------------------------------
(* The stack of calls of the main thread.                                  *)

Call(todo) == [todo |-> todo, at |-> "run"]

Top == calls[Len(calls)]
Running == calls # <<>> /\ Top.at = "run"
Idle == ~Running

(* A request to send or a return: that only touches the stack, so nothing  *)
(* else need happen before it.                                             *)
OnlyStack == Running /\ (Top.todo = <<>> \/ Head(Top.todo) # "start")

Event(s, ev) == [socket |-> s, ev |-> ev]

(* The topmost call goes on if its reply has come.                         *)
Continue(stack) ==
  IF stack = <<>> \/ Last(stack).at # "done" THEN stack
  ELSE Append(Front(stack), Call(Tail(Last(stack).todo)))

(* Mutant: nothing leaves the loop of the call.                            *)
AnsweredOnly(i, begun) == calls' = [calls EXCEPT ![i].at = "done"] \o begun

(* The reply of call i has come; its handler has begun other calls.        *)
Answered(i, begun) ==
  LET stack == [calls EXCEPT ![i].at = "done"] \o begun
  IN  calls' = Continue(stack)

(* Both reload signals, the public one first.                              *)
BothHandlers == <<Call(PrivateCalls), Call(PublicCalls)>>

Init ==
  /\ sock = [s \in Sockets |-> "closed"]
  /\ dead = [s \in Sockets |-> FALSE]
  /\ url = [s \in Sockets |-> {}]
  /\ commands = [s \in Sockets |-> <<>>]
  /\ pong = [s \in Sockets |-> FALSE]
  /\ templates = [s \in Sockets |-> {}]
  /\ events = <<>>
  /\ calls = <<Call(RunCalls)>>
  /\ online = TRUE /\ blocked = FALSE
  /\ pingTimer = FALSE /\ putTimer = FALSE
  /\ clock = FALSE
  /\ token = 0 /\ put = 0 /\ key = 0 /\ keys = 0
  /\ stale = TRUE /\ refused = {}
  /\ faults = 0

-----------------------------------------------------------------------------
(* The thread of a socket.                                                 *)

(* QWebSocket::open drops the socket it had without a signal; close emits  *)
(* disconnected; a ping is answered if there is a peer.                    *)
Execute(s) ==
  /\ ~OnlyStack /\ commands[s] # <<>>
  /\ LET c == Head(commands[s]) IN
     /\ commands' = [commands EXCEPT ![s] = Tail(@)]
     /\ CASE c.op = "open" ->
               /\ sock' = [sock EXCEPT ![s] = "connecting"]
               /\ url' = [url EXCEPT ![s] = c.streams]
               /\ events' = events
          [] c.op = "close" ->
               /\ sock' = [sock EXCEPT ![s] = "closed"]
               /\ events' = IF IsConnected(s)
                            THEN Append(events, Event(s, "disconnected"))
                            ELSE events
               /\ url' = url
          [] c.op = "ping" ->
               /\ events' = IF IsOpen(s) /\ ~dead[s]
                            THEN Append(events, Event(s, "pong")) ELSE events
               /\ UNCHANGED <<sock, url>>
     /\ dead' = [dead EXCEPT ![s] = @ /\ c.op = "ping"]
     /\ stale' = (stale \/ (s = "user" /\ IsOpen(s) /\ c.op # "ping"))
  /\ UNCHANGED <<pong, templates, calls, network, timers, clock, login,
                 refused, faults>>

Connect(s) ==
  /\ ~OnlyStack /\ online
  /\ sock[s] = "connecting" /\ commands[s] = <<>>
  /\ sock' = [sock EXCEPT ![s] = "open"]
  /\ UNCHANGED <<dead, url, client, thread, network, timers, clock, login,
                 history, faults>>

Fault(kind) ==
  /\ ~OnlyStack
  /\ kind \in Faults /\ faults < MaxFaults
  /\ faults' = faults + 1

(* The socket is closed by its peer, or could not be opened.               *)
Lose(s, how) ==
  /\ ~OnlyStack
  /\ sock' = [sock EXCEPT ![s] = "closed"]
  /\ dead' = [dead EXCEPT ![s] = FALSE]
  /\ events' = events
               \o (IF how = "clean" THEN <<>> ELSE <<Event(s, "error")>>)
               \o <<Event(s, "disconnected")>>
  /\ stale' = (stale \/ (s = "user" /\ IsOpen(s)))
  /\ UNCHANGED <<url, client, calls, network, timers, clock, login, refused>>

Close(s, how) ==
  /\ Fault(how)
  /\ IsOpen(s) /\ ~dead[s] /\ online
  /\ Lose(s, how)

FailConnect(s) ==
  /\ sock[s] = "connecting"
  /\ IF online THEN Fault("reset") ELSE faults' = faults
  /\ Lose(s, "reset")

-----------------------------------------------------------------------------
(* The main thread takes what the sockets have posted.  The connections to *)
(* the handlers of the reload are direct: they run inside.                 *)

Deliver ==
  /\ Idle
  /\ events # <<>>
  /\ LET e == Head(events) IN
     /\ events' = Tail(events)
     /\ CASE e.ev = "disconnected" ->
               /\ calls' = Append(calls, Call(IF e.socket = "user"
                                              THEN PrivateCalls
                                              ELSE PublicCalls))
               /\ UNCHANGED <<commands, pong>>
          [] e.ev = "error" ->
               /\ pong' = [pong EXCEPT ![e.socket] = TRUE]
               /\ UNCHANGED <<commands, calls>>
          [] e.ev = "pong" ->
               /\ pong' = [pong EXCEPT ![e.socket] = FALSE]
               /\ UNCHANGED <<commands, calls>>
          [] e.ev = "opened" ->
               /\ Post(e.socket, ReconnectOf(e.socket, templates[e.socket]))
               /\ calls' = IF e.socket = "market"
                           THEN calls \o BothHandlers ELSE calls
               /\ pong' = pong
  /\ UNCHANGED <<sockets, templates, network, timers, clock, login, history,
                 faults>>

(* A request leaves unless requests are blocked or the session is closed.  *)
MaySend == ~blocked /\ online

(* The next request of the topmost call; one that does not leave has no    *)
(* reply, and the call goes on.                                            *)
Request ==
  /\ Running /\ Top.todo # <<>> /\ Head(Top.todo) # "start"
  /\ calls' = IF MaySend THEN [calls EXCEPT ![Len(calls)].at = "wait"]
              ELSE [calls EXCEPT ![Len(calls)].todo = Tail(@)]
  /\ UNCHANGED <<sockets, client, events, network, timers, clock, login,
                 history, faults>>

(* Mutant: the socket is opened only with the timer of the pings.          *)
StartOnce ==
  /\ Running /\ Top.todo # <<>> /\ Head(Top.todo) = "start"
  /\ calls' = [calls EXCEPT ![Len(calls)].todo = Tail(@)]
  /\ Post("market", IF pingTimer THEN <<>> ELSE OpenOf(templates["market"]))
  /\ pingTimer' = TRUE
  /\ UNCHANGED <<sockets, pong, templates, events, network, putTimer, clock,
                 login, history, faults>>

Start ==
  /\ Running /\ Top.todo # <<>> /\ Head(Top.todo) = "start"
  /\ calls' = [calls EXCEPT ![Len(calls)].todo = Tail(@)]
  /\ Post("market", IF IsConnected("market") THEN <<>>
                    ELSE OpenOf(templates["market"]))
  /\ pingTimer' = TRUE
  /\ UNCHANGED <<sockets, pong, templates, events, network, putTimer, clock,
                 login, history, faults>>

Return ==
  /\ Running /\ Top.todo = <<>>
  /\ calls' = Continue(Front(calls))
  /\ UNCHANGED <<sockets, client, events, network, timers, clock, login,
                 history, faults>>

-----------------------------------------------------------------------------
(* The answers to the requests.                                            *)

Answerable(i) ==
  /\ Idle
  /\ calls[i].at = "wait"
  /\ \A j \in 1..(i - 1) : calls[j].at # "wait"

Awaits(i, request) == Answerable(i) /\ Head(calls[i].todo) = request

(* processExchangeInfo and processMarketData: whether there were data or   *)
(* not, the tickers are asked for.                                         *)
AskTickers ==
  /\ Post("market", AddStreamOf("market", "tickers"))
  /\ templates' = [templates EXCEPT !["market"] = @ \cup {"tickers"}]

AnswerInfo(i) ==
  /\ Awaits(i, "info") /\ online
  /\ AskTickers
  /\ Answered(i, <<>>)
  /\ UNCHANGED <<sockets, pong, events, network, timers, clock, login,
                 history, faults>>

AnswerTime(i) ==
  /\ Awaits(i, "time") /\ online
  /\ clock' = TRUE
  /\ Answered(i, <<>>)
  /\ UNCHANGED <<sockets, client, events, network, timers, login, history,
                 faults>>

(* The exchange answers with the key it has, or a new one.                 *)
GiveKey ==
  /\ keys' = IF key = 0 THEN keys + 1 ELSE keys
  /\ key' = IF key = 0 THEN keys + 1 ELSE key

(* processUserAuth: the state of the socket is read before its thread has  *)
(* executed anything.                                                      *)
AnswerAuth(i) ==
  /\ Awaits(i, "auth") /\ online
  /\ GiveKey
  /\ token' = key'
  /\ LET streams == templates["user"] \cup {token'} IN
     /\ templates' = [templates EXCEPT !["user"] = streams]
     /\ Post("user", AddStreamOf("user", token')
                     \o (IF IsConnected("user") THEN <<>> ELSE OpenOf(streams)))
  /\ putTimer' = TRUE
  /\ Answered(i, <<>>)
  /\ UNCHANGED <<sockets, pong, events, network, pingTimer, clock, put,
                 history, faults>>

AnswerOrders(i) ==
  /\ Awaits(i, "orders") /\ online /\ clock
  /\ stale' = FALSE
  /\ Answered(i, <<>>)
  /\ UNCHANGED <<sockets, client, events, network, timers, clock, login,
                 refused, faults>>

(* The wrong time: httpError asks for it, but the request that it names is *)
(* neither a slot nor invokable and is not repeated.                       *)
AnswerTimestamp(i) ==
  /\ Awaits(i, "orders") /\ online /\ ~clock
  /\ Answered(i, <<Call(<<"time">>)>>)
  /\ UNCHANGED <<sockets, client, events, network, timers, clock, login,
                 history, faults>>

(* httpError of the rest.  The error comes before the reply is finished: a *)
(* failed "info" runs the public handler inside, a failed "time" leaves an *)
(* offset made of no data.  Only "info", and what is blocked or fails with *)
(* the network, is asked for again.                                        *)
AnswerError(i, kind) ==
  /\ Answerable(i)
  /\ IF online THEN Fault(kind) ELSE kind = "refused" /\ faults' = faults
  /\ LET request == Head(calls[i].todo) IN
     /\ IF request = "info"
        THEN AskTickers /\ Answered(i, <<Call(PublicCalls)>>)
        ELSE UNCHANGED <<commands, templates>> /\ Answered(i, <<>>)
     /\ clock' = (clock /\ request # "time")
     /\ refused' = IF online /\ kind = "refused" /\ request # "info"
                   THEN refused \cup {request} ELSE refused
  /\ blocked' = (blocked \/ kind = "block")
  /\ UNCHANGED <<sockets, pong, events, online, timers, login, stale>>

-----------------------------------------------------------------------------
(* Timers of the main thread.                                              *)

(* Mutant: the break ends without the private handler.                     *)
UnblockPublic ==
  /\ Idle /\ blocked
  /\ blocked' = FALSE
  /\ calls' = Append(calls, Call(PublicCalls))
  /\ UNCHANGED <<sockets, client, events, online, timers, clock, login,
                 history, faults>>

Unblock ==
  /\ Idle /\ blocked
  /\ blocked' = FALSE
  /\ calls' = calls \o BothHandlers
  /\ UNCHANGED <<sockets, client, events, online, timers, clock, login,
                 history, faults>>

PingUnderWay(s) ==
  \/ \E i \in 1..Len(commands[s]) : commands[s][i].op = "ping"
  \/ Contains(events, Event(s, "pong"))

(* Every ten seconds, which is longer than the threads of the sockets need *)
(* for what is posted to them.  Pings that all answer change nothing but   *)
(* when a connection is lost under them, so those are a fault, bounded.    *)
PingFire ==
  /\ Idle /\ pingTimer
  /\ \A s \in Sockets : ~pong[s] /\ ~PingUnderWay(s) /\ commands[s] = <<>>
  /\ IF \E s \in Sockets : IsOpen(s) /\ dead[s] THEN faults' = faults
     ELSE Fault("ping") /\ \E s \in Sockets : IsOpen(s)
  /\ commands' = [s \in Sockets |-> IF IsOpen(s) THEN <<Command("ping", {})>>
                                    ELSE <<>>]
  /\ pong' = [s \in Sockets |-> IsOpen(s)]
  /\ UNCHANGED <<sockets, templates, thread, network, timers, clock, login,
                 history>>

(* Mutant: a new connection replaces the old one, which is not closed.     *)
PongFireOpens(s) ==
  /\ Idle /\ pong[s] /\ commands[s] = <<>> /\ ~PingUnderWay(s)
  /\ pong' = [pong EXCEPT ![s] = FALSE]
  /\ Post(s, OpenOf(templates[s]))
  /\ UNCHANGED <<sockets, templates, thread, network, timers, clock, login,
                 history, faults>>

PongFire(s) ==
  /\ Idle /\ pong[s] /\ commands[s] = <<>> /\ ~PingUnderWay(s)
  /\ pong' = [pong EXCEPT ![s] = FALSE]
  /\ Post(s, ReconnectOf(s, templates[s]))
  /\ UNCHANGED <<sockets, templates, thread, network, timers, clock, login,
                 history, faults>>

(* Every three minutes.  A PUT of the key that the exchange holds changes  *)
(* nothing and is left out.                                                *)
PutFire ==
  /\ Idle /\ putTimer /\ token # 0 /\ token # key /\ MaySend
  /\ put = 0 /\ commands["user"] = <<>>
  /\ put' = token
  /\ UNCHANGED <<sockets, client, thread, network, timers, clock, token, key,
                 keys, history, faults>>

(* An invalid listen key: logOut, which removes "listenKey=" and the token *)
(* from templates that hold the bare token, and userAuth.                  *)
AnswerPut ==
  /\ Idle /\ put # 0 /\ online
  /\ put' = 0
  /\ pingTimer' = FALSE /\ putTimer' = FALSE
  /\ calls' = Append(calls, Call(<<"auth">>))
  /\ UNCHANGED <<sockets, client, events, network, clock, token, key, keys,
                 history, faults>>

-----------------------------------------------------------------------------
(* The user and the environment.                                           *)

(* listMarketOrders and removeListMarketOrders; there are pairs to choose  *)
(* once the handlers that ask for the tickers have received them.          *)
AddBook ==
  /\ Idle /\ Fault("streams")
  /\ templates["market"] = {"tickers"}
  /\ Post("market", AddStreamOf("market", "book"))
  /\ templates' = [templates EXCEPT !["market"] = @ \cup {"book"}]
  /\ UNCHANGED <<sockets, pong, thread, network, timers, clock, login,
                 history>>

RemoveBook ==
  /\ Idle /\ Fault("streams")
  /\ "book" \in templates["market"]
  /\ Post("market", ReconnectOf("market", templates["market"] \ {"book"}))
  /\ templates' = [templates EXCEPT !["market"] = @ \ {"book"}]
  /\ UNCHANGED <<sockets, pong, thread, network, timers, clock, login,
                 history>>

(* The pings are on and will stay so: no listen key is about to be found   *)
(* invalid.                                                                *)
Pinged == pingTimer /\ key # 0 /\ put \in {0, key} /\ token = key

Silent(s) ==
  /\ Fault("silent")
  /\ IsOpen(s) /\ ~dead[s] /\ online
  /\ Pinged \/ "unpinged" \in Races
  /\ dead' = [dead EXCEPT ![s] = TRUE]
  /\ stale' = (stale \/ s = "user")
  /\ UNCHANGED <<sock, url, client, thread, network, timers, clock, login,
                 refused>>

Expire ==
  /\ Fault("expire")
  /\ key # 0
  /\ (\A s \in Sockets : ~dead[s]) \/ "unpinged" \in Races
  /\ key' = 0
  /\ stale' = TRUE
  /\ UNCHANGED <<sockets, client, thread, network, timers, clock, token, put,
                 keys, refused>>

NetworkDown ==
  /\ ~OnlyStack /\ online
  /\ Fault("down") /\ faults = 0
  /\ online' = FALSE
  /\ dead' = [s \in Sockets |-> dead[s] \/ IsOpen(s)]
  /\ stale' = TRUE
  /\ UNCHANGED <<sock, url, client, thread, blocked, timers, clock, login,
                 refused>>

(* The network is away for longer than the timers of the sockets need to   *)
(* find that out; then the sessions of both are opened again, in the order *)
(* in which they were made.                                                *)
NetworkUp ==
  /\ ~online
  /\ calls = <<>> /\ events = <<>>
  /\ \A s \in Sockets : /\ commands[s] = <<>> /\ ~pong[s]
                        /\ pingTimer => sock[s] = "closed"
  /\ online' = TRUE
  /\ events' = <<Event("market", "opened"), Event("user", "opened")>>
  /\ UNCHANGED <<sockets, client, calls, blocked, timers, clock, login,
                 history, faults>>

-----------------------------------------------------------------------------
Answer(i) ==
  \/ AnswerInfo(i) \/ AnswerTime(i) \/ AnswerAuth(i) \/ AnswerOrders(i)
  \/ AnswerTimestamp(i)
  \/ \E kind \in {"refused", "block"} : AnswerError(i, kind)

Environment ==
  \/ AddBook \/ RemoveBook \/ Expire \/ NetworkDown
  \/ \E s \in Sockets : \/ Silent(s) \/ FailConnect(s)
                        \/ \E how \in {"clean", "reset"} : Close(s, how)

Next ==
  \/ \E s \in Sockets : Execute(s) \/ Connect(s) \/ PongFire(s)
  \/ Deliver
  \/ Request \/ Start \/ Return
  \/ \E i \in 1..Len(calls) : Answer(i)
  \/ Unblock \/ PingFire \/ PutFire \/ AnswerPut
  \/ Environment \/ NetworkUp

(* The threads and the event loop run, timers fire, a request is answered  *)
(* or fails, the network comes back.  Nothing is asked of the environment  *)
(* but that, with MaxFaults, it leaves the bot alone at last.              *)
Fairness ==
  /\ \A s \in Sockets : /\ WF_vars(Execute(s) \/ Connect(s))
                        /\ WF_vars(PongFire(s))
                        /\ WF_vars(~online /\ FailConnect(s))
  /\ WF_vars(Deliver) /\ WF_vars(Request \/ Start \/ Return)
  /\ WF_vars(\E i \in 1..Len(calls) : Answer(i))
  /\ WF_vars(Unblock) /\ WF_vars(PingFire)
  /\ WF_vars(PutFire) /\ WF_vars(AnswerPut)
  /\ WF_vars(NetworkUp)

Spec == Init /\ [][Next]_vars
FairSpec == Spec /\ Fairness

-----------------------------------------------------------------------------
StreamsOf(s) == IF s = "user" THEN 1..keys ELSE Books

CommandSet(s) ==
  [op : {"open", "close", "ping"}, streams : SUBSET StreamsOf(s)]
EventSet ==
  [socket : Sockets, ev : {"disconnected", "error", "pong", "opened"}]

(* Every variable has its type; a call that waits has something to wait    *)
(* for, and a key in use is one the exchange has given.                    *)
TypeOK ==
  /\ sock \in [Sockets -> {"closed", "connecting", "open"}]
  /\ {dead, pong} \subseteq [Sockets -> BOOLEAN]
  /\ \A s \in Sockets :
       /\ url[s] \subseteq StreamsOf(s) /\ templates[s] \subseteq StreamsOf(s)
       /\ \A i \in 1..Len(commands[s]) : commands[s][i] \in CommandSet(s)
  /\ \A i \in 1..Len(events) : events[i] \in EventSet
  /\ \A i \in 1..Len(calls) :
       /\ calls[i].at \in {"run", "wait", "done"}
       /\ calls[i].at # "run" => calls[i].todo # <<>>
       /\ calls[i].at = "done" => i < Len(calls)
  /\ {online, blocked, pingTimer, putTimer, clock, stale} \subseteq BOOLEAN
  /\ refused \subseteq {"time", "auth", "orders"}
  /\ keys \in Nat /\ {token, put, key} \subseteq 0..keys
  /\ faults \in 0..MaxFaults

(* An open socket with no command posted to it is subscribed to the        *)
(* streams that are wanted, however the close and open commands of several *)
(* reconnections and the state that was read before they ran interleave.   *)
UrlCurrent ==
  \A s \in Sockets :
    /\ commands[s] = <<>> /\ IsConnected(s)
    /\ online /\ ~Contains(events, Event(s, "opened"))
    => url[s] = templates[s]

Receiving(s) == IsOpen(s) /\ ~dead[s] /\ online

(* The stream of the user is there for good, under a key that the exchange *)
(* takes, once faults stop: submitOrder and cancelOrder wait for it, as if *)
(* it were only a matter of time.                                          *)
UserStreamKept == <>[](Receiving("user") /\ key \in url["user"])

(* The same of the code as it is: the stream comes back after whatever is  *)
(* lost, reset, expired or blocked, unless a log in was refused.           *)
UserStreamReturns ==
  <>[](\/ Receiving("user") /\ key \in url["user"]
       \/ "auth" \in refused)

(* Once faults stop, the prices of all wanted pairs arrive again, for      *)
(* good: no reconnection is repeated without end, and a refused request is *)
(* sent again.                                                             *)
MarketStreamReturns ==
  <>[](Receiving("market") /\ url["market"] = templates["market"])

(* Whatever was missed of the user's reports, the history, the open orders *)
(* and the balances are asked for afterwards and answered, unless one of   *)
(* the requests for it was refused.                                        *)
DataReloaded == <>[](~stale \/ refused # {})
=============================================================================
