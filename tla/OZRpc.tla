------------------------------- MODULE OZRpc -------------------------------
(***************************************************************************)
(* A service and its clients over Thrift: the generated stubs of C++ and   *)
(* Python clients, the generated processors, the thread pool that keeps a  *)
(* worker for each connection, and the stop of the server by a signal.     *)
(* What a handler does is OZWrite's, OZRead's and OZTrav's subject; here   *)
(* it is run, and returns or throws.                                       *)
(***************************************************************************)
EXTENDS OZWire

CONSTANTS
  Client,       \* each with one connection
  Lang,         \* Lang[c]: "cpp" or "py"
  Workers,      \* threads of the pool (8 in the code)
  Odd,          \* Odd[c]: the odd calls that client c may make
  MaxCalls,     \* bound: MaxCalls[c] calls of client c
  MaxFaults     \* bound: odd calls, broken connections, deaths of the server

OddNames == {"none", "wrong", "unicode", "element", "foreign"}

ASSUME LangAssumption     == Lang \in [Client -> {"cpp", "py"}]
ASSUME PoolAssumption     == Workers \in Nat \ {0}
ASSUME OddAssumption      == Odd \in [Client -> SUBSET OddNames]
ASSUME RpcBoundAssumption == MaxCalls \in [Client -> Nat] /\ MaxFaults \in Nat

VARIABLES
  serves,       \* the service of this server: "write", "read", "trav"
  phase,        \* "serving", "stopping", "stopped" or "dead"
  conn,         \* where the server has each connection
  broken,       \* the network dropped the connection
  up, down,     \* tokens on their way to the server, to the client
  job,          \* the call the connection's worker runs
  deaf,         \* the worker reads garbage and waits for more of it
  pc,           \* the client: "idle", "waiting" for a reply, or "gone"
  wbuf,         \* its write buffer
  made,         \* the calls it has begun
  call,         \* the last of them and what came of it: [name, v, res, back],
                \* res is "" until there is an answer
  raised,       \* those whose argument could not be encoded (history)
  spoiled,      \* one of these was half written in such a way that the server
                \* takes the next call for the rest of it (history)
  times,        \* times[c][n]: the handler's runs for call n of c (history)
  ran,          \* the last run for c that ended since it called: [name, n, v, how]
                \* (history)
  faults        \* how many there were so far

server   == <<serves, phase>>
stream   == <<up, down, broken>>
client   == <<pc, wbuf, made, call, raised, spoiled>>
history  == <<times, ran>>
rpcvars  == <<serves, phase, conn, broken, up, down, job, deaf, pc, wbuf,
              made, call, raised, spoiled, times, ran, faults>>

NoJob  == [name |-> "", n |-> 0, v |-> Default]
NoRun  == [name |-> "", n |-> 0, v |-> Default, how |-> "none"]
NoCall == [name |-> "", v |-> Default, res |-> "none", back |-> Default]

-----------------------------------------------------------------------------
(* The methods: for a client stub, the structs and whether it returns a    *)
(* value; for the processor, how the handler may end ("ouch" is            *)
(* OZException, "std" any other exception).                                *)

Stub(args, result) == [args |-> args, result |-> result]
Process(args, result, throws) == [args |-> args, result |-> result, throws |-> throws]

cpp_put     == Stub(put_args, put_result)
cpp_puts    == Stub(puts_args, puts_result)
cpp_get     == Stub(get_args, get_result)
cpp_gets    == Stub(gets_args, gets_result)
cpp_next_kv == Stub(next_kv_args, next_kv_result)
py_put      == Stub(py_put_args, py_put_result)
py_puts     == Stub(py_puts_args, py_puts_result)
py_get      == Stub(py_get_args, py_get_result)
py_gets     == Stub(py_gets_args, py_gets_result)
py_next_kv  == Stub(py_next_kv_args, py_next_kv_result)

process_put     == Process(put_args, put_result, {"ouch"})
process_puts    == Process(puts_args, puts_result, {})
process_get     == Process(get_args, get_result, {"ouch", "std"})
process_gets    == Process(gets_args, gets_result, {"ouch", "std"})
process_next_kv == Process(next_kv_args, next_kv_result, {"std"})

Stubs == [cpp |-> [put |-> cpp_put, puts |-> cpp_puts, get |-> cpp_get,
                   gets |-> cpp_gets, next_kv |-> cpp_next_kv],
          py  |-> [put |-> py_put, puts |-> py_puts, get |-> py_get,
                   gets |-> py_gets, next_kv |-> py_next_kv]]

Processes == [put |-> process_put, puts |-> process_puts, get |-> process_get,
              gets |-> process_gets, next_kv |-> process_next_kv]

Methods == DOMAIN Processes

\* Each processor's processMap_.
write_map == {"put", "puts"}
read_map  == {"get", "gets"}
trav_map  == {"next_kv"}
processMap == [write |-> write_map, read |-> read_map, trav |-> trav_map][serves]

-----------------------------------------------------------------------------
(* Clients. *)

\* A request as the stub writes it: whole, without its argument (None), or cut
\* where the writing of the argument raises: before anything of it, after the
\* length of a unicode string, which may be a list's last one (after an earlier
\* one the server sees what it does of a list with nothing of it), or before an
\* element that is no string.
Request(c, name, n, kind) ==
  LET args  == Stubs[Lang[c]][name].args
      begin == <<MessageBegin("call", name, n)>>
      whole == IF Lang[c] = "cpp" THEN WriteAll(args, <<n>>)
                                  ELSE WriteNotNone(args, <<n>>)
  IN  CASE kind \in {"good", "foreign"} -> begin \o whole
        [] kind = "none"    -> begin \o WriteNotNone(args, << >>)
        [] kind = "wrong"   -> begin \o SubSeq(whole, 1, 1)
        [] kind = "unicode" -> begin \o SubSeq(whole, 1, 1) \o <<Length>>
        [] kind = "element" -> begin \o SubSeq(whole, 1, 1) \o <<Elements>>

ArgType(name) == Processes[name].args[1].type

\* The calls there are: of a client that has connected to the wrong port, those
\* of another service; Python does not look at the arguments it is given.
Calls(c, kind) ==
  CASE kind = "foreign" -> Methods \ processMap
    [] kind = "unicode" -> {name \in processMap : ArgType(name) \in {"string", "list"}}
    [] kind = "element" -> {name \in processMap : ArgType(name) = "list"}
    [] OTHER            -> processMap

\* Client c makes its next call, and it may be an odd one.
Makes(c, kind) ==
  /\ pc[c] = "idle" /\ made[c] < MaxCalls[c]
  /\ kind \in {"good"} \cup Odd[c]
  /\ made'   = [made EXCEPT ![c] = @ + 1]
  /\ faults' = IF kind = "good" THEN faults ELSE faults + 1
  /\ faults' <= MaxFaults

\* What is known of a call that came to res, or has not yet ("").
CallOf(c, name, kind, res) ==
  [name |-> name, v |-> IF kind = "none" THEN Default ELSE made[c] + 1,
   res |-> res, back |-> Default]

Reachable(c) == conn[c] # "closed" /\ ~broken[c]

\* Mutant: flush leaves in the buffer what it has sent.
CallMutant(c) ==
  /\ \E kind \in {"good", "none", "foreign"} :
       /\ Makes(c, kind)
       /\ \E name \in Calls(c, kind) :
            LET bytes == wbuf[c] \o Request(c, name, made[c] + 1, kind) IN
            /\ wbuf' = [wbuf EXCEPT ![c] = bytes]
            /\ up'   = [up EXCEPT ![c] = IF Reachable(c) THEN @ \o bytes ELSE @]
            /\ call' = [call EXCEPT ![c] = CallOf(c, name, kind, "")]
  /\ pc'   = [pc EXCEPT ![c] = "waiting"]
  /\ ran'  = [ran EXCEPT ![c] = NoRun]
  /\ UNCHANGED <<server, conn, broken, down, job, deaf, raised, spoiled, times>>

\* send_*: the request goes through the write buffer, behind what an earlier
\* failure left there; flush empties the buffer before it sends.
Call(c) ==
  /\ \E kind \in {"good", "none", "foreign"} :
       /\ Makes(c, kind)
       /\ \E name \in Calls(c, kind) :
            /\ up'   = [up EXCEPT ![c] = IF Reachable(c)
                 THEN @ \o wbuf[c] \o Request(c, name, made[c] + 1, kind) ELSE @]
            /\ call' = [call EXCEPT ![c] = CallOf(c, name, kind, "")]
  /\ wbuf' = [wbuf EXCEPT ![c] = << >>]
  /\ pc'   = [pc EXCEPT ![c] = "waiting"]
  /\ ran'  = [ran EXCEPT ![c] = NoRun]
  /\ UNCHANGED <<server, conn, broken, down, job, deaf, raised, spoiled, times>>

\* send_* raises while it writes the argument.  The client may go on, as
\* test.py does after any exception: what was written stays in the buffer.
CallRaises(c) ==
  /\ \E kind \in {"wrong", "unicode", "element"} :
       /\ Makes(c, kind)
       /\ \E name \in Calls(c, kind) :
            /\ wbuf'    = [wbuf EXCEPT ![c] = @ \o Request(c, name, made[c] + 1, kind)]
            /\ call'    = [call EXCEPT ![c] = CallOf(c, name, kind, "encode")]
            /\ spoiled' = [spoiled EXCEPT ![c] =
                 @ \/ kind = "unicode" \/ (kind = "wrong" /\ ArgType(name) # "string")]
  /\ raised' = [raised EXCEPT ![c] = @ \cup {made[c] + 1}]
  /\ UNCHANGED <<server, conn, stream, job, deaf, pc, history>>

\* The reply in down, if it is all there.
Reply(c) == {m \in IF down[c] = << >> THEN {}
                   ELSE ReadStruct(IF down[c][1].mtype = "exception" THEN TApplicationException
                                   ELSE Stubs[Lang[c]][call[c].name].result, Tail(down[c])) :
             m.end = "ok"}

\* recv_*: an exception message is raised; of a result the success is
\* returned, or the OZException raised.  A void method returns if there is
\* none, another raises MISSING_RESULT.  Python looks at neither the name nor
\* the seqid; C++ looks at the name, and as it leaves nothing half written, it
\* is always the one it called.
Outcome(c, set) ==
  LET name == call[c].name IN
    CASE down[c][1].mtype = "exception" -> [res |-> "app", back |-> set[1]]
      [] down[c][1].mtype = "reply" /\ 0 \in DOMAIN set ->
           [res |-> "returned",
            back |-> IF name = "next_kv" THEN Held(py_TravPair, set[0], 2) ELSE set[0]]
      [] down[c][1].mtype = "reply" /\ 0 \notin DOMAIN set /\ 1 \in DOMAIN set ->
           [res |-> "ouch", back |-> Held(py_OZException, set[1], 1)]
      [] OTHER ->
           [res |-> IF 0 \in Ids(Stubs[Lang[c]][name].result) THEN "app" ELSE "returned",
            back |-> Default]

Told(c, set) ==
  [call[c] EXCEPT !.res = Outcome(c, set).res, !.back = Outcome(c, set).back]

\* Mutant: the result of a void method is not looked at.
ReceiveReplyMutant(c) ==
  /\ pc[c] = "waiting"
  /\ \E m \in Reply(c) :
       /\ call' = [call EXCEPT ![c] = Told(c,
            IF call[c].name \in write_map /\ down[c][1].mtype = "reply"
            THEN << >> ELSE m.set)]
       /\ down' = [down EXCEPT ![c] = SubSeq(@, m.used + 2, Len(@))]
  /\ pc' = [pc EXCEPT ![c] = "idle"]
  /\ UNCHANGED <<server, conn, broken, up, job, deaf, wbuf, made, raised, spoiled, history, faults>>

ReceiveReply(c) ==
  /\ pc[c] = "waiting"
  /\ \E m \in Reply(c) :
       /\ call' = [call EXCEPT ![c] = Told(c, m.set)]
       /\ down' = [down EXCEPT ![c] = SubSeq(@, m.used + 2, Len(@))]
  /\ pc' = [pc EXCEPT ![c] = "idle"]
  /\ UNCHANGED <<server, conn, broken, up, job, deaf, wbuf, made, raised, spoiled, history, faults>>

\* The end of the stream comes before a whole reply: TTransportException.
LoseReply(c) ==
  /\ pc[c] = "waiting" /\ Reply(c) = {} /\ ~Reachable(c)
  /\ call' = [call EXCEPT ![c].res = "transport"]
  /\ pc'   = [pc EXCEPT ![c] = "idle"]
  /\ UNCHANGED <<server, conn, stream, job, deaf, wbuf, made, raised, spoiled, history, faults>>

\* The client object goes: its __del__ closes the socket, with no flush.
Leave(c) ==
  /\ pc[c] = "idle"
  /\ pc'   = [pc EXCEPT ![c] = "gone"]
  /\ wbuf' = [wbuf EXCEPT ![c] = << >>]
  /\ call' = [call EXCEPT ![c] = NoCall]
  /\ UNCHANGED <<server, conn, stream, job, deaf, made, raised, spoiled, history, faults>>

-----------------------------------------------------------------------------
(* The server. *)

\* serve() accepts a connection and makes it a task of the thread manager.
Accept(c) ==
  /\ phase = "serving" /\ conn[c] = "backlog"
  /\ conn' = [conn EXCEPT ![c] = "queued"]
  /\ UNCHANGED <<server, stream, job, deaf, client, history, faults>>

\* A worker takes the task and keeps it until the connection ends.
Take(c) ==
  /\ conn[c] = "queued"
  /\ Cardinality({d \in Client : conn[d] = "served"}) < Workers
  /\ conn' = [conn EXCEPT ![c] = "served"]
  /\ UNCHANGED <<server, stream, job, deaf, client, history, faults>>

\* The message at the head of up, if there is enough of it, as process() reads
\* it: the arguments of a method it knows; of another it skips a struct.
Incoming(c) ==
  IF conn[c] # "served" \/ job[c] # NoJob \/ deaf[c] \/ up[c] = << >> THEN {}
  ELSE ReadStruct(IF up[c][1].name \in processMap
                  THEN Processes[up[c][1].name].args ELSE << >>, Tail(up[c]))

\* The worker reads a whole call and starts the handler on it.
Receive(c) == \E m \in Incoming(c) :
  /\ m.end \in {"ok", "junk"} /\ up[c][1].name \in processMap
  /\ LET run == [name |-> up[c][1].name, n |-> up[c][1].n,
                 v |-> IF 1 \in DOMAIN m.set THEN m.set[1] ELSE Default] IN
       /\ job'   = [job EXCEPT ![c] = run]
       /\ times' = [times EXCEPT ![c][run.n] = @ + 1]
  /\ deaf' = [deaf EXCEPT ![c] = m.end = "junk"]
  /\ up'   = [up EXCEPT ![c] =
       IF m.end = "junk" THEN << >> ELSE SubSeq(@, m.used + 2, Len(@))]
  /\ UNCHANGED <<server, conn, broken, down, client, ran, faults>>

Hangup(c) == conn' = [conn EXCEPT ![c] = "closed"]

\* Mutant: a method that is not known is skipped and not answered.
UnknownMutant(c) == \E m \in Incoming(c) :
  /\ m.end \in {"ok", "junk"} /\ up[c][1].name \notin processMap
  /\ up' = [up EXCEPT ![c] = << >>]
  /\ UNCHANGED <<server, conn, broken, down, job, deaf, client, history, faults>>

\* process_fn does not know the method: UNKNOWN_METHOD, and the connection ends.
Unknown(c) == \E m \in Incoming(c) :
  /\ m.end \in {"ok", "junk"} /\ up[c][1].name \notin processMap
  /\ down' = [down EXCEPT ![c] = IF broken[c] THEN @ ELSE
       @ \o <<MessageBegin("exception", up[c][1].name, up[c][1].n)>>
         \o WriteAll(TApplicationException, <<Default, 1>>)]
  /\ up' = [up EXCEPT ![c] = << >>]
  /\ Hangup(c)
  /\ UNCHANGED <<server, broken, job, deaf, client, history, faults>>

\* A protocol error ends the connection; a list's absurd count does not.
Misread(c) == \E m \in Incoming(c) :
  /\ \/ m.end = "closed" /\ Hangup(c) /\ UNCHANGED deaf
     \/ m.end = "deaf" /\ deaf' = [deaf EXCEPT ![c] = TRUE] /\ UNCHANGED conn
  /\ up' = [up EXCEPT ![c] = << >>]
  /\ UNCHANGED <<server, broken, down, job, client, history, faults>>

\* More bytes for a deaf worker: too few for what it waits for, or enough to
\* see that they make no message.
Swallow(c) ==
  /\ conn[c] = "served" /\ job[c] = NoJob /\ deaf[c] /\ up[c] # << >>
  /\ up' = [up EXCEPT ![c] = << >>]
  /\ Hangup(c) \/ UNCHANGED conn
  /\ UNCHANGED <<server, broken, down, job, deaf, client, history, faults>>

\* The worker meets the end of the stream, between or inside messages.
EndOfInput(c) ==
  /\ conn[c] = "served" /\ job[c] = NoJob /\ (broken[c] \/ pc[c] = "gone")
  /\ up[c] # << >> => ~deaf[c] /\ Incoming(c) = {}
  /\ Hangup(c)
  /\ UNCHANGED <<server, stream, job, deaf, client, history, faults>>

\* How the answer to a run that ended so is written: OZException in the
\* result if the method declares it, other exceptions as a message of their own.
Answer(run, how) ==
  LET p == Processes[run.name]
      content == IF run.name = "next_kv"
                 THEN WriteAll(TravPair, <<run.v, run.v, run.v>>)
                 ELSE run.v
  IN  CASE how = "returned" ->
             <<MessageBegin("reply", run.name, run.n)>> \o
             WriteResult(p.result, IF 0 \in Ids(p.result) THEN [id \in {0} |-> content] ELSE << >>)
        [] how = "ouch" ->
             <<MessageBegin("reply", run.name, run.n)>> \o
             WriteResult(p.result, <<WriteAll(OZException, <<run.v>>)>>)
        [] how = "std" ->
             <<MessageBegin("exception", run.name, run.n)>> \o
             WriteAll(TApplicationException, <<run.v, 0>>)

\* The handler returns or throws, and the answer is written; nobody hears it
\* where the connection is broken, and the write may fail.
Respond(c) ==
  /\ conn[c] = "served" /\ job[c] # NoJob
  /\ \E how \in {"returned"} \cup Processes[job[c].name].throws :
       /\ ran'  = [ran EXCEPT ![c] = [name |-> job[c].name, n |-> job[c].n,
                                        v |-> job[c].v, how |-> how]]
       /\ down' = [down EXCEPT ![c] = IF broken[c] THEN @ ELSE @ \o Answer(job[c], how)]
  /\ job' = [job EXCEPT ![c] = NoJob]
  /\ \/ broken[c] /\ Hangup(c)
     \/ UNCHANGED conn
  /\ UNCHANGED <<server, broken, up, deaf, client, times, faults>>

-----------------------------------------------------------------------------
(* Stop, death, and the network. *)

\* Mutant: the listening socket stays open.
StopMutant ==
  /\ phase = "serving" /\ phase' = "stopping"
  /\ UNCHANGED <<serves, conn, stream, job, deaf, client, history, faults>>

\* SIGTERM or SIGINT: serve() stops accepting and closes the listening
\* socket, with what the kernel had accepted for it.
Stop ==
  /\ phase = "serving" /\ phase' = "stopping"
  /\ conn' = [c \in Client |-> IF conn[c] = "backlog" THEN "closed" ELSE conn[c]]
  /\ UNCHANGED <<serves, stream, job, deaf, client, history, faults>>

\* Mutant: only idle workers are looked at, not the queue.
JoinMutant ==
  /\ phase = "stopping" /\ \A c \in Client : conn[c] # "served"
  /\ phase' = "stopped"
  /\ UNCHANGED <<serves, conn, stream, job, deaf, client, history, faults>>

\* serve() joins the workers, and returns; then the handler is destroyed.
Join ==
  /\ phase = "stopping" /\ \A c \in Client : conn[c] \notin {"queued", "served"}
  /\ phase' = "stopped"
  /\ UNCHANGED <<serves, conn, stream, job, deaf, client, history, faults>>

\* The server process dies; the clients get what it had sent, or a reset.  It
\* may do so of its own where next_kv runs on the junk of a cursor, which is
\* negative: oztrav_next then reads far before its table.
Die ==
  /\ phase \in {"serving", "stopping"} /\ phase' = "dead"
  /\ \/ faults < MaxFaults /\ faults' = faults + 1
     \/ /\ \E c \in Client : job[c].name = "next_kv" /\ job[c].v = Junk
        /\ UNCHANGED faults
  /\ conn' = [c \in Client |-> "closed"]
  /\ job'  = [c \in Client |-> NoJob]
  /\ up'   = [c \in Client |-> << >>]
  /\ \E reset \in SUBSET Client :
       down' = [c \in Client |-> IF c \in reset THEN << >> ELSE down[c]]
  /\ UNCHANGED <<serves, broken, deaf, client, history>>

\* The connection breaks; each side gets a part of what was on its way.
Break(c) ==
  /\ ~broken[c] /\ conn[c] # "closed"
  /\ faults < MaxFaults
  /\ faults' = faults + 1
  /\ broken' = [broken EXCEPT ![c] = TRUE]
  /\ \E i \in 0..Len(up[c]), j \in 0..Len(down[c]) :
       /\ up'   = [up EXCEPT ![c] = SubSeq(@, 1, i)]
       /\ down' = [down EXCEPT ![c] = SubSeq(@, 1, j)]
  /\ UNCHANGED <<server, conn, job, deaf, client, history>>

-----------------------------------------------------------------------------
Init ==
  /\ serves \in {"write", "read", "trav"} /\ phase = "serving"
  /\ conn    = [c \in Client |-> "backlog"]
  /\ broken  = [c \in Client |-> FALSE]
  /\ up      = [c \in Client |-> << >>]
  /\ down    = [c \in Client |-> << >>]
  /\ job     = [c \in Client |-> NoJob]
  /\ deaf    = [c \in Client |-> FALSE]
  /\ pc      = [c \in Client |-> "idle"]
  /\ wbuf    = [c \in Client |-> << >>]
  /\ made    = [c \in Client |-> 0]
  /\ call    = [c \in Client |-> NoCall]
  /\ raised  = [c \in Client |-> {}]
  /\ spoiled = [c \in Client |-> FALSE]
  /\ times   = [c \in Client |-> [n \in 1..MaxCalls[c] |-> 0]]
  /\ ran     = [c \in Client |-> NoRun]
  /\ faults  = 0

Serve(c) == \/ Accept(c) \/ Take(c) \/ Receive(c) \/ Unknown(c) \/ Misread(c)
            \/ Swallow(c) \/ EndOfInput(c) \/ Respond(c)
Hear(c)  == ReceiveReply(c) \/ LoseReply(c)

Next == \/ \E c \in Client : \/ Call(c) \/ CallRaises(c) \/ Hear(c) \/ Leave(c)
                             \/ Serve(c) \/ Break(c)
        \/ Stop \/ Join \/ Die

Spec == Init /\ [][Next]_rpcvars

\* The OS schedules the server's threads, and its handlers return; clients read
\* what is there.  Nothing makes a client call again, or leave.
FairSpec == Spec /\ WF_rpcvars(Join)
  /\ \A c \in Client : WF_rpcvars(Serve(c)) /\ WF_rpcvars(Hear(c))

-----------------------------------------------------------------------------
(* Properties. *)

\* Types; no more connections are served than there are workers, a call runs
\* only on one of them, and a server that stops keeps nobody in its backlog.
TypeOK ==
  /\ phase \in {"serving", "stopping", "stopped", "dead"}
  /\ conn   \in [Client -> {"backlog", "queued", "served", "closed"}]
  /\ pc     \in [Client -> {"idle", "waiting", "gone"}]
  /\ faults \in 0..MaxFaults
  /\ Cardinality({c \in Client : conn[c] = "served"}) <= Workers
  /\ \A c \in Client :
       /\ conn[c] = "backlog" => phase = "serving"
       /\ made[c] \in 0..MaxCalls[c] /\ raised[c] \subseteq 1..made[c]
       /\ job[c].name \in Methods \cup {""} /\ job[c].n \in 0..made[c]
       /\ ran[c].how \in {"none", "returned", "ouch", "std"}
       /\ job[c] # NoJob => conn[c] = "served" /\ times[c][job[c].n] > 0
       /\ call[c].res \in {"", "none", "returned", "ouch", "app", "encode", "transport"}
       /\ pc[c] = "waiting" <=> call[c].res = ""

\* No call makes the handler run twice, whatever breaks, and whatever bytes
\* an earlier failure left in the client's buffer (nobody retries a put).
AtMostOnce == \A c \in Client : \A n \in DOMAIN times[c] : times[c][n] <= 1

\* The last call of c ended as its own run of the handler did, with the value
\* that run gave it.
ToldRight(c) ==
  LET r == call[c]
      ended(how) == ran[c] = [name |-> r.name, n |-> made[c], v |-> r.v, how |-> how]
      none == times[c][made[c]] = 0
  IN  CASE r.res = "returned"  -> ended("returned")
                                  /\ (r.name \notin write_map => r.back = r.v)
        [] r.res = "ouch"      -> ended("ouch") /\ r.back = r.v
        [] r.res = "app"       -> IF r.name \in processMap
                                  THEN ended("std") /\ r.back = r.v ELSE none
        [] OTHER               -> TRUE

\* What a call tells its caller is true: a normal return means that the
\* handler ran on this call's argument and returned, an exception that it
\* threw it or that it did not run, now or later.  After a broken connection
\* nothing is known.  Excepted are the calls of a client that spoiled its stream.
ResultsTrue == \A c \in Client : spoiled[c] \/
  /\ pc[c] = "idle" => ToldRight(c)
  /\ \A n \in raised[c] : times[c][n] = 0

\* The server stops only when every run has ended, so that the destructor of
\* the handler (Close in OZWrite) meets no worker.
StopWaits == phase = "stopped" => \A c \in Client :
  conn[c] = "closed" /\ job[c] = NoJob

\* A worker waits for what does not come: bytes of c's next message, or the rest
\* of one.
Reads(c) ==
  /\ conn[c] = "served" /\ job[c] = NoJob /\ ~broken[c] /\ pc[c] # "gone"
  /\ IF deaf[c] THEN up[c] = << >> ELSE Incoming(c) = {}

\* And it is c's doing, who makes no call, or spoiled its stream.
Holds(c) == Reads(c) /\ (pc[c] = "idle" \/ spoiled[c])

\* The one client that waits for ever is the one whose own half written argument
\* has the worker wait for more, or who is in the queue while other such clients,
\* or idle ones, hold all the workers for ever; whatever breaks, every other call
\* comes back.
Answered == \A c \in Client : <>[](pc[c] = "waiting") =>
  <>[](Holds(c) \/ (conn[c] = "queued" /\ Cardinality({d \in Client : Holds(d)}) = Workers))

\* A stop hangs in the join of the workers if, and only if, some client holds a
\* worker for ever: one that keeps its connection and makes no call is enough.
Stops == <>(phase = "stopping") =>
  /\ <>[](phase = "stopping") => \E c \in Client : <>[]Holds(c)
  /\ (\E c \in Client : <>[]Holds(c)) => <>[](phase = "stopping")

-----------------------------------------------------------------------------
(* Why a stop waits and no call runs twice: the inductive invariant. *)

Token == [t : {"begin"}, mtype : {"call"}, name : Methods, n : Nat \ {0}]
         \cup [t : {"field"}, id : {1}, type : {"string", "list", "i32"}]
         \cup [t : {"value"}, v : Int] \cup {Length, Elements, FieldStop}

\* A stream of calls numbered in order, above low and up to high: it begins with
\* one, and behind the end of one there is another.
CallStream(s, low, high) ==
  /\ s \in Seq(Token)
  /\ s # << >> => s[1].t = "begin"
  /\ \A i \in DOMAIN s : s[i].t = "stop" /\ i < Len(s) => s[i + 1].t = "begin"
  /\ \A i \in DOMAIN s : s[i].t = "begin" => low < s[i].n /\ s[i].n <= high
  /\ \A i, j \in DOMAIN s :
       i < j /\ s[i].t = "begin" /\ s[j].t = "begin" => s[i].n < s[j].n

\* Of the calls that c made, those up to l may have run, those on their way to
\* the server come after them, and those in the buffer come last.
RunsInv(c) == \E l, k \in 0..made[c] :
  /\ l <= k
  /\ CallStream(up[c], l, k) /\ CallStream(wbuf[c], k, made[c])
  /\ \A n \in DOMAIN times[c] : times[c][n] <= 1 /\ (n > l => times[c][n] = 0)

\* A run is one of a call of the client, on a connection that is served.
JobInv(c) ==
  /\ job[c] = [name |-> job[c].name, n |-> job[c].n, v |-> job[c].v]
  /\ job[c] # NoJob => job[c].name \in Methods /\ job[c].n \in 1..made[c]

RpcInv ==
  /\ TypeOK /\ StopWaits
  /\ serves \in {"write", "read", "trav"}
  /\ job = [c \in Client |-> job[c]] /\ up = [c \in Client |-> up[c]]
  /\ wbuf = [c \in Client |-> wbuf[c]] /\ made \in [Client -> Nat]
  /\ call = [c \in Client |-> [name |-> call[c].name, v |-> call[c].v,
                                res |-> call[c].res, back |-> call[c].back]]
  /\ ran = [c \in Client |-> ran[c]]
  /\ raised = [c \in Client |-> raised[c]] /\ times = [c \in Client |-> times[c]]
  /\ \A c \in Client : times[c] \in [1..MaxCalls[c] -> Nat]
  /\ IsFiniteSet({c \in Client : conn[c] = "served"})
  /\ \A c \in Client : JobInv(c) /\ RunsInv(c)

-----------------------------------------------------------------------------
(* Why results are true: the invariant of a client that spoiled nothing.   *)

\* No struct can be read behind the header of s: it does not come to an end.
Unreadable(s) == s # << >> => Turns(Tail(s)) = {}

\* Behind the header of a field, this ends the connection: a message begins where
\* a string, or a list's next one, should.
EndsIn(field, x) == (field.type = "string" /\ x.t = "begin") \/ x = Elements

\* Nor here, unless it is so that it ends the connection: no call comes of s.
Fruitless(s) == s # << >> => \A e \in Turns(Tail(s)) : e = 2 /\ EndsIn(s[2], s[3])

\* What failures leave in the buffer: halves of calls, cut before a string or
\* before one of the strings of a list.
Halves(s) == s = << >> \/
  /\ Len(s) > 1 /\ s[1].t = "begin" /\ s[2].t = "field"
  /\ IF Len(s) > 2 THEN EndsIn(s[2], s[3]) ELSE s[2].type = "string"

\* The server did not answer c: what c may still read is no message.
Unheard(c) == Unreadable(down[c]) /\ (Reachable(c) => down[c] = << >>)

\* No call of c runs or will, before it makes the next.
Fallow(c) ==
  /\ job[c] = NoJob /\ Unheard(c) /\ Fruitless(up[c])
  /\ Reachable(c) => up[c] = << >> \/ pc[c] = "waiting"

\* The caller was told nothing of a call that may still run.
Unaware(c) == pc[c] = "idle" => call[c].res \in {"transport", "encode"}

\* A whole request is on its way; c waits for it, unless the connection broke.
Asked(c) ==
  /\ job[c] = NoJob /\ Unheard(c) /\ Unaware(c)
  /\ \E name \in Methods, n \in 1..made[c], kind \in {"good", "none", "foreign"} :
       /\ up[c] = Request(c, name, n, kind)
       /\ n \notin raised[c] /\ times[c][n] = 0
       /\ Reachable(c) => /\ pc[c] = "waiting" /\ n = made[c] /\ call[c].name = name
                          /\ call[c].v = IF kind = "none" THEN Default ELSE n

\* The call that c waits for, as the handler has it.
Awaited(c) == [name |-> call[c].name, n |-> made[c], v |-> call[c].v]

\* A call runs.
Busy(c) ==
  /\ job[c] # NoJob /\ up[c] = << >> /\ Unheard(c) /\ Unaware(c)
  /\ Reachable(c) => pc[c] = "waiting" /\ job[c] = Awaited(c) /\ call[c].name \in processMap

\* It has run, and the whole answer is there for c.
Replied(c) ==
  /\ pc[c] = "waiting" /\ job[c] = NoJob /\ up[c] = << >> /\ call[c].name \in processMap
  /\ \E how \in {"returned"} \cup Processes[call[c].name].throws :
       /\ ran[c] = [name |-> call[c].name, n |-> made[c], v |-> call[c].v, how |-> how]
       /\ down[c] = Answer(Awaited(c), how)

\* Or it has not, as the server does not know it, and c can read that.
Refused(c) ==
  /\ pc[c] = "waiting" /\ job[c] = NoJob /\ up[c] = << >> /\ conn[c] = "closed"
  /\ call[c].name \in Methods \ processMap /\ times[c][made[c]] = 0
  /\ down[c] = <<MessageBegin("exception", call[c].name, made[c])>>
               \o WriteAll(TApplicationException, <<Default, 1>>)

ResultsOf(c) ==
  /\ pc[c] = "idle" => ToldRight(c)
  /\ \A n \in raised[c] : times[c][n] = 0
  /\ Halves(wbuf[c])
  /\ Fallow(c) \/ Asked(c) \/ Busy(c) \/ Replied(c) \/ Refused(c)

\* A client that spoiled nothing has at most one call under way, and it is
\* asked for, runs, or has been answered: the answer it will read is that call's.
ResultsInv == \A c \in Client : spoiled[c] \/ ResultsOf(c)
=============================================================================
