----------------------------- MODULE McpBridge ------------------------------
(***************************************************************************)
(* neowon-mcp: the ScopeClient, which keeps one connection to the app's    *)
(* control socket for a server that lives for long, the app processes it   *)
(* finds or spawns, and what becomes of a request when the app dies, is    *)
(* replaced, or stands still.                                              *)
(*                                                                         *)
(* A call is one line: "query" needs no token, "shot" needs it and leaves  *)
(* a picture behind.  The token is read from its file: an operator's       *)
(* NEOWON_CONTROL_TOKEN only skips the question.  That the app answers a   *)
(* line within five seconds, if with "timeout", is conn::serve's promise:  *)
(* a wait of ten seconds ends only when the process stands still.          *)
(***************************************************************************)
EXTENDS Naturals, Sequences, FiniteSets, SequencesExt

CONSTANTS
    Targets,    \* "addr": attach to an app; "spawn": own one
    Lines,      \* what is called: "query", "shot"
    Kills,      \* bound: whether the server may be killed
    MaxCalls,   \* bound: requests of the MCP client
    MaxProcs,   \* bound: app processes launched
    MaxFaults,  \* bound: processes that die or stand still
    None

BridgeAssumption == /\ Targets \subseteq {"addr", "spawn"} /\ Lines \subseteq {"query", "shot"}
                    /\ Kills \in BOOLEAN /\ None \notin Nat

VARIABLES
    procs,   \* the app processes launched: whose, how far, standing still
    token,   \* the token file: the process that wrote it
    socks,   \* the connections made: both directions, and the serving side's trust
    client,  \* ScopeClient, and the request it is in
    ran,     \* the lines the apps ran
    shots,   \* captures under way in the apps
    file,    \* the picture at the server's path
    answer,  \* the last call's result
    faults

vars == <<procs, token, socks, client, ran, shots, file, answer, faults>>

-----------------------------------------------------------------------------
Alive(p)   == procs[p].state # "dead"
Runs(p)    == Alive(p) /\ ~procs[p].still
Serving    == {p \in DOMAIN procs : procs[p].state = "serves"}
Ours       == {p \in DOMAIN procs : procs[p].ours /\ Alive(p)}
Process(ours) == [ours |-> ours, state |-> "starts", still |-> FALSE]

Gone == [app |-> 0, open |-> FALSE, trusted |-> FALSE, cut |-> FALSE, up |-> <<>>, down |-> <<>>]
\* What nobody holds and nothing is left in is forgotten.
Swept(s) == [i \in DOMAIN s |-> IF ~s[i].open /\ s[i].up = <<>> THEN Gone ELSE s[i]]
Closed(s, i) == IF i = None THEN s ELSE Swept([s EXCEPT ![i].open = FALSE])

Ended(i)  == ~Alive(socks[i].app) /\ socks[i].down = <<>>
Silent(i) == Alive(socks[i].app) /\ ~Runs(socks[i].app) /\ socks[i].down = <<>>

\* A line as it goes out: which attempt of which call it is.
Ask == [k |-> "ask", of |-> <<0, 0>>, t |-> 0]
Token(t) == [Ask EXCEPT !.k = "token", !.t = t]
LineOf(c) == [k |-> c.line, of |-> <<c.call, c.try>>, t |-> 0]

Fresh(target) == [pc |-> "ensure", target |-> target, call |-> 0, try |-> 1, line |-> "query",
                  conn |-> None, child |-> None, hurt |-> FALSE, cut |-> FALSE, late |-> FALSE]

Left(pc) == [Fresh(client.target) EXCEPT !.pc = pc, !.cut = client.cut]

NoAnswer == [kind |-> "none", own |-> TRUE, cut |-> FALSE, hurt |-> FALSE]
Answer(kind) == [NoAnswer EXCEPT !.kind = kind, !.hurt = client.hurt]

-----------------------------------------------------------------------------
(* The request: Scope::req, request, try_request, ensure.                  *)

At(pc) == client.pc = pc
Goes(pc) == client' = [client EXCEPT !.pc = pc]

\* What makes a call's failure the app's: none to attach to, or one that
\* stands still.  An app that dies during the call is counted when it does.
Hurting == \/ client.target = "addr" /\ Serving = {}
           \/ \E p \in DOMAIN procs : Alive(p) /\ ~Runs(p)

\* screenshot takes its old file away first.
Call(line) ==
    /\ At("idle") /\ client.call < MaxCalls
    /\ client' = [client EXCEPT !.pc = "ensure", !.call = @ + 1, !.try = 1, !.line = line,
                                !.hurt = Hurting]
    /\ file' = IF line = "shot" THEN None ELSE file
    /\ UNCHANGED <<procs, token, socks, ran, shots, answer, faults>>

\* Changed form: the connection that failed is kept for the second attempt.
RetriedOnTheSame(c) == [c EXCEPT !.pc = "ensure", !.try = 2]
\* One more attempt, on a new connection.
Retried(c) == [c EXCEPT !.pc = "ensure", !.try = 2, !.conn = None]

\* Whatever spawns the app ends it: ScopeClient's drop.
Killed(child) == [p \in DOMAIN procs |->
                    IF p = child THEN [procs[p] EXCEPT !.state = "dead", !.still = FALSE]
                                 ELSE procs[p]]
Dropped ==
    /\ procs' = Killed(client.child)
    /\ socks' = Swept([i \in DOMAIN socks |-> [socks[i] EXCEPT !.open = FALSE]])
    /\ client' = Left("done")
    /\ shots' = {s \in shots : s[1] # client.child}
    /\ answer' = NoAnswer

\* An attempt fails.  Without a first connection the server does not start;
\* the second attempt's error is the call's, and its connection stays.
Fails(cut) ==
    /\ IF client.call = 0 THEN Dropped
       ELSE /\ UNCHANGED <<procs, shots>>
            /\ IF client.try = 1
               THEN /\ client' = [Retried(client) EXCEPT !.cut = @ \/ cut]
                    /\ socks' = IF client'.conn = None THEN Closed(socks, client.conn) ELSE socks
                    /\ UNCHANGED answer
               ELSE /\ client' = [client EXCEPT !.pc = "idle", !.cut = @ \/ cut]
                    /\ socks' = IF cut THEN [socks EXCEPT ![client.conn].cut = TRUE] ELSE socks
                    /\ answer' = Answer("error")
    /\ UNCHANGED <<token, ran, file, faults>>

Ready == IF client.call = 0 THEN "idle" ELSE "request"

Kept ==
    /\ At("ensure") /\ client.conn # None /\ Goes(Ready)
    /\ UNCHANGED <<procs, token, socks, ran, shots, file, answer, faults>>

\* Whoever serves the port is attached to, and asked for its token: one that
\* stands still is connected to as well.
Connect ==
    /\ client.pc \in {"ensure", "spawned"} /\ client.conn = None
    /\ \E p \in Serving :
          socks' = Append(socks, [Gone EXCEPT !.app = p, !.open = TRUE, !.up = <<Ask>>])
    /\ client' = [client EXCEPT !.pc = "auth", !.conn = Len(socks')]
    /\ UNCHANGED <<procs, token, ran, shots, file, answer, faults>>

\* Nobody came to serve in time.
Unreachable ==
    /\ Serving = {} /\ client.conn = None
    /\ \/ At("spawned") /\ client.hurt
       \/ At("ensure") /\ client.target = "addr"
    /\ Fails(FALSE)

\* The app spawned is not serving after twenty seconds.
TakesTooLong ==
    /\ Serving = {} /\ At("spawned") /\ ~client.hurt
    /\ client' = [client EXCEPT !.hurt = TRUE]
    /\ UNCHANGED <<procs, token, socks, ran, shots, file, answer, faults>>

\* The child before is reaped, or killed, and another spawned.
Respawn ==
    /\ At("ensure") /\ client.conn = None /\ client.target = "spawn" /\ Serving = {}
    /\ Len(procs) < MaxProcs
    /\ procs' = Append(Killed(client.child), Process(TRUE))
    /\ client' = [client EXCEPT !.pc = "spawned", !.child = Len(procs')]
    /\ shots' = {s \in shots : s[1] # client.child}
    /\ UNCHANGED <<token, socks, ran, file, answer, faults>>

\* authenticate: the challenge, the file it names, the token.  A wait that
\* ends without a reply ends the handshake, not the connection.
Challenged ==
    /\ At("auth") /\ socks[client.conn].down # <<>>
    /\ socks' = [socks EXCEPT ![client.conn].down = Tail(@), ![client.conn].up = @ \o <<Token(token)>>]
    /\ Goes("token")
    /\ UNCHANGED <<procs, token, ran, shots, file, answer, faults>>

Trusted ==
    /\ At("token") /\ socks[client.conn].down # <<>>
    /\ socks' = [socks EXCEPT ![client.conn].down = Tail(@)]
    /\ Goes(Ready)
    /\ UNCHANGED <<procs, token, ran, shots, file, answer, faults>>

NotAnswered ==
    /\ client.pc \in {"auth", "token"}
    /\ \/ Ended(client.conn) /\ Goes(Ready) /\ UNCHANGED socks
       \/ /\ Silent(client.conn)
          /\ client' = [client EXCEPT !.pc = Ready, !.cut = TRUE]
          /\ socks' = [socks EXCEPT ![client.conn].cut = TRUE]
    /\ UNCHANGED <<procs, token, ran, shots, file, answer, faults>>

\* The line; to a process that is gone the write may fail or seem to succeed.
Write ==
    /\ At("request") /\ Goes("reply")
    /\ socks' = IF Alive(socks[client.conn].app)
                THEN [socks EXCEPT ![client.conn].up = Append(@, LineOf(client))] ELSE socks
    /\ UNCHANGED <<procs, token, ran, shots, file, answer, faults>>

WriteFails == At("request") /\ ~Alive(socks[client.conn].app) /\ Fails(FALSE)

\* The next line read is the reply.
Reply ==
    /\ At("reply") /\ socks[client.conn].down # <<>>
    /\ LET r == Head(socks[client.conn].down)
       IN /\ answer' = [Answer(r.k) EXCEPT !.own = r.of = <<client.call, client.try>>,
                                           !.cut = socks[client.conn].cut]
          /\ Goes(IF r.k = "ok" /\ client.line = "shot" THEN "picture" ELSE "idle")
    /\ socks' = [socks EXCEPT ![client.conn].down = Tail(@)]
    /\ UNCHANGED <<procs, token, ran, shots, file, faults>>

NoReply ==
    /\ At("reply")
    /\ \/ Ended(client.conn) /\ Fails(FALSE)
       \/ Silent(client.conn) /\ Fails(TRUE)

\* screenshot waits for the file, five seconds long.
Picture ==
    /\ At("picture") /\ file # None
    /\ answer' = [Answer("picture") EXCEPT !.own = file = client.call]
    /\ file' = None
    /\ client' = [client EXCEPT !.pc = "idle", !.late = @ \/ client.try = 2]
    /\ UNCHANGED <<procs, token, socks, ran, shots, faults>>

PictureLate ==
    /\ At("picture") /\ file = None
    /\ answer' = Answer("late")
    /\ client' = [client EXCEPT !.pc = "idle", !.late = TRUE]
    /\ UNCHANGED <<procs, token, socks, ran, shots, file, faults>>

\* stdin closes: main returns.
Exit == At("idle") /\ Dropped /\ UNCHANGED <<token, ran, file, faults>>

\* SIGKILL: nothing is run, and the kernel closes the connections.
ServerKilled ==
    /\ Kills /\ client.pc \notin {"done", "killed"}
    /\ client' = Left("killed")
    /\ socks' = Swept([i \in DOMAIN socks |-> [socks[i] EXCEPT !.open = FALSE]])
    /\ answer' = NoAnswer
    /\ UNCHANGED <<procs, token, ran, shots, file, faults>>

-----------------------------------------------------------------------------
(* The app processes.                                                      *)

\* An app of the operator, or of another server.
Launch ==
    /\ Len(procs) < MaxProcs /\ Serving = {}
    /\ procs' = Append(procs, Process(FALSE))
    /\ UNCHANGED <<token, socks, client, ran, shots, file, answer, faults>>

\* start_from_env: the first to bind serves and writes the token's file.
Listen(p) ==
    /\ Runs(p) /\ procs[p].state = "starts"
    /\ IF Serving = {} THEN procs' = [procs EXCEPT ![p].state = "serves"] /\ token' = p
       ELSE procs' = [procs EXCEPT ![p].state = "deaf"] /\ UNCHANGED token
    /\ UNCHANGED <<socks, client, ran, shots, file, answer, faults>>

\* conn::serve and, behind it, the app: one reply to a line, in their order;
\* of a connection that was closed, a line not yet read may be run or not.
Serve(i) ==
    /\ socks[i].app # 0 /\ Runs(socks[i].app) /\ socks[i].up # <<>>
    /\ LET s == socks[i]
           m == Head(s.up)
           runs == m.k = "query" \/ (m.k = "shot" /\ s.trusted)
           reply == [k |-> IF runs \/ m.k \in {"ask", "token"} THEN "ok" ELSE "refused", of |-> m.of]
           served == [s EXCEPT !.up = Tail(@), !.down = IF s.open THEN Append(@, reply) ELSE @,
                               !.trusted = @ \/ (m.k = "token" /\ m.t = s.app)]
       IN \/ /\ socks' = Swept([socks EXCEPT ![i] = served])
             /\ ran' = IF runs THEN Append(ran, [of |-> m.of, app |-> s.app]) ELSE ran
             /\ shots' = IF runs /\ m.k = "shot" THEN shots \cup {<<s.app, m.of[1], m.of[2]>>} ELSE shots
          \/ ~s.open /\ socks' = Swept([socks EXCEPT ![i].up = <<>>]) /\ UNCHANGED <<ran, shots>>
    /\ UNCHANGED <<procs, token, client, file, answer, faults>>

\* A capture comes back and its picture is put in place whole, or is given up.
Shoot(s) ==
    /\ s \in shots /\ Runs(s[1]) /\ shots' = shots \ {s}
    /\ file' = s[2] \/ file' = file
    /\ UNCHANGED <<procs, token, socks, client, ran, answer, faults>>

Hurt == client' = [client EXCEPT !.hurt = @ \/ ~At("idle")]

\* With the process go the lines it had not read; what it answered may
\* still arrive.
Dies(p, kept) ==
    /\ procs' = [procs EXCEPT ![p].state = "dead", ![p].still = FALSE]
    /\ socks' = Swept([i \in DOMAIN socks |->
                    IF socks[i].app = p
                    THEN [socks[i] EXCEPT !.up = <<>>, !.down = IF kept THEN @ ELSE <<>>]
                    ELSE socks[i]])
    /\ shots' = {s \in shots : s[1] # p}
    /\ Hurt
    /\ UNCHANGED <<token, ran, file, answer>>

Crash(p, kept) == Alive(p) /\ faults < MaxFaults /\ faults' = faults + 1 /\ Dies(p, kept)

StandStill(p) ==
    /\ Runs(p) /\ procs[p].state = "serves" /\ faults < MaxFaults /\ faults' = faults + 1
    /\ procs' = [procs EXCEPT ![p].still = TRUE] /\ Hurt
    /\ UNCHANGED <<token, socks, ran, shots, file, answer>>

Resume(p) ==
    /\ Alive(p) /\ ~Runs(p)
    /\ procs' = [procs EXCEPT ![p].still = FALSE]
    /\ UNCHANGED <<token, socks, client, ran, shots, file, answer, faults>>

\* Changed form: the guard looks at the start only.
UnclaimedAtStart(p) == procs[p].state = "starts"
\* NEOWON_ORPHAN_EXIT=30: no live client; a client that waits for its app to
\* start waits for less.
Unclaimed(p) ==
    /\ \A i \in DOMAIN socks : ~(socks[i].open /\ socks[i].app = p)
    /\ ~(At("spawned") /\ client.child = p)

Orphaned(p) ==
    /\ procs[p].ours /\ Runs(p) /\ Unclaimed(p) /\ Dies(p, TRUE)
    /\ UNCHANGED faults

-----------------------------------------------------------------------------
Init ==
    /\ procs = <<>> /\ token = 0 /\ socks = <<>>
    /\ client \in {Fresh(target) : target \in Targets}
    /\ ran = <<>> /\ shots = {} /\ file = None /\ answer = NoAnswer /\ faults = 0

Watchdog == \E p \in DOMAIN procs : Orphaned(p)

Next ==
    \/ \E line \in Lines : Call(line)
    \/ Kept \/ Connect \/ Unreachable \/ TakesTooLong \/ Respawn
    \/ Challenged \/ Trusted \/ NotAnswered \/ Write \/ WriteFails \/ Reply \/ NoReply
    \/ Picture \/ PictureLate \/ Exit \/ ServerKilled \/ Launch \/ Watchdog
    \/ \E i \in DOMAIN socks : Serve(i)
    \/ \E s \in shots : Shoot(s)
    \/ \E p \in DOMAIN procs :
          Listen(p) \/ StandStill(p) \/ Resume(p) \/ \E kept \in BOOLEAN : Crash(p, kept)

Spec == Init /\ [][Next]_vars

\* The watchdog's thread runs in every process that runs.
FairSpec == Spec /\ WF_vars(Watchdog)

-----------------------------------------------------------------------------
(* Correctness properties.                                                 *)

\* A call is answered by the reply to its own line, and the picture shown is
\* its own, unless an earlier wait was given up on the connection that is
\* still used, or an earlier picture.
AnswersTheCall ==
    /\ answer.kind \in {"ok", "refused"} => answer.own \/ answer.cut
    /\ answer.kind = "picture" => answer.own \/ client.late \/ client.cut

\* main.rs on Target: "the app restarting, or a spawned sim dying, must not
\* strand the long-lived MCP server": a call fails only if its own time saw an
\* app die, stand still or not be there.
NotStranded == answer.kind = "error" => answer.hurt

\* connect: "Every connection starts untrusted, so this runs on a reconnect
\* too": a line is refused for want of the token only after a wait that was
\* given up.
TrustFollows == answer.kind = "refused" => answer.cut

\* A line runs twice only in two processes, and never after a later one's,
\* unless a wait was given up.
LinesInOrder ==
    client.cut \/ \A i, j \in 1..Len(ran) : i < j =>
        /\ ran[i].of[1] <= ran[j].of[1]
        /\ ran[i].of[1] = ran[j].of[1] => ran[i].app # ran[j].app

\* "Whatever spawns the app ends it": one child at most, and none after the
\* exit.
OneChild == Cardinality(Ours) <= 1 /\ (At("done") => Ours = {})

\* orphan.rs: "when the harness itself is killed" the watchdog ends what runs
\* on without a client.
OrphansEnd == At("killed") ~> \A p \in Ours : ~Runs(p)

\* ask: "One request/reply on a connection, or `None` if it broke."
OneRequestOneReply == answer.own

\* ensure: "Reap a dead child (or kill a wedged one) before respawn": a call
\* does not fail and leave a child of its own standing still.
WedgedIsKilled ==
    answer.kind = "error" /\ At("idle") /\ client.target = "spawn" =>
        client.conn = None \/ Runs(socks[client.conn].app) \/ socks[client.conn].app # client.child
=============================================================================
