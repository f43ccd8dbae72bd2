---------------------------- MODULE WebOsSession ----------------------------
(***************************************************************************)
(* The native TV client: an adapter that keeps one authenticated webOS     *)
(* connection between operations (web_os/adapter.rs) over a client that    *)
(* numbers its requests and waits for the frame that carries the same      *)
(* number (web_os/client.rs).                                              *)
(*                                                                         *)
(* The TV is external.  It may close the socket at any time, also between  *)
(* operations, answer late or not at all, repeat an old answer, send a     *)
(* frame that cannot be read, acknowledge what it does not do and do what  *)
(* it does not acknowledge; it changes meanwhile, when somebody uses the   *)
(* remote or it carries out a command of a connection that was dropped.    *)
(***************************************************************************)
EXTENDS Integers, Sequences, FiniteSets

CONSTANTS
    MaxId,       \* requests of one connection; the next one finds its ids exhausted
    MaxFaults,   \* closed sockets, repeated and unreadable frames in a behaviour
    MaxRemote    \* changes of the TV from elsewhere

VARIABLES
    tv,          \* the TV: power, input, level
    policy,      \* WebOsPairingPolicy
    token,       \* the stored access token: none, good, or one the TV asks to pair again
    conn,        \* the socket: open, next, asked (requests on their way), wire (frames back)
    session,     \* the socket is registered and is the adapter's session
    op,          \* the TvClient method that runs, or "none"
    step,        \* its request
    cmd,         \* the result of its command, while the command is verified
    reused,      \* current_input found a session
    pc,          \* idle, ensure, register, pair, await, done
    result,      \* Ok or the TvErrorKind of the method
    faults, remote,
    witnessed,   \* history: the TV was in the state op is about since op began
    made         \* history: a connection was made since op began, or has failed to be

client == <<policy, token, conn, session, op, step, cmd, reused, pc, result>>
vars == <<tv, client, faults, remote, witnessed, made>>

NoConn == [open |-> FALSE, next |-> 0, asked |-> <<>>, wire |-> <<>>]

Powers == {"Active", "ScreenOff", "Standby"}

\* The requests of each method, in order.  read stands for every method that is one
\* request within with_session: model name, audio status, brightness, volume and mute.
Script ==
    [read            |-> <<"read">>,
     current_input   |-> <<"foreground_app">>,
     blank_screen    |-> <<"turn_screen_off", "power_state">>,
     unblank_screen  |-> <<"turn_screen_on", "power_state">>,
     set_input       |-> <<"switch_input", "power_state", "foreground_app">>,
     power_off       |-> <<"power_state", "power_off">>,
     set_oled_brightness |-> <<"create_alert", "close_alert", "backlight">>]

\* What set_input and set_oled_brightness ask for, of the two values there are.
Wanted == "wanted"
Readings == {Wanted, "other"}

Effect(request, t) ==
    CASE request = "turn_screen_off" -> [t EXCEPT !.power = "ScreenOff"]
      [] request = "turn_screen_on"  -> [t EXCEPT !.power = "Active"]
      [] request = "switch_input"    -> [t EXCEPT !.input = Wanted]
      [] request = "power_off"       -> [t EXCEPT !.power = "Standby"]
      [] request = "close_alert"     -> [t EXCEPT !.level = Wanted]
      [] OTHER                       -> t

Value(request, t) ==
    CASE request = "power_state"    -> t.power
      [] request = "foreground_app" -> t.input
      [] request = "backlight"      -> t.level
      [] OTHER                      -> "done"

\* The postcondition a method promises, or the state power_off insists on.
About(o, t) ==
    CASE o = "blank_screen"   -> t.power = "ScreenOff"
      [] o = "unblank_screen" -> t.power = "Active"
      [] o = "set_input"      -> t.input = Wanted
      [] o = "set_oled_brightness" -> t.level = Wanted
      [] o = "power_off"      -> t.power \in {"Active", "ScreenOff"}
      [] OTHER                -> TRUE

\* How a WebOsClientError becomes a TvErrorKind, and whether the session survives it.
\* WebOs is an error the TV reports in a readable answer.
Kind(error) ==
    CASE error = "WebOs"   -> "Rejected"
      [] error = "Garbled" -> "InvalidResponse"
      [] OTHER             -> "Transport"

Invalidates(error) == error \notin {"WebOs"}

-----------------------------------------------------------------------------
(* The client's socket.                                                    *)

\* The connection and its session are dropped.
Drop == conn' = NoConn /\ session' = FALSE

Keep == UNCHANGED <<conn, session>>

\* connect: a new socket starts to count its requests at zero.
Connect ==
    /\ conn' = [NoConn EXCEPT !.open = TRUE]
    /\ session' = FALSE
    /\ made' = IF made = "failed" THEN "failed" ELSE "yes"

\* send_request: take the next id and write the request.  A socket that is closed takes
\* the bytes; the read that follows finds it closed.
Send(request) ==
    /\ conn.next < MaxId
    /\ conn' = [conn EXCEPT !.next = @ + 1,
                            !.asked = IF conn.open THEN Append(@, request) ELSE @]

parse_correlated_frameMutant(id, frame) == TRUE
\* Only a frame with the id of the request ends the wait; one that cannot be read does too.
parse_correlated_frame(id, frame) == frame.body = "unreadable" \/ frame.id = id

\* receive_correlated reads up to the first frame that ends the wait.
Ends(i) ==
    /\ parse_correlated_frame(conn.next - 1, conn.wire[i])
    /\ \A j \in 1..(i - 1) : ~parse_correlated_frame(conn.next - 1, conn.wire[j])

ReadUpTo(i) == [conn EXCEPT !.wire = SubSeq(@, i + 1, Len(@))]

\* The client gives up on its request: the deadline passes with no answer there, the
\* socket is closed, or there was no id left to send it with.
GivesUp(error) ==
    \/ /\ error = "Timeout" /\ pc = "await" /\ conn.open
       /\ \A i \in DOMAIN conn.wire : ~parse_correlated_frame(conn.next - 1, conn.wire[i])
    \/ /\ error = "Closed" /\ pc = "await" /\ ~conn.open
       /\ \A i \in DOMAIN conn.wire : ~parse_correlated_frame(conn.next - 1, conn.wire[i])
    \/ error = "Exhausted" /\ pc = "ensure" /\ session /\ conn.next >= MaxId

-----------------------------------------------------------------------------
(* The methods of the adapter.                                             *)

Return(kind) ==
    /\ pc' = "done" /\ result' = kind
    /\ UNCHANGED <<step, cmd, reused>>
Proceed ==
    /\ pc' = "ensure" /\ step' = step + 1
    /\ UNCHANGED <<cmd, reused, result>>

\* A method is called; its request needs a session first.
Call(o) ==
    /\ pc = "idle"
    /\ op' = o /\ step' = 1 /\ cmd' = "Ok" /\ pc' = "ensure"
    /\ reused' = (session /\ o = "current_input")
    /\ witnessed' = About(o, tv) /\ made' = "no"
    /\ UNCHANGED <<tv, policy, token, conn, session, result, faults, remote>>

RetryReadMutant(live) == FALSE
\* current_input reads once more when a session it found proved dead.
RetryRead(live) == reused /\ ~live

\* A request of the method fails; live: the session survives.  The error of a command is
\* kept while its outcome is verified, but for an authentication that has failed.
Failed(kind, live) ==
    LET command == op \in {"blank_screen", "unblank_screen", "set_input"} /\ step = 1 IN
    IF command /\ kind # "Authentication"
    THEN /\ cmd' = kind /\ step' = 2 /\ pc' = "ensure"
         /\ UNCHANGED <<reused, result>>
    ELSE IF op = "current_input" /\ RetryRead(live)
    THEN /\ reused' = FALSE /\ pc' = "ensure"
         /\ UNCHANGED <<step, cmd, result>>
    ELSE Return(IF cmd = "Ok" THEN kind ELSE cmd)

Controllable(power) == power \in {"Active", "ScreenOff"}

\* The answer to a request of the method: the next request, or the method's result.
Answered(request, value) ==
    CASE op = "power_off" /\ request = "power_state" ->
           IF Controllable(value) THEN Proceed ELSE Return("Rejected")
      [] op \in {"blank_screen", "unblank_screen"} /\ request = "power_state" ->
           Return(CASE op = "blank_screen" /\ value = "ScreenOff" -> "Ok"
                    [] op = "unblank_screen" /\ value = "Active"  -> "Ok"
                    [] op = "unblank_screen"                      -> "ScreenNotVisible"
                    [] OTHER                                      -> "Rejected")
      [] op = "set_input" /\ request = "power_state" ->
           IF value = "Active" THEN Proceed ELSE Return("ScreenNotVisible")
      [] op \in {"set_input", "set_oled_brightness"} /\ step = 3 ->
           Return(IF value = Wanted THEN "Ok" ELSE "Rejected")
      [] OTHER -> IF step < Len(Script[op]) THEN Proceed ELSE Return("Ok")

\* A connection that ensure_session needs cannot be made, or fails before it is registered.
NotConnected == Drop /\ Failed("Transport", FALSE) /\ made' = "failed"

\* ensure_session connects.  With the stored token only, a missing token ends it before
\* that.
MissingToken ==
    /\ pc = "ensure" /\ ~session /\ policy = "StoredTokenOnly" /\ token = "none"
    /\ Failed("Authentication", FALSE)
    /\ UNCHANGED <<tv, policy, token, conn, session, op, faults, remote, witnessed,
                   made>>

OpenConnection ==
    /\ pc = "ensure" /\ ~session /\ ~(policy = "StoredTokenOnly" /\ token = "none")
    /\ \/ /\ Connect /\ pc' = IF token = "none" THEN "pair" ELSE "register"
          /\ UNCHANGED <<step, cmd, reused, result>>
       \/ NotConnected
    /\ UNCHANGED <<tv, policy, token, op, faults, remote, witnessed>>

\* register with the stored token: the TV may lose the socket or let the time pass, refuse
\* with an error, or register the client.  A token it does not know it answers with the
\* prompt; the policy takes that as a failure or pairs, on a new connection.
Registered ==
    /\ conn' = [conn EXCEPT !.next = 1] /\ session' = TRUE /\ pc' = "ensure"
    /\ UNCHANGED <<step, cmd, reused, result, made>>

Register ==
    /\ pc = "register"
    /\ \/ NotConnected
       \/ Drop /\ Failed("Authentication", FALSE) /\ UNCHANGED made
       \/ token = "good" /\ Registered
       \/ /\ token = "stale" /\ policy = "PairIfNeeded"
          /\ Connect /\ pc' = "pair" /\ UNCHANGED <<step, cmd, reused, result>>
    /\ UNCHANGED <<tv, policy, token, op, faults, remote, witnessed>>

\* register without a token, and store the one the TV issues once somebody accepts.
Pair ==
    /\ pc = "pair"
    /\ \/ NotConnected /\ UNCHANGED token
       \/ Drop /\ Failed("Authentication", FALSE) /\ UNCHANGED <<made, token>>
       \/ Registered /\ token' = "good"
    /\ UNCHANGED <<tv, policy, op, faults, remote, witnessed>>

\* With a session, found or made, the request goes out.  power_off takes the session with
\* it, whatever comes back.
SendRequest ==
    /\ pc = "ensure" /\ session
    /\ Send(Script[op][step])
    /\ pc' = "await"
    /\ session' = (Script[op][step] # "power_off")
    /\ UNCHANGED <<tv, policy, token, op, step, cmd, reused, result, faults, remote,
                   witnessed, made>>

\* The answer is read.
Receive ==
    /\ pc = "await"
    /\ \E i \in DOMAIN conn.wire :
         /\ Ends(i)
         /\ LET frame == conn.wire[i]
                error == IF frame.body = "unreadable" THEN "Garbled"
                         ELSE IF frame.body = "error" THEN "WebOs" ELSE "none"
                dead  == ~session \/ (error # "none" /\ Invalidates(error))
            IN /\ IF dead THEN Drop
                  ELSE /\ conn' = ReadUpTo(i)
                       /\ UNCHANGED session
               /\ IF error = "none" THEN Answered(Script[op][step], frame.value)
                  ELSE Failed(Kind(error), ~dead)
    /\ UNCHANGED <<tv, policy, token, op, faults, remote, witnessed, made>>

\* The request fails without an answer.
Fails ==
    /\ \E error \in {"Timeout", "Closed", "Exhausted"} :
         /\ GivesUp(error)
         /\ LET live == session /\ ~Invalidates(error) IN
              /\ IF live THEN Keep ELSE Drop
              /\ Failed(Kind(error), live)
         /\ made' = IF made = "yes" THEN "failed" ELSE made
    /\ UNCHANGED <<tv, policy, token, op, faults, remote, witnessed>>

Finish ==
    /\ pc = "done"
    /\ pc' = "idle" /\ op' = "none" /\ step' = 0 /\ cmd' = "Ok" /\ reused' = FALSE
    /\ result' = "none" /\ witnessed' = FALSE /\ made' = "no"
    /\ UNCHANGED <<tv, policy, token, conn, session, faults, remote>>

-----------------------------------------------------------------------------
(* The TV.                                                                 *)

Changes(t) ==
    /\ tv' = t
    /\ witnessed' = (witnessed \/ (op # "none" /\ About(op, t)))

\* The TV carries out a request, or not, and answers it, or not.
Serve ==
    /\ conn.open /\ conn.asked # <<>>
    /\ \E t \in {tv, Effect(Head(conn.asked), tv)}, body \in {"ok", "error", "none"} :
         /\ Changes(t)
         /\ conn' = [conn EXCEPT
              !.asked = Tail(@),
              !.wire = IF body = "none" THEN @
                       ELSE Append(@, [id |-> conn.next - Len(conn.asked), body |-> body,
                                       value |-> Value(Head(conn.asked), t)])]
    /\ UNCHANGED <<policy, token, session, op, step, cmd, reused, pc, result, faults,
                   remote, made>>

\* A frame nobody waits for: an old answer again, or one that cannot be read.
Stray ==
    /\ conn.open /\ faults < MaxFaults /\ faults' = faults + 1
    /\ \E frame \in [id : {conn.next - 2}, body : {"unreadable"}, value : {"none"}]
                    \cup [id : {conn.next - 2}, body : {"ok"}, value : Powers \cup Readings] :
         conn' = [conn EXCEPT !.wire = Append(@, frame)]
    /\ UNCHANGED <<tv, policy, token, session, op, step, cmd, reused, pc, result, remote,
                   witnessed, made>>

Close ==
    /\ conn.open /\ faults < MaxFaults /\ faults' = faults + 1
    /\ conn' = [conn EXCEPT !.open = FALSE, !.asked = <<>>]
    /\ UNCHANGED <<tv, policy, token, session, op, step, cmd, reused, pc, result, remote,
                   witnessed, made>>

\* The TV forgets this client.
Forget ==
    /\ token = "good" /\ faults < MaxFaults /\ faults' = faults + 1
    /\ token' = "stale"
    /\ UNCHANGED <<tv, policy, conn, session, op, step, cmd, reused, pc, result, remote,
                   witnessed, made>>

\* Somebody uses the remote, or a command of a dropped connection is carried out after all.
Remote ==
    /\ remote < MaxRemote /\ remote' = remote + 1
    /\ \/ \E p \in Powers : Changes([tv EXCEPT !.power = p])
       \/ \E x \in Readings : Changes([tv EXCEPT !.input = x]) \/ Changes([tv EXCEPT !.level = x])
    /\ UNCHANGED <<client, faults, made>>

-----------------------------------------------------------------------------
Init ==
    /\ tv = [power |-> "Active", input |-> "other", level |-> "other"]
    /\ conn = NoConn /\ session = FALSE
    /\ \/ policy = "PairIfNeeded" /\ token \in {"none", "stale"}
       \/ policy = "StoredTokenOnly" /\ token \in {"none", "good"}
    /\ op = "none" /\ step = 0 /\ cmd = "Ok" /\ reused = FALSE /\ pc = "idle" /\ result = "none"
    /\ faults = 0 /\ remote = 0
    /\ witnessed = FALSE /\ made = "no"

Work == MissingToken \/ OpenConnection \/ Register \/ Pair \/ SendRequest \/ Receive
        \/ Fails \/ Finish

Tv == Serve \/ Stray \/ Close \/ Forget \/ Remote

Next == (\E o \in DOMAIN Script : Call(o)) \/ Work \/ Tv

Spec == Init /\ [][Next]_vars

-----------------------------------------------------------------------------
(* Properties.                                                             *)

\* blank_screen, unblank_screen, set_input and set_oled_brightness report success only
\* when the TV really was in the state asked for at some time since the call, whatever
\* it acknowledges, repeats or does late.
OkIsReal ==
    pc = "done" /\ result = "Ok" => witnessed

\* current_input fails for want of a connection only if a connection failed during the
\* call: a socket that the TV closed between two calls goes unnoticed.
IdleCloseIsHarmless ==
    pc = "done" /\ op = "current_input" /\ result = "Transport" => made = "failed"

=============================================================================
