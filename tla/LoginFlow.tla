----------------------------- MODULE LoginFlow -----------------------------
(* auth login and auth signup: the terminal flow of internal/ui, which lets *)
(* the user pick a host and a way to log in, the OAuth flows of             *)
(* internal/oauth it starts, each with a loopback server waiting for the    *)
(* browser, and the plain login that prints the URL. What the flow asks for *)
(* is answered some time later, whatever screen the user is on by then, and *)
(* messages keep arriving until the quit does.                              *)
EXTENDS Naturals, Sequences, FiniteSets

CONSTANTS Hosts,        \* where CircleCI may be
          DefaultHost,  \* circleci.com
          Pastes,       \* tokens the user has at hand
          None,
          MaxFlows      \* bound: OAuth flows started in one login

ASSUME HostsAssumption == DefaultHost \in Hosts /\ MaxFlows \in Nat

VARIABLES stage,      \* the screen; or where the plain login is
          method,     \* methodSelect: the option under the cursor, and whether it was confirmed
          entered,    \* the token last confirmed on the token screen
          result,     \* what the flow will hand back
          flow,       \* the OAuth flow the model holds, 0: none
          flows,      \* all that were started
          inflight,   \* commands not answered yet, and the quit
          exit,       \* how the command returned
          saved,      \* the host and the token it has stored
          verified,   \* history: the hosts and tokens an identity was got for
          strayed     \* history: the user went on while an answer was due

model == <<stage, method, entered, result, flow, flows, inflight, strayed>>
vars  == <<model, exit, saved, verified>>

Fresh    == [at |-> "browser", confirmed |-> FALSE]
browserToken(f) == [from |-> "browser", id |-> f]
pasted(t)       == [from |-> "paste", id |-> t]

\* A command: a flow that is started or waited for, a code to be exchanged with
\* the verifier of a flow, an identity to be got at a host.
start(f)       == [cmd |-> "start", flow |-> f]
wait(f)        == [cmd |-> "wait", flow |-> f]
exchange(c, f) == [cmd |-> "exchange", code |-> c, flow |-> f]
getUser(h, t)  == [cmd |-> "user", host |-> h, token |-> t]
tea_Quit       == [cmd |-> "quit"]

Init == /\ stage \in {"HostSelect", "printStart"}
        /\ method = Fresh /\ entered = None
        /\ result = [Host |-> DefaultHost, Token |-> None, Cancelled |-> FALSE, Err |-> FALSE]
        /\ flow = 0 /\ flows = <<>> /\ inflight = {}
        /\ exit = "none" /\ saved = None /\ verified = {} /\ strayed = FALSE

running == exit = "none"
Send(c) == inflight' = inflight \cup {c}
Take(c) == c \in inflight /\ running
Answer(c, d) == inflight' = (inflight \ {c}) \cup {d}
shown(s) == stage' = s
\* The user does something other than cancelling.
goesOn  == strayed' = (strayed \/ inflight # {})
outside == UNCHANGED <<exit, saved, verified>>
-----------------------------------------------------------------------------
(* The keys. *)

\* ctrl+c, and esc where there is no way back.
cancel == /\ running
          /\ stage \in {"HostSelect", "HostInput", "MethodSelect", "TokenInput", "EnterPrompt", "Waiting"}
          /\ result' = [result EXCEPT !.Cancelled = TRUE]
          /\ Send(tea_Quit)
          /\ UNCHANGED <<stage, method, entered, flow, flows, strayed>> /\ outside

\* Host h has been picked or typed.
pickHost(h) == /\ result' = [result EXCEPT !.Host = h] /\ method' = Fresh
               /\ shown("MethodSelect")
               /\ UNCHANGED <<entered, flow, flows, inflight>>

updateHostSelect == /\ running /\ stage = "HostSelect"
                    /\ \/ pickHost(DefaultHost)
                       \/ shown("HostInput") /\ UNCHANGED <<method, entered, result, flow, flows, inflight>>
                    /\ goesOn /\ outside

keyHostInput == /\ running /\ stage = "HostInput"
                /\ \/ \E h \in Hosts : pickHost(h)
                   \/ shown("HostSelect") /\ UNCHANGED <<method, entered, result, flow, flows, inflight>>
                /\ goesOn /\ outside

cmdStartOAuth == /\ Len(flows) < MaxFlows
                 /\ flows' = Append(flows, [host |-> result.Host, box |-> "empty", up |-> FALSE])
                 /\ Send(start(Len(flows) + 1))

\* The selection stays confirmed, so whatever key comes while the flow is being
\* started selects again.
updateMethodSelect ==
    /\ running /\ stage = "MethodSelect"
    /\ \/ method' = [method EXCEPT !.confirmed = TRUE]
       \/ \E o \in {"browser", "paste"} : method' = [method EXCEPT !.at = o]
    /\ CASE ~method'.confirmed    -> UNCHANGED <<stage, flows, inflight>>
         [] method'.at = "paste"  -> shown("TokenInput") /\ UNCHANGED <<flows, inflight>>
         [] OTHER                 -> cmdStartOAuth /\ UNCHANGED stage
    /\ goesOn /\ UNCHANGED <<entered, result, flow>> /\ outside

backToHost == /\ running /\ stage = "MethodSelect"
              /\ shown(IF result.Host = DefaultHost THEN "HostSelect" ELSE "HostInput")
              /\ goesOn /\ UNCHANGED <<method, entered, result, flow, flows, inflight>> /\ outside

\* Enter takes what is in the field; any other key leaves the token last taken. If there
\* is one it is looked up, again and again.
updateTokenInput ==
    /\ running /\ stage = "TokenInput"
    /\ entered' \in {entered, None} \cup Pastes
    /\ IF entered' = None THEN UNCHANGED <<result, inflight>>
       ELSE /\ result' = [result EXCEPT !.Token = pasted(entered')]
            /\ Send(getUser(result.Host, pasted(entered')))
    /\ goesOn /\ UNCHANGED <<stage, method, flow, flows>> /\ outside

backToMethod == /\ running /\ stage = "TokenInput"
                /\ entered' = None /\ method' = Fresh /\ shown("MethodSelect")
                /\ goesOn /\ UNCHANGED <<result, flow, flows, inflight>> /\ outside

keyEnterPrompt == /\ running /\ stage = "EnterPrompt"
                  /\ shown("Waiting")
                  /\ UNCHANGED <<method, entered, result, flow, flows, inflight, strayed>> /\ outside
-----------------------------------------------------------------------------
(* The answers, on whatever screen they find the user. *)

\* The command behind c has failed.
fails(c) == /\ result' = [result EXCEPT !.Err = TRUE] /\ shown("Done")
            /\ Answer(c, tea_Quit)
            /\ UNCHANGED <<method, entered, flow, flows, strayed>> /\ outside

\* Fault: the wait for the browser begins when the user presses Enter.
FaultOnOAuthStarted(f) ==
    /\ Take(start(f))
    /\ \/ fails(start(f))
       \/ /\ flow' = f /\ flows' = [flows EXCEPT ![f].up = TRUE] /\ shown("EnterPrompt")
          /\ inflight' = inflight \ {start(f)}
          /\ UNCHANGED <<method, entered, result, strayed>> /\ outside

onOAuthStarted(f) ==
    /\ Take(start(f))
    /\ \/ fails(start(f))
       \/ /\ flow' = f /\ flows' = [flows EXCEPT ![f].up = TRUE] /\ shown("EnterPrompt")
          /\ Answer(start(f), wait(f))
          /\ UNCHANGED <<method, entered, result, strayed>> /\ outside

\* The wait is over, because the browser came or the time is up.
onOAuthCallback(f) ==
    /\ Take(wait(f))
    /\ \/ fails(wait(f))
       \/ /\ flows[f].box = "code"
          /\ shown("Waiting") /\ Answer(wait(f), exchange(f, flow))
          /\ UNCHANGED <<method, entered, result, flow, flows, strayed>> /\ outside

\* The server gives out a token for a code only against the verifier of its flow.
Exchange(c, f) == IF c = f THEN {None, browserToken(c)} ELSE {None}

onTokenExchanged(c, f) ==
    /\ Take(exchange(c, f))
    /\ \E t \in Exchange(c, f) :
          \/ t = None /\ fails(exchange(c, f))
          \/ /\ t # None /\ result' = [result EXCEPT !.Token = t]
             /\ Answer(exchange(c, f), getUser(result.Host, t))
             /\ UNCHANGED <<stage, method, entered, flow, flows, strayed>> /\ outside

\* A host knows the tokens it has given out.
accepts(h, t) == t.from = "browser" => flows[t.id].host = h

\* Fault: who the user is cannot be found out, and the token is kept.
FaultOnUsernameFetched(h, t) ==
    /\ Take(getUser(h, t))
    /\ UNCHANGED verified \/ (accepts(h, t) /\ verified' = verified \cup {<<h, t>>})
    /\ shown("Done") /\ Answer(getUser(h, t), tea_Quit)
    /\ UNCHANGED <<method, entered, result, flow, flows, strayed, exit, saved>>

onUsernameFetched(h, t) ==
    /\ Take(getUser(h, t))
    /\ \/ /\ result' = [result EXCEPT !.Err = TRUE, !.Token = None] /\ UNCHANGED verified
       \/ /\ accepts(h, t) /\ verified' = verified \cup {<<h, t>>} /\ UNCHANGED result
    /\ shown("Done") /\ Answer(getUser(h, t), tea_Quit)
    /\ UNCHANGED <<method, entered, flow, flows, strayed, exit, saved>>

\* runLoginInteractive, once the program has ended. Whether the settings can be
\* saved is the subject of ConfigStore.
persistToken == \/ exit' = "ok" /\ saved' = <<result.Host, result.Token>>
                \/ exit' = "failed" /\ UNCHANGED saved
FaultOutcome == IF result.Err \/ result.Token = None
                THEN exit' = "failed" /\ UNCHANGED saved
                ELSE persistToken
outcome == CASE result.Cancelled -> exit' = "cancelled" /\ UNCHANGED saved
             [] ~result.Cancelled /\ result.Err -> exit' = "failed" /\ UNCHANGED saved
             [] OTHER -> persistToken

quits == Take(tea_Quit) /\ outcome /\ UNCHANGED <<model, verified>>

\* SIGINT or SIGTERM ends the program with an error.
signal == /\ running
          /\ exit' = "interrupted" /\ UNCHANGED <<model, saved, verified>>
-----------------------------------------------------------------------------
(* The browser. *)

\* A request to the loopback server: the code, or a refusal, a wrong state or no
\* code. The channel takes one; what comes later is told the same and dropped.
handleCallback(f) ==
    /\ running /\ flows[f].up
    /\ \E b \in {"code", "error"} :
          flows' = [flows EXCEPT ![f].box = IF @ = "empty" THEN b ELSE @]
    /\ UNCHANGED <<stage, method, entered, result, flow, inflight, strayed>> /\ outside
-----------------------------------------------------------------------------
(* login --no-browser, or without a terminal: one step after the other. *)

printed == UNCHANGED <<method, entered, inflight, strayed>>
failed(e) == exit' = e /\ UNCHANGED <<stage, flow, flows, result, saved, verified>>

printURL == /\ running /\ stage = "printStart"
            /\ \/ failed("failed")
               \/ \E h \in Hosts :
                     /\ result' = [result EXCEPT !.Host = h]
                     /\ flow' = 1 /\ flows' = <<[host |-> h, box |-> "empty", up |-> TRUE]>>
                     /\ shown("printWait") /\ outside
            /\ printed

printWait == /\ running /\ stage = "printWait"
             /\ \/ failed("timeout")
                \/ flows[flow].box = "error" /\ failed("failed")
                \/ /\ flows[flow].box = "code" /\ shown("printExchange")
                   /\ UNCHANGED <<flow, flows, result>> /\ outside
             /\ printed

printExchange == /\ running /\ stage = "printExchange"
                 /\ \/ failed("failed")
                    \/ /\ result' = [result EXCEPT !.Token = browserToken(flow)] /\ shown("printPersist")
                       /\ UNCHANGED <<flow, flows>> /\ outside
                 /\ printed

persistLoginToken == /\ running /\ stage = "printPersist"
                     /\ \/ failed("failed")
                        \/ /\ verified' = verified \cup {<<result.Host, result.Token>>}
                           /\ saved' = <<result.Host, result.Token>> /\ exit' = "ok"
                           /\ UNCHANGED <<stage, flow, flows, result>>
                     /\ printed
-----------------------------------------------------------------------------
keys    == \/ cancel \/ updateHostSelect \/ keyHostInput \/ updateMethodSelect \/ backToHost
           \/ updateTokenInput \/ backToMethod \/ keyEnterPrompt
started == \E f \in DOMAIN flows : onOAuthStarted(f)
waited  == \E f \in DOMAIN flows : onOAuthCallback(f)
others  == \/ \E c, f \in DOMAIN flows : onTokenExchanged(c, f)
           \/ \E m \in {c \in inflight : c.cmd = "user"} : onUsernameFetched(m.host, m.token)
           \/ \E f \in DOMAIN flows : handleCallback(f)
plain   == printURL \/ printExchange \/ persistLoginToken
Ended   == ~running /\ UNCHANGED vars
Next    == keys \/ started \/ waited \/ others \/ plain \/ printWait \/ quits \/ signal \/ Ended

\* The wait has its own timer, and the program handles the messages it has. The
\* exchange and the identity have no deadline of the flow's.
Spec == Init /\ [][Next]_vars /\ WF_vars(waited) /\ WF_vars(printWait) /\ WF_vars(quits)
-----------------------------------------------------------------------------
Tokens   == [from : {"browser"}, id : Nat] \cup [from : {"paste"}, id : Pastes]
Cmds     == [cmd : {"start", "wait"}, flow : DOMAIN flows]
            \cup [cmd : {"exchange"}, code : DOMAIN flows, flow : DOMAIN flows]
            \cup [cmd : {"user"}, host : Hosts, token : Tokens] \cup {tea_Quit}
Screens  == {"HostSelect", "HostInput", "MethodSelect", "TokenInput", "EnterPrompt", "Waiting", "Done"}
Printing == {"printStart", "printWait", "printExchange", "printPersist"}

TypeOK ==
    /\ stage \in Screens \cup Printing
    /\ method \in [at : {"browser", "paste"}, confirmed : BOOLEAN]
    /\ entered \in Pastes \cup {None}
    /\ result \in [Host : Hosts, Token : Tokens \cup {None}, Cancelled : BOOLEAN, Err : BOOLEAN]
    /\ flows \in Seq([host : Hosts, box : {"empty", "code", "error"}, up : BOOLEAN])
    /\ flow \in {0} \cup DOMAIN flows /\ inflight \subseteq Cmds
    /\ flow = 0 => /\ stage \notin Printing \ {"printStart"}
                   /\ \A m \in inflight : m.cmd # "wait"
    /\ stage \in Printing => inflight = {}
    /\ exit \in {"none", "ok", "failed", "cancelled", "interrupted", "timeout"}
    /\ saved \in {None} \cup (Hosts \X (Tokens \cup {None}))
    /\ verified \subseteq Hosts \X (Tokens \cup {None}) /\ strayed \in BOOLEAN

\* A code is exchanged by the flow it came to, and what is stored was accepted by the host
\* it is stored for, unless the user went on while an answer was due: enter pressed twice
\* starts two flows of which the model keeps the second, and after esc and another host the
\* late identity of a token has that token stored for the new host (cmdExchange,
\* onUsernameFetched: both take what the model has by then).
SoundUnlessStrayed ==
    ~strayed => /\ \A m \in inflight : m.cmd = "exchange" => m.code = m.flow
                /\ saved # None => saved \in verified

\* A login that was cancelled stores nothing, whatever arrives between the key and
\* the end of the program (onUsernameFetched after cancel, runLoginInteractive).
CancelledSavesNothing == result.Cancelled => saved = None

\* A login whose page was handed out does not wait for ever for the browser: it ends, or
\* it is with the server, although nobody presses a key (cmdWaitCallback, Flow.Wait).
WaitEnds == flow # 0 ~> (~running \/ \E m \in inflight : m.cmd \in {"exchange", "user"})
                        \/ stage \in {"printExchange", "printPersist"}
=============================================================================
