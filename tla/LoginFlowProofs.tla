-------------------------- MODULE LoginFlowProofs --------------------------
(* What a login may store, for any hosts, tokens and number of flows        *)
(* started.                                                                 *)
EXTENDS LoginFlow, TLAPS

\* Nothing is stored while the login runs, and the printing login, which has no
\* screen to leave, cannot be cancelled.
RunningInv == /\ running => saved = None
              /\ result.Cancelled => saved = None /\ stage \notin Printing

\* While nobody strays one command at most is in flight, besides the quit, and
\* it is about what the model holds; what the quit of a login that got through leaves
\* behind is the identity of that token at that host.
OneInFlight == \A m, n \in inflight \ {tea_Quit} : m = n
InFlightInv ==
    ~strayed =>
        /\ OneInFlight
        /\ \A m \in inflight : m.cmd = "wait" => m.flow = flow
        /\ \A m \in inflight : m.cmd = "exchange" => m.code = m.flow
        /\ \A m \in inflight : m.cmd = "user" => m.host = result.Host /\ m.token = result.Token
        /\ tea_Quit \in inflight /\ ~result.Cancelled =>
              /\ inflight = {tea_Quit}
              /\ result.Err \/ <<result.Host, result.Token>> \in verified

Inv == TypeOK /\ RunningInv /\ InFlightInv /\ SoundUnlessStrayed
-----------------------------------------------------------------------------
Flow == [host : Hosts, box : {"empty", "code", "error"}, up : BOOLEAN]
Result == [Host : Hosts, Token : Tokens \cup {None}, Cancelled : BOOLEAN, Err : BOOLEAN]

LEMMA FlowsType ==
    ASSUME NEW s \in Seq(Flow), NEW f \in DOMAIN s, NEW e \in Flow
    PROVE  [s EXCEPT ![f] = e] \in Seq(Flow) /\ DOMAIN [s EXCEPT ![f] = e] = DOMAIN s
OBVIOUS

LEMMA FlowType == TypeOK => flows \in Seq(Flow) /\ \A f \in DOMAIN flows : flows[f] \in Flow
<1>1. TypeOK => flows \in Seq(Flow)
  BY DEF TypeOK, Flow
<1>2. flows \in Seq(Flow) => \A f \in DOMAIN flows : flows[f] \in Flow
  OBVIOUS
<1> QED BY <1>1, <1>2

LEMMA InitType == Init => TypeOK
<1> SUFFICES ASSUME Init PROVE TypeOK
  OBVIOUS
<1>1. method \in [at : {"browser", "paste"}, confirmed : BOOLEAN] /\ result \in Result
  BY HostsAssumption DEF Init, Fresh, Result
<1>2. flows \in Seq(Flow)
  BY DEF Init
<1> QED BY <1>1, <1>2 DEF Init, TypeOK, Screens, Printing, Flow, Result

\* A command is known by the fields it has.
LEMMA OfCmds ==
    ASSUME TypeOK
    PROVE  /\ \A f : start(f) \in inflight => f \in DOMAIN flows
           /\ \A f : wait(f) \in inflight => f \in DOMAIN flows /\ flow # 0
           /\ \A c, f : exchange(c, f) \in inflight => c \in DOMAIN flows /\ f \in DOMAIN flows
           /\ \A h, t : getUser(h, t) \in inflight => h \in Hosts /\ t \in Tokens
<1>0. inflight \subseteq Cmds /\ (flow = 0 => \A m \in inflight : m.cmd # "wait")
  BY DEF TypeOK
<1>1. \A f : start(f) \in Cmds => f \in DOMAIN flows
  BY DEF Cmds, start, tea_Quit
<1>2. \A f : wait(f) \in Cmds => f \in DOMAIN flows
  BY DEF Cmds, wait, tea_Quit
<1>3. \A c, f : exchange(c, f) \in Cmds => c \in DOMAIN flows /\ f \in DOMAIN flows
  BY DEF Cmds, exchange, tea_Quit
<1>4. \A h, t : getUser(h, t) \in Cmds => h \in Hosts /\ t \in Tokens
  BY DEF Cmds, getUser, tea_Quit
<1>5. \A f : wait(f).cmd = "wait"
  BY DEF wait
<1> QED BY <1>0, <1>1, <1>2, <1>3, <1>4, <1>5

LEMMA AreCmds ==
    /\ tea_Quit \in Cmds
    /\ \A f \in DOMAIN flows : start(f) \in Cmds /\ wait(f) \in Cmds
    /\ \A c, f \in DOMAIN flows : exchange(c, f) \in Cmds
    /\ \A h \in Hosts, t \in Tokens : getUser(h, t) \in Cmds
BY DEF Cmds, start, wait, exchange, getUser, tea_Quit

\* Of the commands only wait(f) is one to wait.
LEMMA WhichWait ==
    /\ tea_Quit.cmd = "quit"
    /\ \A f : start(f).cmd = "start" /\ wait(f).cmd = "wait" /\ wait(f).flow = f
    /\ \A c, f : exchange(c, f).cmd = "exchange"
    /\ \A h, t : /\ getUser(h, t).cmd = "user"
                 /\ getUser(h, t).host = h /\ getUser(h, t).token = t
    /\ \A c, f : exchange(c, f).code = c /\ exchange(c, f).flow = f
BY DEF tea_Quit, start, wait, exchange, getUser

LEMMA KeysType == TypeOK /\ keys => TypeOK'
<1> SUFFICES ASSUME TypeOK, keys PROVE TypeOK'
  OBVIOUS
<1> USE DEF TypeOK, Screens, Printing, goesOn, outside, shown, Send
<1>1. CASE cancel
  <2>1. inflight' \subseteq Cmds' /\ Cmds' = Cmds
    BY <1>1, AreCmds DEF cancel, Cmds
  <2>2. result' \in Result
    BY <1>1 DEF cancel, Result
  <2>3. flow = 0 => \A m \in inflight' : m.cmd # "wait"
    BY <1>1, WhichWait DEF cancel
  <2> QED BY <1>1, <2>1, <2>2, <2>3 DEF cancel, Result
<1>2. ASSUME NEW h \in Hosts, pickHost(h), goesOn, outside PROVE TypeOK'
  BY <1>2 DEF pickHost, Fresh, Cmds
<1>3. CASE updateHostSelect
  BY <1>2, <1>3, HostsAssumption DEF updateHostSelect, Cmds
<1>4. CASE keyHostInput
  BY <1>2, <1>4 DEF keyHostInput, Cmds
<1>5. CASE updateMethodSelect
  <2>1. method' \in [at : {"browser", "paste"}, confirmed : BOOLEAN]
    BY <1>5 DEF updateMethodSelect
  <2>2. CASE UNCHANGED <<flows, inflight>>
    BY <1>5, <2>1, <2>2 DEF updateMethodSelect, Cmds
  <2>3. CASE cmdStartOAuth /\ UNCHANGED stage
    <3>1. flows' \in Seq(Flow) /\ DOMAIN flows \subseteq DOMAIN flows' /\ Len(flows) + 1 \in DOMAIN flows'
      BY <2>3 DEF cmdStartOAuth, Flow
    <3>2. Cmds \subseteq Cmds' /\ start(Len(flows) + 1) \in Cmds'
      BY <3>1 DEF Cmds, start
    <3> QED BY <1>5, <2>1, <2>3, <3>1, <3>2, WhichWait DEF updateMethodSelect, cmdStartOAuth, Flow
  <2> QED BY <1>5, <2>2, <2>3 DEF updateMethodSelect
<1>6. CASE backToHost
  BY <1>6 DEF backToHost, Cmds
<1>7. CASE updateTokenInput
  <2>1. CASE entered' = None
    BY <1>7, <2>1 DEF updateTokenInput, Cmds
  <2>2. CASE entered' # None
    <3>1. pasted(entered') \in Tokens
      BY <1>7, <2>2 DEF updateTokenInput, pasted, Tokens
    <3>2. getUser(result.Host, pasted(entered')) \in Cmds /\ Cmds' = Cmds
      BY <1>7, <3>1, AreCmds DEF updateTokenInput, Cmds
    <3> QED BY <1>7, <2>2, <3>1, <3>2, WhichWait DEF updateTokenInput
  <2> QED BY <2>1, <2>2
<1>8. CASE backToMethod
  BY <1>8 DEF backToMethod, Fresh, Cmds
<1>9. CASE keyEnterPrompt
  BY <1>9 DEF keyEnterPrompt, Cmds
<1> QED BY <1>1, <1>3, <1>4, <1>5, <1>6, <1>7, <1>8, <1>9 DEF keys

\* What becomes of a command that is answered.
LEMMA AnswerType ==
    ASSUME TypeOK, DOMAIN flows' = DOMAIN flows, NEW c, NEW d \in Cmds,
           inflight' \subseteq (inflight \ {c}) \cup {d}
    PROVE  inflight' \subseteq Cmds'
BY DEF TypeOK, Cmds

LEMMA FailsType == ASSUME TypeOK, NEW c, fails(c) PROVE TypeOK'
<1>1. inflight' \subseteq Cmds' /\ tea_Quit.cmd # "wait"
  BY AnswerType, AreCmds, WhichWait DEF fails, Answer
<1>2. result' \in Result
  BY DEF fails, TypeOK, Result
<1>3. flow = 0 => stage' \notin Printing \ {"printStart"} /\ \A m \in inflight' : m.cmd # "wait"
  BY <1>1 DEF fails, Answer, TypeOK, shown, Printing
<1> QED BY <1>1, <1>2, <1>3 DEF fails, TypeOK, shown, outside, Screens, Printing, Result

LEMMA StartedType == ASSUME TypeOK, NEW f \in DOMAIN flows, onOAuthStarted(f) PROVE TypeOK'
<1>1. CASE fails(start(f))
  BY <1>1, FailsType
<1>2. CASE ~fails(start(f))
  <2>1. /\ flow' = f /\ flows' = [flows EXCEPT ![f].up = TRUE] /\ stage' = "EnterPrompt"
        /\ inflight' = (inflight \ {start(f)}) \cup {wait(f)}
        /\ UNCHANGED <<method, entered, result, strayed, exit, saved, verified>>
    BY <1>2 DEF onOAuthStarted, shown, Answer, outside
  <2>2. flows' \in Seq(Flow) /\ DOMAIN flows' = DOMAIN flows /\ f # 0
    <3>0. flows \in Seq(Flow) /\ flows[f] \in Flow
      BY FlowType
    <3>1. [flows[f] EXCEPT !.up = TRUE] \in Flow
      BY <3>0 DEF Flow
    <3>2. flows' = [flows EXCEPT ![f] = [flows[f] EXCEPT !.up = TRUE]]
      BY <2>1
    <3> QED BY <3>0, <3>1, <3>2, FlowsType
  <2>3. inflight' \subseteq Cmds'
    BY <2>1, <2>2, AreCmds, AnswerType
  <2> QED BY <2>1, <2>2, <2>3 DEF TypeOK, Screens, Printing, Flow
<1> QED BY <1>1, <1>2

LEMMA CallbackType == ASSUME TypeOK, NEW f \in DOMAIN flows, onOAuthCallback(f) PROVE TypeOK'
<1>1. CASE fails(wait(f))
  BY <1>1, FailsType
<1>2. CASE ~fails(wait(f))
  <2>1. /\ stage' = "Waiting" /\ inflight' = (inflight \ {wait(f)}) \cup {exchange(f, flow)}
        /\ UNCHANGED <<method, entered, result, flow, flows, strayed, exit, saved, verified>>
        /\ wait(f) \in inflight
    BY <1>2 DEF onOAuthCallback, shown, Answer, outside, Take
  <2>2. exchange(f, flow) \in Cmds
    BY <2>1, OfCmds, AreCmds DEF TypeOK
  <2>3. inflight' \subseteq Cmds'
    BY <2>1, <2>2, AnswerType
  <2>4. flow # 0
    BY <2>1, OfCmds
  <2> QED BY <2>1, <2>3, <2>4 DEF TypeOK, Screens, Printing
<1> QED BY <1>1, <1>2

LEMMA ExchangedType ==
    ASSUME TypeOK, NEW c \in DOMAIN flows, NEW f \in DOMAIN flows, onTokenExchanged(c, f)
    PROVE  TypeOK'
<1>1. CASE fails(exchange(c, f))
  BY <1>1, FailsType
<1>2. CASE ~fails(exchange(c, f))
  <2>1. PICK t \in Exchange(c, f) :
           /\ t # None /\ result' = [result EXCEPT !.Token = t]
           /\ inflight' = (inflight \ {exchange(c, f)}) \cup {getUser(result.Host, t)}
           /\ UNCHANGED <<stage, method, entered, flow, flows, strayed, exit, saved, verified>>
    BY <1>2 DEF onTokenExchanged, Answer, outside
  <2>2. t \in Tokens
    BY <2>1 DEF Exchange, Tokens, browserToken, TypeOK
  <2>3. getUser(result.Host, t) \in Cmds /\ getUser(result.Host, t).cmd # "wait"
    BY <2>2, AreCmds, WhichWait DEF TypeOK
  <2>4. inflight' \subseteq Cmds'
    BY <2>1, <2>3, AnswerType
  <2>5. result' \in Result
    BY <2>1, <2>2 DEF TypeOK, Result
  <2>6. flow = 0 => \A m \in inflight' : m.cmd # "wait"
    BY <2>1, <2>3 DEF TypeOK
  <2>7. stage \notin Printing
    BY DEF onTokenExchanged, Take, TypeOK
  <2> QED BY <2>1, <2>4, <2>5, <2>6, <2>7 DEF TypeOK, Result
<1> QED BY <1>1, <1>2

LEMMA UsernameType ==
    ASSUME TypeOK, NEW m \in inflight, m.cmd = "user", onUsernameFetched(m.host, m.token)
    PROVE  TypeOK'
<1>1. m.host \in Hosts /\ m.token \in Tokens
  BY DEF TypeOK, Cmds, tea_Quit
<1>2. result' \in Result
  BY DEF onUsernameFetched, TypeOK, Result
<1>3. /\ stage' = "Done" /\ inflight' = (inflight \ {getUser(m.host, m.token)}) \cup {tea_Quit}
      /\ UNCHANGED <<method, entered, flow, flows, strayed, exit, saved>>
      /\ verified' \subseteq verified \cup {<<m.host, m.token>>}
  BY DEF onUsernameFetched, shown, Answer
<1>4. inflight' \subseteq Cmds'
  BY <1>3, AreCmds, AnswerType
<1>5. flow = 0 => \A n \in inflight' : n.cmd # "wait"
  BY <1>3, WhichWait DEF TypeOK
<1> QED BY <1>1, <1>2, <1>3, <1>4, <1>5 DEF TypeOK, Result, Screens, Printing

LEMMA BrowserType == ASSUME TypeOK, NEW f \in DOMAIN flows, handleCallback(f) PROVE TypeOK'
<1>1. PICK b \in {"code", "error"} :
         flows' = [flows EXCEPT ![f].box = IF @ = "empty" THEN b ELSE @]
  BY DEF handleCallback
<1>2. flows' \in Seq(Flow) /\ DOMAIN flows' = DOMAIN flows
  <2>0. flows \in Seq(Flow) /\ flows[f] \in Flow
    BY FlowType
  <2>1. [flows[f] EXCEPT !.box = IF @ = "empty" THEN b ELSE @] \in Flow
    BY <2>0 DEF Flow
  <2>2. flows' = [flows EXCEPT ![f] = [flows[f] EXCEPT !.box = IF @ = "empty" THEN b ELSE @]]
    BY <1>1
  <2> QED BY <2>0, <2>1, <2>2, FlowsType
<1> QED BY <1>2 DEF handleCallback, TypeOK, Flow, Cmds, outside

LEMMA PlainType == TypeOK /\ (plain \/ printWait) => TypeOK'
<1> SUFFICES ASSUME TypeOK, plain \/ printWait PROVE TypeOK'
  OBVIOUS
<1> USE DEF printed, failed, shown, outside
<1>1. CASE printURL
  <2>1. ASSUME NEW h \in Hosts,
               /\ result' = [result EXCEPT !.Host = h]
               /\ flow' = 1 /\ flows' = <<[host |-> h, box |-> "empty", up |-> TRUE]>>
               /\ shown("printWait") /\ outside
        PROVE  TypeOK'
    <3>1. flows' \in Seq(Flow) /\ DOMAIN flows' = {1}
      BY <2>1 DEF Flow
    <3>2. result' \in Result
      BY <2>1 DEF TypeOK, Result
    <3>3. inflight' = {}
      BY <1>1 DEF printURL, TypeOK, Printing
    <3> QED BY <1>1, <2>1, <3>1, <3>2, <3>3 DEF TypeOK, printURL, Flow, Result, Printing
  <2>2. CASE failed("failed")
    BY <1>1, <2>2 DEF printURL, TypeOK, Cmds
  <2> QED BY <1>1, <2>1, <2>2 DEF printURL
<1>2. CASE printWait
  BY <1>2 DEF printWait, TypeOK, Cmds, Printing
<1>3. CASE printExchange
  <2>1. flow # 0 /\ browserToken(flow) \in Tokens
    BY <1>3 DEF printExchange, TypeOK, Printing, Tokens, browserToken
  <2>2. result' \in Result
    BY <1>3, <2>1 DEF printExchange, TypeOK, Result
  <2> QED BY <1>3, <2>1, <2>2 DEF printExchange, TypeOK, Cmds, Printing, Result
<1>4. CASE persistLoginToken
  BY <1>4 DEF persistLoginToken, TypeOK, Cmds
<1> QED BY <1>1, <1>2, <1>3, <1>4 DEF plain

LEMMA StepType == TypeOK /\ [Next]_vars => TypeOK'
<1> SUFFICES ASSUME TypeOK, [Next]_vars PROVE TypeOK'
  OBVIOUS
<1>1. CASE keys
  BY <1>1, KeysType
<1>2. CASE started \/ waited
  BY <1>2, StartedType, CallbackType DEF started, waited
<1>3. CASE others
  BY <1>3, ExchangedType, UsernameType, BrowserType DEF others
<1>4. CASE plain \/ printWait
  BY <1>4, PlainType
<1>5. CASE quits
  BY <1>5 DEF quits, outcome, persistToken, TypeOK, Cmds, model
<1>6. CASE signal
  BY <1>6 DEF signal, TypeOK, Cmds, model
<1>7. CASE UNCHANGED vars
  BY <1>7 DEF vars, model, TypeOK, Cmds
<1> QED BY <1>1, <1>2, <1>3, <1>4, <1>5, <1>6, <1>7 DEF Next, Ended
-----------------------------------------------------------------------------
LEMMA RunningStep == TypeOK /\ RunningInv /\ [Next]_vars => RunningInv'
<1> SUFFICES ASSUME TypeOK, RunningInv, [Next]_vars PROVE RunningInv'
  OBVIOUS
<1> USE DEF RunningInv, running, TypeOK, Screens, Printing, outside, shown, goesOn
<1>1. CASE keys
  BY <1>1 DEF keys, cancel, updateHostSelect, keyHostInput, pickHost, updateMethodSelect, backToHost,
              updateTokenInput, backToMethod, keyEnterPrompt
<1>2. CASE started \/ waited \/ others
  BY <1>2 DEF started, waited, others, onOAuthStarted, onOAuthCallback, onTokenExchanged, onUsernameFetched,
              handleCallback, fails, Take
<1>3. CASE plain \/ printWait
  BY <1>3 DEF plain, printURL, printExchange, persistLoginToken, printWait, printed, failed
<1>4. CASE quits
  BY <1>4 DEF quits, outcome, persistToken, Take, model
<1>5. CASE signal \/ UNCHANGED vars
  BY <1>5 DEF signal, vars, model
<1> QED BY <1>1, <1>2, <1>3, <1>4, <1>5 DEF Next, Ended
-----------------------------------------------------------------------------
\* The command that is answered was the only one, but for the quit of a cancelled login.
LEMMA Alone ==
    ASSUME InFlightInv, ~strayed, NEW c \in inflight, c # tea_Quit
    PROVE  inflight \ {c} \subseteq {tea_Quit} /\ (tea_Quit \in inflight => result.Cancelled)
BY DEF InFlightInv, OneInFlight

LEMMA FailsInFlight ==
    ASSUME TypeOK, InFlightInv, NEW c \in inflight, c # tea_Quit, fails(c)
    PROVE  InFlightInv'
<1> SUFFICES ASSUME ~strayed' PROVE InFlightInv'
  BY DEF InFlightInv
<1>1. inflight' = {tea_Quit} /\ ~strayed
  BY Alone DEF fails, Answer
<1>2. result'.Err
  BY DEF fails, TypeOK
<1> QED BY <1>1, <1>2, WhichWait DEF InFlightInv, OneInFlight

LEMMA KeysInFlight == TypeOK /\ InFlightInv /\ keys => InFlightInv'
<1> SUFFICES ASSUME TypeOK, InFlightInv, keys, ~strayed' PROVE InFlightInv'
  BY DEF InFlightInv
<1>0. goesOn => inflight = {} /\ ~strayed
  BY DEF goesOn, TypeOK
<1> USE DEF InFlightInv, OneInFlight
<1>1. CASE cancel
  <2>1. inflight' = inflight \cup {tea_Quit} /\ ~strayed /\ verified' = verified
    BY <1>1 DEF cancel, Send, outside
  <2>2. result'.Cancelled /\ result'.Host = result.Host /\ result'.Token = result.Token
    BY <1>1 DEF cancel, TypeOK
  <2>3. flow' = flow
    BY <1>1 DEF cancel
  <2> QED BY <2>1, <2>2, <2>3, WhichWait
<1>2. CASE goesOn /\ inflight' = inflight
  BY <1>0, <1>2
<1>3. CASE updateHostSelect \/ keyHostInput \/ backToHost \/ backToMethod
  BY <1>2, <1>3 DEF updateHostSelect, keyHostInput, backToHost, backToMethod, pickHost
<1>4. CASE updateMethodSelect
  <2>1. CASE cmdStartOAuth
    <3>1. inflight' = {start(Len(flows) + 1)}
      BY <1>0, <1>4, <2>1 DEF updateMethodSelect, cmdStartOAuth, Send
    <3> QED BY <3>1, WhichWait
  <2> QED BY <1>2, <1>4, <2>1 DEF updateMethodSelect
<1>5. CASE updateTokenInput
  <2>1. CASE entered' # None
    <3>1. /\ inflight' = {getUser(result.Host, pasted(entered'))}
          /\ result' = [result EXCEPT !.Token = pasted(entered')]
      BY <1>0, <1>5, <2>1 DEF updateTokenInput, Send
    <3>2. result'.Host = result.Host /\ result'.Token = pasted(entered')
      BY <3>1 DEF TypeOK
    <3> QED BY <3>1, <3>2, WhichWait
  <2> QED BY <1>2, <1>5, <2>1 DEF updateTokenInput
<1>6. CASE keyEnterPrompt
  BY <1>6 DEF keyEnterPrompt, outside
<1> QED BY <1>1, <1>3, <1>4, <1>5, <1>6 DEF keys

LEMMA AnswersInFlight == TypeOK /\ InFlightInv /\ (started \/ waited \/ others) => InFlightInv'
<1> SUFFICES ASSUME TypeOK, InFlightInv, started \/ waited \/ others, ~strayed' PROVE InFlightInv'
  BY DEF InFlightInv
<1>1. ASSUME NEW f \in DOMAIN flows, onOAuthStarted(f) PROVE InFlightInv'
  <2>1. start(f) \in inflight /\ start(f) # tea_Quit
    BY <1>1, WhichWait DEF onOAuthStarted, Take
  <2>2. CASE ~fails(start(f))
    <3>1. /\ flow' = f /\ inflight' = (inflight \ {start(f)}) \cup {wait(f)}
          /\ UNCHANGED <<result, strayed, verified>>
      BY <1>1, <2>2 DEF onOAuthStarted, Answer, outside
    <3>2. inflight' \subseteq {wait(f), tea_Quit} /\ (tea_Quit \in inflight' => result.Cancelled)
      BY <2>1, <3>1, Alone, WhichWait
    <3> QED BY <3>1, <3>2, WhichWait DEF InFlightInv, OneInFlight
  <2> QED BY <2>1, <2>2, FailsInFlight
<1>2. ASSUME NEW f \in DOMAIN flows, onOAuthCallback(f) PROVE InFlightInv'
  <2>1. wait(f) \in inflight /\ wait(f) # tea_Quit
    BY <1>2, WhichWait DEF onOAuthCallback, Take
  <2>2. CASE ~fails(wait(f))
    <3>1. /\ inflight' = (inflight \ {wait(f)}) \cup {exchange(f, flow)}
          /\ UNCHANGED <<flow, result, strayed, verified>>
      BY <1>2, <2>2 DEF onOAuthCallback, Answer, outside
    <3>2. inflight' \subseteq {exchange(f, flow), tea_Quit} /\ (tea_Quit \in inflight' => result.Cancelled)
      BY <2>1, <3>1, Alone, WhichWait
    <3>3. f = flow
      BY <2>1, <3>1, WhichWait DEF InFlightInv
    <3> QED BY <3>1, <3>2, <3>3, WhichWait DEF InFlightInv, OneInFlight
  <2> QED BY <2>1, <2>2, FailsInFlight
<1>3. ASSUME NEW c \in DOMAIN flows, NEW f \in DOMAIN flows, onTokenExchanged(c, f) PROVE InFlightInv'
  <2>1. exchange(c, f) \in inflight /\ exchange(c, f) # tea_Quit
    BY <1>3, WhichWait DEF onTokenExchanged, Take
  <2>2. CASE ~fails(exchange(c, f))
    <3>1. PICK t : /\ result' = [result EXCEPT !.Token = t]
                   /\ inflight' = (inflight \ {exchange(c, f)}) \cup {getUser(result.Host, t)}
                   /\ UNCHANGED <<flow, strayed, verified>>
      BY <1>3, <2>2 DEF onTokenExchanged, Answer, outside
    <3>2. /\ inflight' \subseteq {getUser(result.Host, t), tea_Quit}
          /\ tea_Quit \in inflight' => result.Cancelled
      BY <2>1, <3>1, Alone, WhichWait
    <3>3. result'.Host = result.Host /\ result'.Token = t /\ result'.Cancelled = result.Cancelled
      BY <3>1 DEF TypeOK
    <3> QED BY <3>1, <3>2, <3>3, WhichWait DEF InFlightInv, OneInFlight
  <2> QED BY <2>1, <2>2, FailsInFlight
<1>4. ASSUME NEW m \in inflight, m.cmd = "user", onUsernameFetched(m.host, m.token) PROVE InFlightInv'
  <2>1. m = getUser(m.host, m.token) /\ m # tea_Quit
    BY <1>4 DEF TypeOK, Cmds, getUser, tea_Quit
  <2>2. /\ inflight' = (inflight \ {m}) \cup {tea_Quit} /\ UNCHANGED <<flow, strayed>>
        /\ \/ result' = [result EXCEPT !.Err = TRUE, !.Token = None]
           \/ result' = result /\ verified' = verified \cup {<<m.host, m.token>>}
    BY <1>4, <2>1 DEF onUsernameFetched, Answer
  <2>3. inflight' = {tea_Quit} /\ m.host = result.Host /\ m.token = result.Token
    BY <1>4, <2>1, <2>2, Alone DEF InFlightInv
  <2>4. result'.Err \/ <<result'.Host, result'.Token>> \in verified'
    <3>1. CASE result' = [result EXCEPT !.Err = TRUE, !.Token = None]
      BY <3>1 DEF TypeOK
    <3>2. CASE result' = result /\ verified' = verified \cup {<<m.host, m.token>>}
      BY <2>3, <3>2
    <3> QED BY <2>2, <3>1, <3>2
  <2> QED BY <2>3, <2>4, WhichWait DEF InFlightInv, OneInFlight
<1>5. ASSUME NEW f \in DOMAIN flows, handleCallback(f) PROVE InFlightInv'
  BY <1>5 DEF handleCallback, outside, InFlightInv, OneInFlight
<1> QED BY <1>1, <1>2, <1>3, <1>4, <1>5 DEF started, waited, others

LEMMA InFlightStep == TypeOK /\ InFlightInv /\ [Next]_vars => InFlightInv'
<1> SUFFICES ASSUME TypeOK, InFlightInv, [Next]_vars PROVE InFlightInv'
  OBVIOUS
<1>1. CASE plain \/ printWait
  <2>1. inflight' = inflight /\ inflight = {} /\ strayed' = strayed
    BY <1>1 DEF plain, printWait, printURL, printExchange, persistLoginToken, printed, TypeOK, Printing
  <2> QED BY <2>1 DEF InFlightInv, OneInFlight
<1>2. CASE quits \/ signal \/ UNCHANGED vars
  BY <1>2 DEF quits, signal, vars, model, InFlightInv, OneInFlight
<1> QED BY <1>1, <1>2, KeysInFlight, AnswersInFlight DEF Next, Ended

\* Only the end of the login stores anything, and it finds that the host took the token.
LEMMA SoundStep == TypeOK /\ RunningInv /\ InFlightInv /\ SoundUnlessStrayed /\ [Next]_vars
                      => (~strayed' /\ saved' # None => saved' \in verified')
<1> SUFFICES ASSUME TypeOK, RunningInv, InFlightInv, SoundUnlessStrayed, [Next]_vars,
                    ~strayed', saved' # None
             PROVE  saved' \in verified'
  OBVIOUS
<1>1. CASE UNCHANGED saved
  <2>1. saved # None /\ ~running
    BY <1>1 DEF RunningInv
  <2>2. UNCHANGED vars
    BY <2>1 DEF Next, Ended, keys, cancel, updateHostSelect, keyHostInput, updateMethodSelect, backToHost,
          updateTokenInput, backToMethod, keyEnterPrompt, started, waited, others, onOAuthStarted,
          onOAuthCallback, onTokenExchanged, onUsernameFetched, handleCallback, Take, plain, printURL,
          printWait, printExchange, persistLoginToken, quits, signal
  <2> QED BY <1>1, <2>1, <2>2 DEF vars, model, SoundUnlessStrayed
<1>2. CASE quits
  <2>1. /\ tea_Quit \in inflight /\ ~strayed /\ verified' = verified
        /\ saved' # saved => ~result.Cancelled /\ ~result.Err /\ saved' = <<result.Host, result.Token>>
    BY <1>2 DEF quits, Take, outcome, persistToken, model, TypeOK
  <2> QED BY <1>1, <2>1 DEF InFlightInv
<1>3. CASE persistLoginToken
  BY <1>1, <1>3 DEF persistLoginToken, failed
<1>4. CASE ~quits /\ ~persistLoginToken
  <2>1. UNCHANGED saved
    BY <1>4 DEF Next, Ended, keys, cancel, updateHostSelect, keyHostInput, updateMethodSelect, backToHost,
          updateTokenInput, backToMethod, keyEnterPrompt, started, waited, others, onOAuthStarted,
          onOAuthCallback, onTokenExchanged, onUsernameFetched, handleCallback, fails, outside, plain, printURL,
          printWait, printExchange, failed, signal, vars, model
  <2> QED BY <1>1, <2>1
<1> QED BY <1>2, <1>3, <1>4

LEMMA Invariance == Spec => []Inv
<1>1. Init => Inv
  <2> SUFFICES ASSUME Init PROVE Inv
    OBVIOUS
  <2>1. TypeOK
    BY InitType
  <2>2. RunningInv /\ InFlightInv /\ SoundUnlessStrayed
    BY DEF Init, RunningInv, InFlightInv, OneInFlight, SoundUnlessStrayed
  <2> QED BY <2>1, <2>2 DEF Inv
<1>2. Inv /\ [Next]_vars => Inv'
  <2> SUFFICES ASSUME Inv, [Next]_vars PROVE Inv'
    OBVIOUS
  <2>1. TypeOK' /\ RunningInv' /\ InFlightInv'
    BY StepType, RunningStep, InFlightStep DEF Inv
  <2>2. SoundUnlessStrayed'
    BY <2>1, SoundStep DEF Inv, InFlightInv, SoundUnlessStrayed
  <2> QED BY <2>1, <2>2 DEF Inv
<1> QED BY <1>1, <1>2, PTL DEF Spec
-----------------------------------------------------------------------------
\* Every variable keeps its type; among them, that a code is exchanged with the
\* verifier of a flow that was started.
THEOREM TypeCorrect == Spec => []TypeOK
BY Invariance, PTL DEF Inv

\* A code is exchanged by the flow it came to, and a token is stored for a host that took
\* it, unless the user went on while an answer was due: whatever fails, and whenever the
\* browser comes.
THEOREM Sound == Spec => []SoundUnlessStrayed
BY Invariance, PTL DEF Inv

\* A cancelled login stores nothing, although its answers keep arriving and one of them
\* may hold a token.
THEOREM Cancelled == Spec => []CancelledSavesNothing
<1>1. Inv => CancelledSavesNothing
  BY DEF Inv, RunningInv, CancelledSavesNothing
<1> QED BY <1>1, Invariance, PTL
=============================================================================
