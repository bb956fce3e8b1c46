----------------------------- MODULE CommandRun -----------------------------
(* One command that talks to the API, from its flags to its exit code. Its  *)
(* program, a sequence of the steps of CommandSteps, is a parameter: the    *)
(* command modules give one for each command. A request is made over the    *)
(* client of internal/httpcl, which tries again when no answer comes, so    *)
(* the server may have carried out what the command takes for lost, and may *)
(* still carry it out when the command has ended. Meanwhile others rename   *)
(* and delete things.                                                       *)
EXTENDS CommandSteps, Naturals

CONSTANTS Program,       \* from commands to their steps
          RetryMax,      \* tries after the first
          MaxRounds,     \* bound: repetitions of a step made once for each of several things
          MaxMoves       \* bound: what others do

Commands == DOMAIN Program
Id       == 1..2         \* the things of a kind, one to a page of a list; 0 is none of them
Names    == {"wanted", "other", "gone"}  \* the name the user gave, another, or no such thing any more

ASSUME CountsAssumption == RetryMax \in Nat /\ MaxRounds \in Nat /\ MaxMoves \in Nat
AllSteps == [do : {"need", "whether", "stop", "ask", "consent", "call", "find", "file"},
             fact : STRING, code : Exits \cup {"byAnswer"}, miss : Exits,
             req : [verb : Verbs, kind : STRING, by : {"id", "name", "none"}],
             when : SUBSET STRING, unless : SUBSET STRING,
             soft : SUBSET (Failures \cup {"miss", "no"}), many : BOOLEAN, again : BOOLEAN]
ASSUME ProgramAssumption ==
    \A c \in Commands : /\ Program[c] \in Seq(AllSteps)
                        /\ \A i \in DOMAIN Program[c] :
                              /\ Program[c][i].code = "byAnswer" => Program[c][i].do = "call"
                              /\ Program[c][i].again => i > 1

VARIABLES cmd,           \* the command
          prog,          \* its steps
          given,         \* the facts that hold: options, and what it has learnt
          pc,            \* the step it is at
          tries,         \* tries again of the request it waits for
          page,          \* pages it has of a list; past those that are told apart, odd or even
          match,         \* what on these pages bears the wanted name
          rounds,        \* how often the step was repeated
          held,          \* for each kind, the id it found; 0: the id the user gave
          exit,          \* "running", or how it ended
          confirmed,     \* the user said yes, or --force did
          declined,      \* history: the user left a prompt without an answer, or said no
          things,        \* the server: the name of each thing of each kind
          wire,          \* requests given up that the server may still get
          applied,       \* how often each step was carried out
          moves,         \* what others have done so far
          bore,          \* history: what has borne the wanted name since the start
          absent,        \* history: kinds of which, at some time, nothing bore it
          hit            \* history: the things the requests of this command changed

program == <<cmd, prog>>
client == <<program, given, pc, tries, page, match, rounds, held, exit, confirmed, declined>>
server == <<things, wire, applied, hit, bore, absent>>
vars   == <<client, server, moves>>

Steps   == DOMAIN prog
running == exit = "running"
Due(i)  == prog[i].when \subseteq given /\ prog[i].unless \cap given = {}
At(do)  == running /\ pc \in Steps /\ Due(pc) /\ prog[pc].do = do
here    == prog[pc]

\* The kinds of which the model keeps the things: those a command looks up by
\* name, or ends, changes or starts something of.
TrackedBy(c) == {Program[c][i].req.kind : i \in {j \in DOMAIN Program[c] :
                    \/ Program[c][j].do = "find"
                    \/ /\ Program[c][j].req.by # "none"
                       /\ Program[c][j].req.verb \in Ending \cup {"update", "start"}}}
Tracked == DOMAIN things
Bearers(k) == {t \in Id : things[k][t] = "wanted"}
\* The facts a command may be started with: its options, not what its steps learn.
Learnt(s)  == IF s.do = "whether" \/ (s.soft \ {"no"}) # {} THEN {s.fact} ELSE {}
Terminal   == {"tty", "force"}
Asked(s)   == CASE s.do = "ask"     -> {s.fact, "tty"}
                [] s.do = "consent" -> Terminal
                [] OTHER            -> {}
StepsOf(c) == {Program[c][i] : i \in DOMAIN Program[c]}
Options(c) == {o \in UNION {s.when \cup s.unless \cup Asked(s) : s \in StepsOf(c)} :
                  o # "" /\ \A s \in StepsOf(c) : o \notin Learnt(s)}
Facts(c)   == Terminal \cup UNION {s.when \cup s.unless \cup {s.fact} : s \in StepsOf(c)}

Init == /\ cmd \in Commands /\ prog = Program[cmd]
        /\ given \in SUBSET Options(cmd)
        /\ pc = 1 /\ tries = 0 /\ page = 0 /\ match = {} /\ rounds = 0
        /\ held = [k \in TrackedBy(cmd) |-> 0]
        /\ exit = "running" /\ confirmed = FALSE /\ declined = FALSE
        /\ things \in [TrackedBy(cmd) -> [Id -> Names]]
        /\ \A k \in Tracked : Cardinality(Bearers(k)) <= 1
        /\ wire = {} /\ applied = [i \in Steps |-> 0] /\ moves = 0
        /\ bore = [k \in Tracked |-> Bearers(k)]
        /\ absent = {k \in Tracked : Bearers(k) = {}}
        /\ hit = {}

(* Leaving a step. *)

fresh    == tries' = 0 /\ page' = 0 /\ match' = {}
advance  == pc' = pc + 1 /\ fresh /\ UNCHANGED <<given, rounds, exit>>
learn    == pc' = pc + 1 /\ fresh /\ given' = given \cup ({here.fact} \ {""}) /\ UNCHANGED <<rounds, exit>>
Repeat   == /\ rounds < MaxRounds /\ rounds' = rounds + 1
            /\ fresh /\ UNCHANGED <<given, pc, exit>>
askAgain == pc' = pc - 1 /\ fresh /\ UNCHANGED <<given, rounds, exit>>
Quit(e)  == exit' = e /\ fresh /\ UNCHANGED <<given, pc, rounds>>

\* Fault: a deadline that has passed is taken for the user's ctrl+c.
FaultByAnswer(a) == CASE a = "unauthorized" -> "auth"
                      [] a = "silence"      -> "cancelled"
                      [] OTHER              -> IF a = "notFound" THEN here.miss ELSE "api"
ByAnswer(a) == CASE a = "unauthorized" -> "auth"
                 [] a = "notFound"     -> IF here.do = "find" THEN here.code ELSE here.miss
                 [] OTHER              -> "api"
\* A request failed with answer a: cmdutil.APIErr, or what the command makes of it.
FaultFail(a) == IF a = "unauthorized" THEN Quit("auth") ELSE learn
Fail(a) == IF a \in here.soft
           THEN IF here.again THEN askAgain ELSE learn
           ELSE Quit(IF here.code = "byAnswer" \/ here.do = "find" THEN ByAnswer(a) ELSE here.code)

(* What needs no server. *)

user  == <<confirmed, declined>>
local == UNCHANGED <<program, held, server, moves>>

Skip == /\ running /\ pc \in Steps /\ ~Due(pc)
        /\ advance
        /\ local /\ UNCHANGED user

check == /\ At("need")
         /\ advance \/ Quit(here.code)
         /\ local /\ UNCHANGED user

whether == /\ At("whether")
           /\ advance \/ learn
           /\ local /\ UNCHANGED user

stop == /\ At("stop")
        /\ Quit(here.code)
        /\ local /\ UNCHANGED user

\* Esc or ctrl+c at a prompt.
FaultDecline == declined' = TRUE /\ UNCHANGED confirmed /\ advance
Decline == /\ declined' = TRUE /\ UNCHANGED confirmed
           /\ IF "no" \in here.soft THEN advance ELSE Quit(here.miss)

\* The flag, or a prompt, or nobody there to be asked.
ask == /\ At("ask")
       /\ IF here.fact \in given THEN advance /\ UNCHANGED user
          ELSE IF "tty" \in given THEN \/ advance /\ UNCHANGED user
                                       \/ Decline
          ELSE Quit(here.code) /\ UNCHANGED user
       /\ local

FaultConfirmOrForce ==
    /\ At("consent")
    /\ \/ advance /\ confirmed' = ("tty" \in given) /\ UNCHANGED declined
       \/ "tty" \in given /\ Decline
    /\ local

ConfirmOrForce ==
    /\ At("consent")
    /\ \/ /\ "force" \in given \/ "tty" \in given
          /\ advance /\ confirmed' = TRUE /\ UNCHANGED declined
       \/ /\ "force" \notin given
          /\ IF "tty" \in given THEN Decline ELSE Quit(here.code) /\ UNCHANGED user
    /\ local

writeFile == /\ At("file")
             /\ \/ advance /\ applied' = [applied EXCEPT ![pc] = @ + 1]
                \/ here.many /\ Repeat /\ applied' = [applied EXCEPT ![pc] = @ + 1]
                \/ Quit(here.code) /\ UNCHANGED applied
             /\ UNCHANGED <<program, held, user, things, wire, hit, bore, absent, moves>>

End == /\ running /\ pc = Len(prog) + 1
       /\ Quit("ok")
       /\ local /\ UNCHANGED user

(* The server. *)

\* The thing request r is about: 0 where the model keeps none of its kind.
Subjects(r) == IF r.kind \notin Tracked \/ r.by = "none" THEN {0}
               ELSE IF r.by = "name" THEN Bearers(r.kind)
               ELSE {t \in {IF held[r.kind] = 0 THEN 1 ELSE held[r.kind]} : things[r.kind][t] # "gone"}

Rename(k, t, n) == things' = [things EXCEPT ![k][t] = n]
\* What has been seen to bear the name, and that nothing did, from now on.
remember == /\ bore' = [k \in Tracked |-> bore[k] \cup {t \in Id : things'[k][t] = "wanted"}]
            /\ absent' = absent \cup {k \in Tracked : \A t \in Id : things'[k][t] # "wanted"}

\* Step i is carried out on thing t.
Effect(i, t) ==
    LET r == prog[i].req IN
    IF Writes(r)
    THEN /\ applied' = [applied EXCEPT ![i] = @ + 1]
         /\ hit' = IF t = 0 THEN hit ELSE hit \cup {<<r.kind, t>>}
         /\ IF t # 0 /\ r.verb = "delete" THEN Rename(r.kind, t, "gone") ELSE UNCHANGED things
         /\ remember
    ELSE UNCHANGED <<applied, hit, things, bore, absent>>

(* internal/httpcl: a call, with its tries. *)

retry == \/ /\ tries < RetryMax /\ tries' = tries + 1
            /\ UNCHANGED <<given, pc, page, match, rounds, exit>>
         \/ Fail("silence")

\* The connection failed, or the answer was 429 or 5xx, and the server has done nothing.
Unanswered == /\ At("call") \/ At("find")
              /\ retry
              /\ UNCHANGED <<program, held, user, server, moves>>

\* The server did it, and the client does not get to know.
LoseAnswer == /\ At("call") /\ Writes(here.req)
              /\ \E t \in Subjects(here.req) : Effect(pc, t)
              /\ retry
              /\ UNCHANGED <<program, held, user, wire, moves>>

\* The client gave this try up, and the request is still on its way.
Delay == /\ At("call") /\ Writes(here.req)
         /\ \E t \in Subjects(here.req) : wire' = wire \cup {<<pc, t>>}
         /\ retry
         /\ UNCHANGED <<program, held, user, things, applied, hit, bore, absent, moves>>

Succeed == /\ At("call")
           /\ \E t \in Subjects(here.req) :
                 /\ Effect(pc, t)
                 /\ held' = IF t # 0 /\ here.req.verb = "read" /\ here.req.by = "name"
                            THEN [held EXCEPT ![here.req.kind] = t] ELSE held
           /\ advance \/ (here.many /\ Repeat)
           /\ UNCHANGED <<program, user, wire, moves>>

\* The server says no: there is no such thing, or no such user, or it will not.
Refuse == /\ At("call") \/ At("find")
          /\ \E a \in {"notFound", "unauthorized", "refused"} :
                /\ a = "notFound" => Subjects(here.req) \subseteq {0}
                /\ Fail(a)
          /\ UNCHANGED <<program, held, user, server, moves>>

(* Looking a name up in a list, page by page. *)

once  == here.req.verb = "listOnce"
\* The pages with the things that are told apart; what others own is on any number of pages more.
FaultPages == 1
pages == CASE At("call") -> 0
           [] once       -> 1
           [] OTHER      -> Cardinality(Id)

FaultSamePage == /\ At("find") /\ page < pages
                 /\ match' = match \cup (Bearers(here.req.kind) \cap {1})
                 /\ tries' = 0
                 /\ UNCHANGED <<program, given, pc, page, rounds, held, exit, user, server, moves>>
FaultTurnPage == /\ At("find") /\ page < pages
                 /\ page' = page + 1
                 /\ match' = match \cup {t \in Id : things[here.req.kind][t] # "gone"}
                 /\ tries' = 0
                 /\ UNCHANGED <<program, given, pc, rounds, held, exit, user, server, moves>>

turnPage == /\ At("find") /\ page < pages
            /\ page' = page + 1
            /\ match' = match \cup (Bearers(here.req.kind) \cap (IF once THEN Id ELSE {page + 1}))
            /\ tries' = 0
            /\ UNCHANGED <<program, given, pc, rounds, held, exit, user, server, moves>>

\* The server sends the token of a page more, with nothing on it that is told apart.
anotherPage == /\ At("call") \/ At("find")
               /\ here.req.verb = "list" /\ page >= pages
               /\ page' = IF page = pages THEN pages + 1 ELSE pages
               /\ tries' = 0
               /\ UNCHANGED <<program, given, pc, match, rounds, held, exit, user, server, moves>>

\* What was looked for is not there.
Miss == IF "miss" \in here.soft THEN learn ELSE Quit(here.miss)

choose == /\ At("find") /\ page >= pages
          /\ IF match = {} THEN Miss /\ UNCHANGED held
             ELSE /\ held' = [held EXCEPT ![here.req.kind] = CHOOSE t \in match : \A u \in match : t <= u]
                  /\ advance
          /\ UNCHANGED <<program, user, server, moves>>

(* What happens meanwhile. *)

\* Somebody else deletes or renames a thing; a name is borne by one thing at a time.
Elsewhere == /\ moves < MaxMoves /\ moves' = moves + 1
             /\ running \/ wire # {}
             /\ \E k \in Tracked, t \in Id, n \in Names :
                   /\ things[k][t] \notin {"gone", n}
                   /\ n = "wanted" => Bearers(k) = {}
                   /\ Rename(k, t, n)
             /\ remember
             /\ UNCHANGED <<client, wire, applied, hit>>

\* The server gets a request that its client has given up.
Arrive == /\ \E w \in wire :
                /\ wire' = wire \ {w}
                /\ IF w[2] = 0 \/ things[prog[w[1]].req.kind][w[2]] # "gone"
                   THEN Effect(w[1], w[2])
                   ELSE UNCHANGED <<applied, hit, things, bore, absent>>
          /\ UNCHANGED <<client, moves>>

progress == \/ Skip \/ check \/ whether \/ stop \/ ask \/ ConfirmOrForce \/ writeFile \/ End
            \/ Unanswered \/ LoseAnswer \/ Delay \/ Succeed \/ Refuse \/ turnPage \/ anotherPage \/ choose
Done == ~running /\ wire = {} /\ UNCHANGED vars
Next == progress \/ Elsewhere \/ Arrive \/ Done

Spec == Init /\ [][Next]_vars /\ WF_vars(progress)
-----------------------------------------------------------------------------
TypeOK ==
    LET kinds == TrackedBy(cmd) IN
    /\ cmd \in Commands /\ prog = Program[cmd] /\ given \subseteq Facts(cmd) /\ pc \in 1..(Len(prog) + 1)
    /\ tries \in 0..RetryMax /\ page \in 0..3 /\ match \subseteq Id /\ rounds \in 0..MaxRounds
    /\ held \in [kinds -> {0} \cup Id] /\ exit \in Exits
    /\ confirmed \in BOOLEAN /\ declined \in BOOLEAN
    /\ things \in [kinds -> [Id -> Names]]
    /\ wire \subseteq {w \in Steps \X ({0} \cup Id) : w[2] # 0 => prog[w[1]].req.kind \in kinds}
    /\ applied \in [Steps -> Nat] /\ moves \in 0..MaxMoves
    /\ bore \in [kinds -> SUBSET Id] /\ absent \subseteq kinds
    /\ hit \subseteq kinds \X Id

\* How the steps of a command have to be ordered, for what follows to be promised: whether
\* step i is due is known when it is reached; and before what cannot be had back it asks.
Known(p, i) == \A k \in DOMAIN p : k >= i => p[k].fact \notin p[i].when
AsksBefore(p, i) ==
    \E j \in DOMAIN p : /\ j < i /\ p[j].do = "consent" /\ "no" \notin p[j].soft /\ Known(p, j)
                        /\ p[j].when \subseteq p[i].when /\ p[j].unless \subseteq p[i].unless
ConsentFirst == \A c \in Commands : \A i \in DOMAIN Program[c] :
                   Destroys(Program[c][i].req) => AsksBefore(Program[c], i)
Must(p, i) == Writes(p[i].req) /\ p[i].soft = {}
DueIsKnown == \A c \in Commands : \A i \in DOMAIN Program[c] :
                   Must(Program[c], i) => Program[c][i].do = "call" /\ Known(Program[c], i)
\* A prompt that is left ends the command.
NoIsTheEnd == \A c \in Commands : \A i \in DOMAIN Program[c] :
                   Program[c][i].do \in {"ask", "consent"} =>
                      "no" \notin Program[c][i].soft /\ Program[c][i].miss \notin {"running", "ok"}
\* What a name stands for is found out, or the command ends, before anything is changed by id.
LooksUp(s)    == s.do = "find" \/ s.req.by = "name"
FindsOut(s)   == s.do = "find" \/ (s.do = "call" /\ s.req.verb = "read" /\ s.req.by = "name")
Settled(p, f) == \A k \in DOMAIN p : p[k].fact \notin p[f].when
NamesFirst == \A c \in Commands : \A i, f \in DOMAIN Program[c] :
    LET p == Program[c]
    IN  Writes(p[i].req) /\ p[i].req.by = "id" /\ LooksUp(p[f]) /\ p[f].req.kind = p[i].req.kind
        => f < i /\ FindsOut(p[f]) /\ p[f].soft = {} /\ Settled(p, f)
\* Whatever may end it for a reason of its own comes before the first change.
LocalEnds   == {"badArguments", "cancelled", "general", "validation"}
EndsAway(s) == s.code \notin LocalEnds /\ s.miss \notin LocalEnds
ChecksFirst == \A c \in Commands : \A i \in DOMAIN Program[c] :
    Writes(Program[c][i].req) => /\ ~Program[c][i].again
                                 /\ \A f \in DOMAIN Program[c] : i <= f => EndsAway(Program[c][f])

\* What cannot be had back is ended only after a yes, or under --force
\* (cmdutil.ConfirmOrForce), in whatever order a command asks and looks up.
NothingUnconfirmed ==
    \A i \in Steps : applied[i] > 0 /\ Destroys(prog[i].req) => confirmed

\* Who leaves a prompt has ended the command: nothing goes on behind their back.
NoEndsIt == declined => exit \notin {"running", "ok"}

\* A request by name or by an id that was looked up changes nothing but what has
\* borne that name since the command began, whatever is renamed meanwhile.
OnlyTheNamed ==
    \A k \in Tracked :
       (\E i \in Steps : prog[i].req.kind = k /\ Due(i) /\ LooksUp(prog[i]))
       => {t \in Id : <<k, t>> \in hit} \subseteq bore[k]

\* Exit code 0 is the truth: each request that was due to change something, and
\* may not fail, has been carried out, whatever was lost or tried again.
ReportsTruth ==
    exit = "ok" => \A i \in 1..(pc - 1) :
                      Due(i) /\ Must(prog, i) => applied[i] > 0

\* A command that ends for a reason of its own, a missing argument, a failed check, a
\* prompt without an answer, has not changed anything on the server before that.
LocalFailureChangesNothing ==
    exit \in LocalEnds =>
       wire = {} /\ \A i \in Steps : Writes(prog[i].req) => applied[i] = 0

\* "Not found" about a name is the truth: at some moment since the start nothing bore it,
\* though the list was read page by page while others renamed things.
MissIsTrue ==
    [][choose /\ exit' # "running" => here.req.kind \in absent]_vars

\* What the code leaves to others: the server's lists end, and the user does not go on
\* for ever naming projects that do not exist.
ListsEnd    == <>[][~anotherPage]_vars
UserSettles == <>[][pc' >= pc]_vars

\* Every command ends if its lists and its user do: the tries are counted, each page is
\* asked for with the token of the page before, and nothing else is done over and over
\* (apiclient/context.go, project/link.go, which have no bound of their own).
CommandEnds == ListsEnd /\ UserSettles => <>(exit # "running")
=============================================================================
